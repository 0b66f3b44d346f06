--------------------------------- MODULE Motor ---------------------------------
(***************************************************************************)
(* The stepper motor that the filter wheel and the focuser extend: its     *)
(* target, the intermediate target it passes first (backlash), and the     *)
(* speed it gains and loses one level per step.  Positions are unsigned    *)
(* integers that wrap around (unsigned long, Wrap = 2^32 in the code).     *)
(*                                                                         *)
(* The operators act on a record m: currentPosition (cur), targetPosition  *)
(* (target), intermediateTargetPosition (inter), positionBase (base),      *)
(* speedLevel (speed), maxAccelStep (accel: the steps to gain full speed), *)
(* and whether nextTick is set (active).                                   *)
(***************************************************************************)
EXTENDS Integers

CONSTANTS Wrap,      \* number of values of a position
          Phases,    \* size of stepPattern, which drives the coils
          MaxAccel,  \* 255: the largest value of maxAccelStep (uint8_t)
          Torn       \* positions, of old and new bytes, that a power cut in
                     \* the middle of a save may leave in the EEPROM

ASSUME MotorAssumption ==
    /\ Wrap \in Nat /\ Phases \in Nat \ {0} /\ MaxAccel \in Nat \ {0}
    /\ Wrap % Phases = 0 /\ Wrap > Phases
    /\ Torn \subseteq 0 .. Wrap - 1

Positions == 0 .. Wrap - 1

\* The unsigned difference a - b read as a signed number.
Minus(a, b) == LET d == (a - b) % Wrap IN IF 2 * d < Wrap THEN d ELSE d - Wrap
Sgn(x)      == IF x < 0 THEN -1 ELSE IF x = 0 THEN 0 ELSE 1
Dist(a, b)  == Sgn(Minus(a, b)) * Minus(a, b)

MotorState == [cur : Positions, target : Positions, inter : Positions,
               base : 0 .. Phases - 1, speed : -MaxAccel .. MaxAccel,
               accel : 0 .. MaxAccel, active : BOOLEAN]

\* What the coils show: setOutput((currentPosition + positionBase) & 7).
Phase(m) == (m.cur + m.base) % Phases

AtRest(m) == m.target = m.cur /\ m.target = m.inter

\* loadPosition(p, b): the motor is said to be at p, and stays there.
LoadPosition(m, p, b) ==
    [m EXCEPT !.cur = p, !.target = p, !.inter = p, !.base = b]

\* isMoving()
IsMoving(m) == m.active /\ ~AtRest(m)

\* setTargetPosition(new, inter): the motor after the call, and whether
\* onProgress() is called.
SetTarget(m, new, inter) ==
    LET via == IF inter = m.cur THEN new ELSE inter
    IN  IF AtRest(m) /\ new = m.target /\ via = m.target
        THEN [motor |-> [m EXCEPT !.speed = 0], progress |-> FALSE]
        ELSE [motor |-> [m EXCEPT !.target = new, !.inter = via,
                                  !.speed  = IF AtRest(m) THEN 0 ELSE @,
                                  !.active = @ \/ AtRest(m)],
              progress |-> TRUE]

\* The speed of the next step towards dir, distance steps away (signed).  A
\* motor that exceeds a lowered accel is slowed down at once; one that has no
\* accel makes every second step at speed 0, which moves nothing.
Speed(m, dir, distance) ==
    LET faster == IF m.speed * dir < m.accel THEN m.speed + dir ELSE m.accel * dir
    IN  IF m.speed = 0 THEN dir
        ELSE IF faster * dir >= distance * dir THEN distance ELSE faster

\* Variant: positions are not unsigned.
Step_NoWrap(m, dir, distance, via) ==
    LET speed == Speed(m, dir, distance)
        cur   == m.cur + Sgn(speed)
    IN  [m EXCEPT !.cur = cur,
                  !.inter = IF cur = via THEN m.target ELSE via,
                  !.speed = IF distance - dir = 0 THEN 0 ELSE speed]

\* The motor makes a step, or none when it changes direction at speed 0.
Step(m, dir, distance, via) ==
    LET speed == Speed(m, dir, distance)
        cur   == (m.cur + Sgn(speed)) % Wrap
    IN  [m EXCEPT !.cur = cur,
                  !.inter = IF cur = via THEN m.target ELSE via,
                  !.speed = IF distance - dir = 0 THEN 0 ELSE speed]

\* Variant: the motor is turned off as soon as it reports its target.
MotorTick_OffWhenReached(m) ==
    LET length   == Dist(m.inter, m.cur) + Dist(m.inter, m.target)
        via      == IF m.inter = m.cur THEN m.target ELSE m.inter
        dir      == Sgn(Minus(via, m.cur))
        distance == length * dir
    IN  IF distance = 0
        THEN [motor |-> [m EXCEPT !.inter = via, !.active = FALSE], event |-> "stopped"]
        ELSE [motor |-> [Step(m, dir, distance, via) EXCEPT !.active = distance - dir # 0],
              event |-> IF distance - dir = 0 THEN "reached" ELSE "moved"]

\* Variant: the next tick of a motor that has arrived is not taken away.
MotorTick_NeverOff(m) ==
    LET length   == Dist(m.inter, m.cur) + Dist(m.inter, m.target)
        via      == IF m.inter = m.cur THEN m.target ELSE m.inter
        dir      == Sgn(Minus(via, m.cur))
        distance == length * dir
    IN  IF distance = 0 THEN [motor |-> [m EXCEPT !.inter = via], event |-> "stopped"]
        ELSE [motor |-> Step(m, dir, distance, via),
              event |-> IF distance - dir = 0 THEN "reached" ELSE "moved"]

\* tick(): the motor after it, and what it reports.  "stopped": the coils
\* are off, onProgress; "reached": onTargetPositionReached; "moved":
\* onProgress if half a second has passed.
MotorTick(m) ==
    LET length   == Dist(m.inter, m.cur) + Dist(m.inter, m.target)
        via      == IF m.inter = m.cur THEN m.target ELSE m.inter
        dir      == Sgn(Minus(via, m.cur))
        distance == length * dir
    IN  IF distance = 0
        THEN [motor |-> [m EXCEPT !.inter = via, !.active = FALSE], event |-> "stopped"]
        ELSE [motor |-> Step(m, dir, distance, via),
              event |-> IF distance - dir = 0 THEN "reached" ELSE "moved"]
=============================================================================
