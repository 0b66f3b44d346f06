------------------------------ MODULE MotorProofs ------------------------------
(***************************************************************************)
(* Proofs about the motors, for any number of positions, phases and levels *)
(* of speed, any slots, targets, backlashes and accelerations: first what  *)
(* the operators of Motor return, then the filter wheel and the focuser,   *)
(* which rest on it.                                                       *)
(***************************************************************************)
EXTENDS Motors, Arithmetic

(* A step of d positions turns the coils by d phases, also where the       *)
(* positions wrap.                                                         *)
LEMMA PhaseOfStep ==
    ASSUME NEW c \in Positions, NEW b \in Int, NEW d \in Int
    PROVE  (((c + d) % Wrap) + b) % Phases = (((c + b) % Phases) + d) % Phases
<1> DEFINE e == (c + d) % Wrap
           p == (c + b) % Phases
<1>1. Wrap \in Nat \ {0} /\ Phases \in Nat \ {0} /\ c \in Int
  BY MotorAssumption, SMT DEF Positions
<1>2. c + d \in Int /\ c + b \in Int
  BY <1>1, SMT
<1>3. PICK w \in Int : Wrap = Phases * w
  <2>1. \E w \in Int : Wrap = Phases * w + (Wrap % Phases)
    <3>1. Wrap \in Int
      BY <1>1
    <3> QED  BY <1>1, <3>1, Euclid
  <2>2. Wrap % Phases = 0
    BY MotorAssumption
  <2>3. PICK w \in Int : Wrap = Phases * w + 0
    BY <2>1, <2>2
  <2>4. Phases * w \in Int
    BY <1>1, SMT
  <2> QED  BY <2>3, <2>4, SMT
<1>4. PICK i \in Int : c + d = Wrap * i + e
  BY <1>1, <1>2, Euclid
<1>5. PICK j \in Int : c + b = Phases * j + p
  BY <1>1, <1>2, Euclid
<1>6. e \in Int /\ p \in Int
  <2>1. e \in 0 .. Wrap - 1 /\ p \in 0 .. Phases - 1
    BY <1>1, <1>2, Euclid
  <2> QED  BY <2>1, SMT
<1> HIDE DEF e, p
<1>7. PICK z \in Int : z = w * i
  BY SMT
<1>8. e + b = (p + d) + Phases * (j - z)
  <2> DEFINE u == Phases * j
             v == Phases * z
  <2>1. Wrap * i = v
    BY <1>1, <1>3, <1>7, SMT
  <2>2. Phases * (j - z) = u - v
    BY <1>1, SMT
  <2>3. u \in Int /\ v \in Int
    BY <1>1, SMT
  <2> HIDE DEF u, v
  <2>4. c + d = v + e /\ c + b = u + p
    BY <1>4, <1>5, <2>1 DEF u
  <2>5. e + b = (p + d) + (u - v)
    BY <1>1, <1>6, <2>3, <2>4, SMT
  <2> QED  BY <2>2, <2>5
<1>9. e + b \in Int /\ p + d \in Int /\ j - z \in Int
  BY <1>6, SMT
<1>10. (e + b) % Phases = (p + d) % Phases
  BY <1>1, <1>8, <1>9, Congruent
<1> QED  BY <1>10 DEF e, p

(* Coils that are inverted turn the other way.                             *)
LEMMA PhaseInverted ==
    ASSUME NEW p \in Int, NEW d \in Int
    PROVE  (Phases - ((p + d) % Phases)) % Phases = (((Phases - p) % Phases) - d) % Phases
<1> DEFINE e == (p + d) % Phases
           f == (Phases - p) % Phases
<1>1. Phases \in Nat \ {0} /\ p + d \in Int /\ Phases - p \in Int
  BY MotorAssumption, SMT
<1>2. PICK i \in Int : p + d = Phases * i + e
  BY <1>1, Euclid
<1>3. PICK j \in Int : Phases - p = Phases * j + f
  BY <1>1, Euclid
<1>4. e \in Int /\ f \in Int
  <2>1. e \in 0 .. Phases - 1 /\ f \in 0 .. Phases - 1
    BY <1>1, Euclid
  <2> QED  BY <2>1, SMT
<1> HIDE DEF e, f
<1>5. Phases - e = (f - d) + Phases * (i + j)
  <2> DEFINE u == Phases * i
             v == Phases * j
  <2>1. Phases * (i + j) = u + v /\ u \in Int /\ v \in Int
    BY <1>1, SMT
  <2> HIDE DEF u, v
  <2>2. p + d = u + e /\ Phases - p = v + f
    BY <1>2, <1>3 DEF u, v
  <2>3. Phases - e = (f - d) + (u + v)
    BY <1>1, <1>4, <2>1, <2>2, SMT
  <2> QED  BY <2>1, <2>3
<1>6. i + j \in Int /\ Phases - e \in Int /\ f - d \in Int
  BY <1>1, <1>4, SMT
<1>7. (Phases - e) % Phases = (f - d) % Phases
  BY <1>1, <1>5, <1>6, Congruent
<1> QED  BY <1>7 DEF e, f

-----------------------------------------------------------------------------
(* The signed difference of two positions is 0 only when they are equal.   *)
LEMMA MinusZero ==
    ASSUME NEW a \in Positions, NEW b \in Positions
    PROVE  /\ Minus(a, b) \in Int
           /\ Minus(a, b) = 0 <=> a = b
<1> DEFINE d == (a - b) % Wrap
<1>1. Wrap \in Nat /\ Wrap > 1
  BY MotorAssumption, SMT
<1>2. d \in Int /\ 0 <= d /\ d < Wrap
  BY <1>1, SMT DEF Positions
<1>3. a = b => d = 0
  BY <1>1, SMT DEF Positions
<1>4. d = 0 => a = b
  <2>1. a - b \in Int /\ -Wrap < a - b /\ a - b < Wrap
    BY <1>1, SMT DEF Positions
  <2>2. d = 0 => a - b = 0
    BY <1>1, <2>1, SmallMultiple
  <2> QED  BY <2>2, SMT DEF Positions
<1>5. Minus(a, b) = IF 2 * d < Wrap THEN d ELSE d - Wrap
  BY DEF Minus
<1> HIDE DEF d
<1> QED  BY <1>1, <1>2, <1>3, <1>4, <1>5, SMT
(* A distance is a natural number, and 0 only between equal positions.     *)
LEMMA DistZero ==
    ASSUME NEW a \in Positions, NEW b \in Positions
    PROVE  /\ Dist(a, b) \in Nat
           /\ Dist(a, b) = 0 <=> a = b
<1> DEFINE d == Minus(a, b)
<1>1. d \in Int /\ (d = 0 <=> a = b)
  BY MinusZero
<1>2. Dist(a, b) = Sgn(d) * d
  BY DEF Dist
<1> HIDE DEF d
<1>3. CASE d < 0
  BY <1>1, <1>2, <1>3, SMT DEF Sgn
<1>4. CASE d = 0
  BY <1>1, <1>2, <1>4, SMT DEF Sgn
<1>5. CASE d > 0
  BY <1>1, <1>2, <1>5, SMT DEF Sgn
<1> QED  BY <1>1, <1>3, <1>4, <1>5, SMT

(* The next position of a motor is a position.                             *)
LEMMA Onward ==
    ASSUME NEW c \in Positions, NEW s \in Int
    PROVE  (c + Sgn(s)) % Wrap \in Positions
<1>1. Wrap \in Nat \ {0} /\ c \in Int /\ Sgn(s) \in Int
  BY MotorAssumption, SMT DEF Positions, Sgn
<1> QED  BY <1>1, SMT DEF Positions

(* setTargetPosition: the motor keeps its place, and is off afterwards     *)
(* only when it was and when nothing else was asked of it.                 *)
LEMMA SetTargetKeeps ==
    ASSUME NEW m \in MotorState, NEW new \in Positions, NEW inter \in Positions
    PROVE  LET s == SetTarget(m, new, inter)
           IN  /\ s.motor \in MotorState /\ s.progress \in BOOLEAN
               /\ s.motor.cur = m.cur /\ s.motor.base = m.base
               /\ m.active => s.motor.active
               /\ ~s.progress => /\ s.motor.active = m.active /\ new = m.cur
                                 /\ AtRest(m) /\ AtRest(s.motor)
               /\ (s.progress /\ AtRest(m)) => s.motor.active
<1> DEFINE via == IF inter = m.cur THEN new ELSE inter
           s == SetTarget(m, new, inter)
           on == m.active \/ AtRest(m)
           sp == IF AtRest(m) THEN 0 ELSE m.speed
<1>0. 0 \in -MaxAccel .. MaxAccel
  BY MotorAssumption, SMT
<1>1. via \in Positions /\ on \in BOOLEAN /\ sp \in -MaxAccel .. MaxAccel /\ m.active \in BOOLEAN
  BY <1>0 DEF MotorState
<1>2. CASE AtRest(m) /\ new = m.target /\ via = m.target
  <2> DEFINE n == [m EXCEPT !.speed = 0]
  <2>1. s = [motor |-> n, progress |-> FALSE]
    BY <1>2 DEF SetTarget
  <2>3. n \in MotorState
    BY <1>0, Zenon DEF MotorState
  <2>4. /\ n.cur = m.cur /\ n.base = m.base /\ n.active = m.active
        /\ n.target = m.target /\ n.inter = m.inter
    BY Zenon DEF MotorState
  <2>5. AtRest(n) /\ new = m.cur
    BY <1>2, <2>4, Zenon DEF AtRest
  <2> HIDE DEF n, s
  <2>6. s.motor = n /\ s.progress = FALSE
    BY <2>1, Zenon
  <2> QED  BY <1>2, <2>3, <2>4, <2>5, <2>6, Zenon DEF s
<1>3. CASE ~(AtRest(m) /\ new = m.target /\ via = m.target)
  <2> DEFINE n == [m EXCEPT !.target = new, !.inter = via, !.speed = sp, !.active = on]
  <2>1. s = [motor |-> n, progress |-> TRUE]
    BY <1>3 DEF SetTarget
  <2> HIDE DEF via, on, sp
  <2>2. n \in MotorState
    BY <1>1, Zenon DEF MotorState
  <2>3. n.cur = m.cur /\ n.base = m.base /\ n.active = on
    BY Zenon DEF MotorState
  <2> HIDE DEF n, s
  <2>4. s.motor = n /\ s.progress = TRUE
    BY <2>1, Zenon
  <2> QED  BY <2>2, <2>3, <2>4, Zenon DEF s, on
<1> QED  BY <1>2, <1>3

(* The speed is gained one level at a time up to the limit that the motor  *)
(* has at this moment; one that exceeds a lowered limit is put back on it. *)
LEMMA SpeedType ==
    ASSUME NEW m \in MotorState, NEW dir \in {-1, 1}, NEW length \in Nat, length > 0
    PROVE  Speed(m, dir, length * dir) \in -MaxAccel .. MaxAccel
<1>1. m.speed \in -MaxAccel .. MaxAccel /\ m.accel \in 0 .. MaxAccel
  BY DEF MotorState
<1>2. CASE dir = 1
  <2>1. Speed(m, dir, length * dir) =
           LET faster == IF m.speed < m.accel THEN m.speed + 1 ELSE m.accel
           IN  IF m.speed = 0 THEN 1 ELSE IF faster >= length THEN length ELSE faster
    BY <1>1, <1>2, MotorAssumption, SMT DEF Speed
  <2> QED  BY <1>1, <2>1, MotorAssumption, SMT
<1>3. CASE dir = -1
  <2>1. Speed(m, dir, length * dir) =
           LET faster == IF -m.speed < m.accel THEN m.speed - 1 ELSE -m.accel
           IN  IF m.speed = 0 THEN -1 ELSE IF -faster >= length THEN -length ELSE faster
    BY <1>1, <1>3, MotorAssumption, SMT DEF Speed
  <2> QED  BY <1>1, <2>1, MotorAssumption, SMT
<1> QED  BY <1>2, <1>3

(* tick(): a motor that it turns off has arrived, and has not moved; one   *)
(* that stays on makes a step of at most one position.                     *)
LEMMA TickSteps ==
    ASSUME NEW m \in MotorState, m.active
    PROVE  LET r == MotorTick(m)
           IN  /\ r.motor \in MotorState
               /\ r.event \in {"stopped", "reached", "moved"}
               /\ r.motor.base = m.base
               /\ r.event = "stopped" => /\ ~r.motor.active /\ AtRest(r.motor)
                                         /\ r.motor.cur = m.cur
               /\ r.event # "stopped" =>
                     /\ r.motor.active
                     /\ \E d \in {-1, 0, 1} : r.motor.cur = (m.cur + d) % Wrap
<1> DEFINE length   == Dist(m.inter, m.cur) + Dist(m.inter, m.target)
           via      == IF m.inter = m.cur THEN m.target ELSE m.inter
           dir      == Sgn(Minus(via, m.cur))
           distance == length * dir
           speed    == Speed(m, dir, distance)
           r        == MotorTick(m)
<1>1. /\ m.cur \in Positions /\ m.inter \in Positions /\ m.target \in Positions
      /\ via \in Positions
  BY DEF MotorState
<1>2. length \in Nat /\ (length = 0 <=> m.inter = m.cur /\ m.inter = m.target)
  BY <1>1, DistZero, SMT
<1>3. dir \in {-1, 0, 1} /\ (dir = 0 <=> via = m.cur)
  BY <1>1, MinusZero, SMT DEF Sgn
<1>4. distance \in Int /\ (distance = 0 <=> length = 0 \/ dir = 0)
  <2> HIDE DEF length, dir
  <2> QED  BY <1>2, <1>3, SMT
<1>5. distance # 0 => speed \in -MaxAccel .. MaxAccel
  <2>1. distance # 0 => length > 0 /\ dir \in {-1, 1}
    BY <1>2, <1>3, <1>4, SMT
  <2> HIDE DEF length, dir
  <2> QED  BY <1>2, <2>1, SpeedType
<1>6. CASE distance = 0
  <2> DEFINE n == [m EXCEPT !.inter = via, !.active = FALSE]
  <2>1. r = [motor |-> n, event |-> "stopped"]
    BY <1>6 DEF MotorTick
  <2>2. m.target = m.cur /\ via = m.cur
    BY <1>2, <1>3, <1>4, <1>6, SMT
  <2> HIDE DEF via
  <2>3. /\ n \in MotorState
        /\ n.cur = m.cur /\ n.base = m.base /\ n.inter = via /\ n.target = m.target
        /\ n.active = FALSE
    BY <1>1, Zenon DEF MotorState
  <2> HIDE DEF n, r
  <2>4. r.motor = n /\ r.event = "stopped"
    BY <2>1, Zenon
  <2> QED  BY <2>2, <2>3, <2>4, Zenon DEF r, AtRest
<1>7. CASE distance # 0
  <2>1. r = [motor |-> Step(m, dir, distance, via),
             event |-> IF distance - dir = 0 THEN "reached" ELSE "moved"]
    BY <1>7 DEF MotorTick
  <2> DEFINE c  == (m.cur + Sgn(speed)) % Wrap
             i  == IF c = via THEN m.target ELSE via
             sp == IF distance - dir = 0 THEN 0 ELSE speed
             n  == [m EXCEPT !.cur = c, !.inter = i, !.speed = sp]
  <2>0. speed \in Int /\ speed \in -MaxAccel .. MaxAccel /\ 0 \in -MaxAccel .. MaxAccel
    <3> HIDE DEF speed, distance
    <3> QED  BY <1>5, <1>7, MotorAssumption, SMT
  <2>2. c \in Positions
    <3> HIDE DEF speed
    <3> QED  BY <1>1, <2>0, Onward
  <2>3. Step(m, dir, distance, via) = n
    BY DEF Step
  <2>4. \E d \in {-1, 0, 1} : c = (m.cur + d) % Wrap
    <3>1. Sgn(speed) \in {-1, 0, 1}
      <4> HIDE DEF speed
      <4> QED  BY <2>0, SMT DEF Sgn
    <3> QED  BY <3>1
  <2>5. i \in Positions /\ sp \in -MaxAccel .. MaxAccel
    BY <1>1, <2>0
  <2> HIDE DEF c, i, sp
  <2>6. n \in MotorState /\ n.cur = c /\ n.base = m.base /\ n.active = m.active
    BY <2>2, <2>5, Zenon DEF MotorState
  <2> HIDE DEF n, r, via, dir, distance
  <2>7. r.motor = n /\ r.event \in {"reached", "moved"}
    BY <2>1, <2>3, Zenon
  <2>8. r.event # "stopped"
    BY <2>7
  <2> QED  BY <2>4, <2>6, <2>7, <2>8, Zenon DEF r
<1> QED  BY <1>6, <1>7

-----------------------------------------------------------------------------
(***************************************************************************)
(* The filter wheel.  Every handler ends in onProgress, or leaves a wheel  *)
(* at rest as it is: what holds of a wheel is proved for onProgress once   *)
(* (OnProgressKeeps), and each action then brings the wheel into a state   *)
(* where onProgress does its work.                                         *)
(***************************************************************************)
ShownState == [raw : Positions, slot : 0 .. NSlots, rawBusy : BOOLEAN,
               slotBusy : BOOLEAN, calibBusy : BOOLEAN]
WState == [motor : MotorState, calib : {Idle, Waiting0, Waiting1},
           memory : Saved, writing : BOOLEAN, slotPos : [Slots -> SlotTargets],
           shown : ShownState, fresh : BOOLEAN]

\* v has the slots of w, and knows as much of them.
SameSlots(v, w) == v.slotPos = w.slotPos /\ v.fresh = w.fresh

\* What a wheel at m saves.
Place(m) == {[pos |-> m.cur, base |-> m.base]}

\* The three invariants, of a record.
Rested(w) == ~w.motor.active => AtRest(w.motor)
Honest(w) == w.memory # {} => ~w.motor.active /\ w.memory = Place(w.motor)
Shown(w)  == (~w.motor.active /\ w.calib = Idle) =>
                /\ ~w.shown.rawBusy /\ ~w.shown.calibBusy
                /\ w.shown.raw = w.motor.cur
                /\ w.fresh => /\ ~w.shown.slotBusy => w.shown.slot \in SlotsHere(w)
                              /\ w.shown.slotBusy <=> SlotsHere(w) = {}
Good(w) == w \in WState /\ Rested(w) /\ Honest(w) /\ Shown(w)

\* What onProgress needs: the saved position of a wheel that is off is its
\* own.
Ready(w) == /\ w \in WState /\ Rested(w)
            /\ (~w.motor.active /\ w.memory # {}) => w.memory = Place(w.motor)

-----------------------------------------------------------------------------
(* The slots are numbers, and the first one at a position is one there.    *)
LEMMA FirstSlot ==
    ASSUME NEW w, SlotsHere(w) # {}
    PROVE  (CHOOSE k \in SlotsHere(w) : \A j \in SlotsHere(w) : k <= j) \in SlotsHere(w)
<1>1. SlotsHere(w) \in SUBSET Nat
  BY WheelAssumption, SMT DEF SlotsHere, Slots
<1>2. \E k \in SlotsHere(w) : \A j \in SlotsHere(w) : k <= j
  BY <1>1, First
<1> QED  BY <1>2

(* A slot is one of the numbers that can be shown.                         *)
LEMMA SlotShown == Slots \subseteq 0 .. NSlots /\ 1 \in Slots
  BY WheelAssumption, SMT DEF Slots

(* The slots at the position of the motor.                                 *)
LEMMA SameHere ==
    ASSUME NEW v, NEW w, v.slotPos = w.slotPos, v.motor.cur = w.motor.cur
    PROVE  SlotsHere(v) = SlotsHere(w)
  BY DEF SlotsHere

(* The states of a calibration are different.                              *)
LEMMA Calibrations == Idle # Waiting0 /\ Idle # Waiting1 /\ Waiting0 # Waiting1
  BY SMT DEF Idle, Waiting0, Waiting1

(* A motor has a place that can be saved, and a phase.                     *)
LEMMA PlaceType ==
    ASSUME NEW m \in MotorState
    PROVE  /\ Place(m) \in Saved /\ Place(m) # {}
           /\ Phase(m) \in 0 .. Phases - 1
<1>1. m.cur \in Positions /\ m.base \in 0 .. Phases - 1
  BY Zenon DEF MotorState
<1>2. Place(m) \in {{[pos |-> p, base |-> b]} : p \in Positions, b \in 0 .. Phases - 1}
  BY <1>1 DEF Place
<1>3. Place(m) # {}
  BY Zenon DEF Place
<1> DEFINE c == m.cur
           b == m.base
<1>4. c \in Int /\ b \in Int
  BY <1>1, MotorAssumption, SMT DEF Positions
<1> HIDE DEF c, b
<1>5. (c + b) % Phases \in 0 .. Phases - 1
  BY <1>4, MotorAssumption, SMT
<1> QED  BY <1>2, <1>3, <1>5 DEF Phase, c, b, Saved

-----------------------------------------------------------------------------
(* The first part of onProgress.                                           *)
LEMMA ShowMotorKeeps ==
    ASSUME NEW w \in WState
    PROVE  LET v == ShowMotor(w)
           IN  /\ v \in WState /\ v.motor = w.motor /\ v.calib = w.calib
               /\ v.memory = IF w.motor.active THEN {} ELSE w.memory
               /\ v.shown.raw = w.motor.cur /\ v.shown.rawBusy = w.motor.active
               /\ v.slotPos = w.slotPos /\ v.fresh
<1> DEFINE s == [w.shown EXCEPT !.rawBusy = w.motor.active, !.raw = w.motor.cur]
           v == [w EXCEPT !.shown = s, !.fresh = TRUE]
           x == w.writing \/ v.memory # {}
           u == [v EXCEPT !.memory = {}, !.writing = x]
<1>1. ShowMotor(w) = IF w.motor.active THEN u ELSE v
  <2> DEFINE v0 == [w EXCEPT !.shown.rawBusy = w.motor.active, !.shown.raw = w.motor.cur,
                             !.fresh = TRUE]
             u0 == [v EXCEPT !.memory = {}, !.writing = @ \/ v.memory # {}]
  <2>1. ShowMotor(w) = IF w.motor.active THEN SaveAs(v0, {}) ELSE v0
    BY DEF ShowMotor
  <2>2. v0 = v
    BY Zenon DEF WState, ShownState
  <2>3. SaveAs(v, {}) = u0
    BY DEF SaveAs
  <2>4. u0 = u
    BY Zenon DEF WState
  <2> HIDE DEF v0, v, u, u0
  <2> QED  BY <2>1, <2>2, <2>3, <2>4, Zenon
<1>2. /\ w.motor.cur \in Positions /\ w.motor.active \in BOOLEAN
      /\ w.shown \in ShownState /\ w.memory \in Saved
  BY Zenon DEF WState, MotorState
<1>3. {} \in Saved
  BY DEF Saved
<1>4. s \in ShownState /\ s.raw = w.motor.cur /\ s.rawBusy = w.motor.active
  BY <1>2, Zenon DEF ShownState
<1> HIDE DEF s
<1>5. /\ v \in WState /\ v.motor = w.motor /\ v.calib = w.calib
      /\ v.memory = w.memory /\ v.shown = s /\ v.slotPos = w.slotPos /\ v.fresh = TRUE
  BY <1>4, Zenon DEF WState
<1>6. x \in BOOLEAN
  BY Zenon DEF WState
<1> HIDE DEF v, x
<1>7. /\ u \in WState /\ u.motor = v.motor /\ u.calib = v.calib
      /\ u.memory = {} /\ u.shown = v.shown /\ u.slotPos = v.slotPos /\ u.fresh = v.fresh
  BY <1>3, <1>5, <1>6, Zenon DEF WState
<1> HIDE DEF u
<1> QED  BY <1>1, <1>2, <1>4, <1>5, <1>7, Zenon

(* Saving makes the memory true.                                           *)
LEMMA SaveKeeps ==
    ASSUME NEW w \in WState
    PROVE  LET v == Save(w)
           IN  /\ v \in WState /\ v.motor = w.motor /\ v.calib = w.calib
               /\ v.memory = Place(w.motor) /\ v.shown = w.shown /\ SameSlots(v, w)
<1> DEFINE p == Place(w.motor)
           x == w.writing \/ w.memory # p
<1>1. Save(w) = [w EXCEPT !.memory = p, !.writing = @ \/ w.memory # p]
  BY DEF Save, SaveAs, Place
<1>2. w.motor \in MotorState
  BY DEF WState
<1>3. p \in Saved
  BY <1>2, PlaceType
<1>4. x \in BOOLEAN
  BY Zenon DEF WState
<1>5. [w EXCEPT !.memory = p, !.writing = @ \/ w.memory # p] =
         [w EXCEPT !.memory = p, !.writing = x]
  BY Zenon DEF WState
<1> HIDE DEF p, x
<1>6. LET v == [w EXCEPT !.memory = p, !.writing = x]
      IN  /\ v \in WState /\ v.motor = w.motor /\ v.calib = w.calib
          /\ v.memory = p /\ v.shown = w.shown /\ SameSlots(v, w)
  BY <1>3, <1>4, Zenon DEF WState, SameSlots
<1> QED  BY <1>1, <1>5, <1>6 DEF p

(* A wheel with other things to show.                                      *)
LEMMA OtherShown ==
    ASSUME NEW w \in WState, NEW s \in ShownState
    PROVE  LET v == [w EXCEPT !.shown = s]
           IN  /\ v \in WState /\ v.motor = w.motor /\ v.calib = w.calib
               /\ v.memory = w.memory /\ v.shown = s /\ SameSlots(v, w)
  BY Zenon DEF WState, SameSlots

(* The end of onProgress outside of a calibration.                         *)
LEMMA ShowSlotKeeps ==
    ASSUME NEW w \in WState, Rested(w),
           w.motor.active => w.memory = {},
           w.shown.raw = w.motor.cur, w.shown.rawBusy = w.motor.active
    PROVE  LET v == ShowSlot(w)
           IN  Good(v) /\ v.motor = w.motor /\ v.calib = w.calib
<1> DEFINE at    == SlotsHere(w)
           first == CHOOSE k \in at : \A j \in at : k <= j
           busy  == w.motor.active \/ at = {}
           s     == [w.shown EXCEPT !.calibBusy = FALSE, !.slotBusy = busy]
           v     == [w EXCEPT !.shown = s]
           t     == [s EXCEPT !.slot = first]
           u     == [v EXCEPT !.shown = t]
           v0    == [w EXCEPT !.shown.calibBusy = FALSE, !.shown.slotBusy = busy]
           u0    == [v EXCEPT !.shown.slot = first]
<1>1. ShowSlot(w) = IF w.motor.active THEN v ELSE IF at = {} THEN Save(v) ELSE Save(u0)
  <2>1. ShowSlot(w) = IF w.motor.active THEN v0 ELSE IF at = {} THEN Save(v0)
                      ELSE Save([v0 EXCEPT !.shown.slot = first])
    BY Zenon DEF ShowSlot
  <2> HIDE DEF at, busy, first
  <2>2. v0 = v
    BY Zenon DEF WState, ShownState
  <2> HIDE DEF v0, v
  <2> QED  BY <2>1, <2>2, Zenon
<1>2. w.motor.active \in BOOLEAN /\ w.shown \in ShownState /\ w.motor.cur \in Positions
  BY Zenon DEF WState, MotorState
<1>3. /\ s \in ShownState /\ s.raw = w.shown.raw /\ s.rawBusy = w.shown.rawBusy
      /\ s.calibBusy = FALSE /\ s.slotBusy = busy /\ s.slot = w.shown.slot
  BY <1>2, Zenon DEF ShownState
<1> HIDE DEF s
<1>4. /\ v \in WState /\ v.motor = w.motor /\ v.calib = w.calib
      /\ v.memory = w.memory /\ v.shown = s /\ SameSlots(v, w)
  BY <1>3, OtherShown
<1> HIDE DEF v
<1>5. CASE w.motor.active
  <2>1. ShowSlot(w) = v
    BY <1>1, <1>5
  <2>2. Good(v)
    BY <1>4, <1>5 DEF Good, Rested, Honest, Shown
  <2> QED  BY <1>4, <2>1, <2>2
<1>6. CASE ~w.motor.active /\ at = {}
  <2> DEFINE z == Save(v)
  <2>1. ShowSlot(w) = z
    BY <1>1, <1>6
  <2>2. /\ z \in WState /\ z.motor = w.motor /\ z.calib = w.calib
        /\ z.memory = Place(w.motor) /\ z.shown = s /\ z.slotPos = w.slotPos
    BY <1>4, SaveKeeps DEF SameSlots
  <2> HIDE DEF z
  <2>3. Rested(z) /\ Honest(z)
    BY <1>6, <2>2 DEF Rested, Honest
  <2>5. SlotsHere(z) = at
    BY <2>2, SameHere
  <2>4. Shown(z)
    BY <1>3, <1>6, <2>2, <2>5, Zenon DEF Shown
  <2> QED  BY <2>1, <2>2, <2>3, <2>4 DEF Good
<1>7. CASE ~w.motor.active /\ at # {}
  <2> DEFINE z == Save(u)
  <2>2. first \in at
    BY <1>7, FirstSlot
  <2>3. first \in 0 .. NSlots
    BY <2>2, SlotShown DEF SlotsHere
  <2> HIDE DEF first
  <2>4. /\ t \in ShownState /\ t.raw = s.raw /\ t.rawBusy = s.rawBusy
        /\ t.calibBusy = s.calibBusy /\ t.slotBusy = s.slotBusy /\ t.slot = first
    BY <1>3, <2>3, Zenon DEF ShownState
  <2> HIDE DEF t
  <2>5. /\ u \in WState /\ u.motor = w.motor /\ u.calib = w.calib
        /\ u.memory = w.memory /\ u.shown = t /\ SameSlots(u, w)
    BY <1>4, <2>4, OtherShown DEF SameSlots
  <2>9. u0 = u
    BY <1>4, Zenon DEF WState, t
  <2>1. ShowSlot(w) = z
    BY <1>1, <1>7, <2>9
  <2> HIDE DEF u, u0
  <2>6. /\ z \in WState /\ z.motor = w.motor /\ z.calib = w.calib
        /\ z.memory = Place(w.motor) /\ z.shown = t /\ z.slotPos = w.slotPos
    BY <2>5, SaveKeeps DEF SameSlots
  <2> HIDE DEF z
  <2>7. Rested(z) /\ Honest(z)
    BY <1>7, <2>6 DEF Rested, Honest
  <2>10. SlotsHere(z) = at
    BY <2>6, SameHere
  <2>8. Shown(z)
    BY <1>3, <1>7, <2>2, <2>4, <2>6, <2>10, Zenon DEF Shown
  <2> QED  BY <2>1, <2>6, <2>7, <2>8 DEF Good
<1> QED  BY <1>2, <1>5, <1>6, <1>7

(* A wheel with another motor, or in another state of the calibration.     *)
LEMMA OtherMotor ==
    ASSUME NEW w \in WState, NEW m \in MotorState
    PROVE  LET v == [w EXCEPT !.motor = m]
           IN  /\ v \in WState /\ v.motor = m /\ v.calib = w.calib
               /\ v.memory = w.memory /\ v.shown = w.shown /\ SameSlots(v, w)
  BY Zenon DEF WState, SameSlots

LEMMA OtherCalib ==
    ASSUME NEW w \in WState, NEW c \in {Idle, Waiting0, Waiting1}
    PROVE  LET v == [w EXCEPT !.calib = c]
           IN  /\ v \in WState /\ v.motor = w.motor /\ v.calib = c
               /\ v.memory = w.memory /\ v.shown = w.shown /\ SameSlots(v, w)
  BY Zenon DEF WState, SameSlots

(* loadPosition: the motor is where it is told, and stays as it was.       *)
LEMMA LoadKeeps ==
    ASSUME NEW m \in MotorState, NEW p \in Positions, NEW b \in 0 .. Phases - 1
    PROVE  LET n == LoadPosition(m, p, b)
           IN  /\ n \in MotorState /\ n.cur = p /\ n.base = b
               /\ n.target = p /\ n.inter = p
               /\ AtRest(n) /\ n.active = m.active
<1> DEFINE n == [m EXCEPT !.cur = p, !.target = p, !.inter = p, !.base = b]
<1>1. /\ n \in MotorState /\ n.cur = p /\ n.base = b
      /\ n.target = p /\ n.inter = p /\ n.active = m.active
  BY Zenon DEF MotorState
<1>2. LoadPosition(m, p, b) = n
  BY DEF LoadPosition
<1> HIDE DEF n
<1> QED  BY <1>1, <1>2 DEF AtRest

(* A name of the place that is a multiple of the phases away does not turn *)
(* the motor.                                                              *)
LEMMA SamePhase ==
    ASSUME NEW h \in Positions, h % Phases = 0, NEW p \in 0 .. Phases - 1
    PROVE  (h + p) % Phases = p
<1>1. Phases \in Nat \ {0} /\ h \in Int /\ p \in Int /\ h + p \in Int
  BY MotorAssumption, SMT DEF Positions
<1>2. PICK k \in Int : h = Phases * k + (h % Phases)
  BY <1>1, Euclid
<1>3. h = Phases * k + 0
  BY <1>2
<1>4. h + p = p + Phases * k
  <2> DEFINE u == Phases * k
  <2>1. u \in Int
    BY <1>1, SMT
  <2>2. h = u + 0
    BY <1>3
  <2> HIDE DEF u
  <2>3. h + p = p + u
    BY <1>1, <2>1, <2>2, SMT
  <2> QED  BY <2>3 DEF u
<1>5. (h + p) % Phases = p % Phases
  BY <1>1, <1>4, Congruent
<1>6. p % Phases = p
  BY MotorAssumption, SMT
<1> QED  BY <1>5, <1>6

(* The wheel that has found its home.                                      *)
LEMMA CalibratedKeeps ==
    ASSUME NEW w \in WState
    PROVE  LET v == Calibrated(w)
           IN  /\ Good(v) /\ v.motor.active = w.motor.active
               /\ v.motor.cur = Home /\ Phase(v.motor) = Phase(w.motor)
<1> DEFINE h == LoadPosition(w.motor, Home, Phase(w.motor))
           s == SetTarget(h, Home, Home)
           m == s.motor
           a == [w EXCEPT !.motor = m]
           b == [a EXCEPT !.calib = Idle]
           c == Save(b)
           d == ShowMotor(c)
           e == ShowSlot(d)
<1>1. Calibrated(w) = e
  <2>1. [w EXCEPT !.motor = m, !.calib = Idle] = b
    BY Zenon
  <2> HIDE DEF m, b
  <2> QED  BY <2>1 DEF Calibrated, m
<1>2. w.motor \in MotorState /\ Home \in Positions /\ Home % Phases = 0
  BY WheelAssumption DEF WState
<1>3. Phase(w.motor) \in 0 .. Phases - 1
  BY <1>2, PlaceType
<1>4. /\ h \in MotorState /\ h.cur = Home /\ h.base = Phase(w.motor)
      /\ h.target = Home /\ h.inter = Home
      /\ AtRest(h) /\ h.active = w.motor.active
  BY <1>2, <1>3, LoadKeeps
<1> HIDE DEF h
<1>5. /\ m \in MotorState /\ m.cur = Home /\ m.base = Phase(w.motor)
      /\ ~s.progress => m.active = h.active /\ AtRest(m)
  BY <1>2, <1>4, SetTargetKeeps
<1>6. ~s.progress
  <2>1. s = [motor |-> [h EXCEPT !.speed = 0], progress |-> FALSE]
    BY <1>4 DEF SetTarget
  <2> HIDE DEF s
  <2> QED  BY <2>1
<1> HIDE DEF s, m
<1>7. /\ a \in WState /\ a.motor = m
  BY <1>5, OtherMotor
<1> HIDE DEF a
<1>8. b \in WState /\ b.motor = m /\ b.calib = Idle
  BY <1>7, OtherCalib
<1> HIDE DEF b
<1>9. c \in WState /\ c.motor = m
  BY <1>8, SaveKeeps
<1> HIDE DEF c
<1>10. /\ d \in WState /\ d.motor = m
       /\ d.memory = IF m.active THEN {} ELSE c.memory
       /\ d.shown.raw = m.cur /\ d.shown.rawBusy = m.active
  BY <1>9, ShowMotorKeeps
<1> HIDE DEF d
<1>11. Rested(d)
  BY <1>5, <1>6, <1>10 DEF Rested
<1>12. Good(e) /\ e.motor = m
  BY <1>10, <1>11, ShowSlotKeeps
<1> HIDE DEF e
<1>13. Phase(m) = Phase(w.motor)
  <2>1. (Home + Phase(w.motor)) % Phases = Phase(w.motor)
    BY <1>2, <1>3, SamePhase
  <2> QED  BY <1>5, <2>1 DEF Phase
<1> QED  BY <1>1, <1>4, <1>5, <1>6, <1>12, <1>13

(* A wheel that shows its calibration.                                     *)
LEMMA ShowCalibrationKeeps ==
    ASSUME NEW w \in WState, Rested(w), Honest(w), w.calib # Idle
    PROVE  /\ Good(ShowCalibration(w)) /\ ShowCalibration(w).motor = w.motor
           /\ ShowCalibration(w).calib = w.calib
<1> DEFINE s == [w.shown EXCEPT !.calibBusy = TRUE, !.slotBusy = TRUE]
           v == [w EXCEPT !.shown = s]
<1>1. ShowCalibration(w) = v
  BY Zenon DEF ShowCalibration, WState, ShownState
<1>2. s \in ShownState
  BY Zenon DEF WState, ShownState
<1> HIDE DEF s
<1>3. /\ v \in WState /\ v.motor = w.motor /\ v.calib = w.calib
      /\ v.memory = w.memory
  BY <1>2, OtherShown
<1> HIDE DEF v
<1> QED  BY <1>1, <1>3, Zenon DEF Good, Rested, Honest, Shown

(* onProgress makes every invariant true, turns no motor on or off, and    *)
(* does not turn the coils.                                                *)
LEMMA OnProgressKeeps ==
    ASSUME NEW w, Ready(w), NEW pin \in BOOLEAN
    PROVE  LET u == OnProgress(w, pin)
           IN  /\ Good(u) /\ u.motor.active = w.motor.active
               /\ Phase(u.motor) = Phase(w.motor)
               /\ w.calib = Idle => u.motor = w.motor
               /\ w.calib = Waiting1 => u.calib = Waiting1 \/ u.motor.cur = Home
<1> DEFINE v == ShowMotor(w)
           z == [v EXCEPT !.calib = Waiting1]
<1>1. w \in WState /\ w.motor \in MotorState /\ w.motor.active \in BOOLEAN
  BY Zenon DEF Ready, WState, MotorState
<1>2. /\ v \in WState /\ v.motor = w.motor /\ v.calib = w.calib
      /\ v.memory = IF w.motor.active THEN {} ELSE w.memory
      /\ v.shown.raw = w.motor.cur /\ v.shown.rawBusy = w.motor.active
  BY <1>1, ShowMotorKeeps
<1>3. OnProgress(w, pin) =
         CASE v.calib = Idle              -> ShowSlot(v)
           [] v.calib = Waiting1 /\ pin   -> Calibrated(v)
           [] v.calib = Waiting0 /\ ~pin  -> ShowCalibration(z)
           [] OTHER                       -> ShowCalibration(v)
  BY DEF OnProgress
<1> HIDE DEF v
<1>4. Rested(v) /\ Honest(v)
  <2>1. Rested(v)
    BY <1>2 DEF Ready, Rested
  <2>2. CASE w.motor.active
    BY <1>2, <2>2, <2>1 DEF Honest
  <2>3. CASE ~w.motor.active
    BY <1>2, <2>3, <2>1, Zenon DEF Ready, Honest
  <2> QED  BY <2>1, <2>2, <2>3
<1>5. v.calib \in {Idle, Waiting0, Waiting1}
  BY <1>2 DEF WState
<1>6. z \in WState /\ z.motor = v.motor /\ z.calib = Waiting1 /\ z.memory = v.memory
  BY <1>2, OtherCalib
<1> HIDE DEF z
<1>7. Rested(z) /\ Honest(z)
  BY <1>4, <1>6 DEF Rested, Honest
<1>8. CASE v.calib = Idle
  <2>1. OnProgress(w, pin) = ShowSlot(v)
    BY <1>3, <1>8, Calibrations, Zenon
  <2>2. Good(ShowSlot(v)) /\ ShowSlot(v).motor = v.motor
    BY <1>2, <1>4, ShowSlotKeeps
  <2> QED  BY <1>2, <1>8, <2>1, <2>2, Calibrations
<1>9. CASE v.calib = Waiting1 /\ pin
  <2>1. OnProgress(w, pin) = Calibrated(v)
    BY <1>3, <1>9, Calibrations, Zenon
  <2> QED  BY <1>2, <1>9, <2>1, CalibratedKeeps, Calibrations
<1>10. CASE v.calib = Waiting0 /\ ~pin
  <2>1. OnProgress(w, pin) = ShowCalibration(z)
    BY <1>3, <1>10, Calibrations, Zenon
  <2>2. Good(ShowCalibration(z)) /\ ShowCalibration(z).motor = z.motor
    BY <1>6, <1>7, Calibrations, ShowCalibrationKeeps
  <2> QED  BY <1>2, <1>6, <1>10, <2>1, <2>2, Calibrations
<1>11. CASE v.calib # Idle /\ ~(v.calib = Waiting1 /\ pin) /\ ~(v.calib = Waiting0 /\ ~pin)
  <2>1. OnProgress(w, pin) = ShowCalibration(v)
    BY <1>3, <1>11, Zenon
  <2>2. /\ Good(ShowCalibration(v)) /\ ShowCalibration(v).motor = v.motor
        /\ ShowCalibration(v).calib = v.calib
    BY <1>2, <1>4, <1>11, ShowCalibrationKeeps
  <2> QED  BY <1>2, <1>11, <2>1, <2>2
<1> QED  BY <1>8, <1>9, <1>10, <1>11

(* Motor::setTargetPosition: a motor that is asked to go elsewhere, or     *)
(* that does not rest, is on and onProgress is called; else the wheel is   *)
(* as it was.                                                              *)
LEMMA MoveToKeeps ==
    ASSUME NEW w \in WState, Rested(w), NEW new \in Positions, NEW inter \in Positions,
           NEW pin \in BOOLEAN,
           (AtRest(w.motor) /\ new = w.motor.cur) => Honest(w) /\ Shown(w)
    PROVE  LET u == MoveTo(w, new, inter, pin)
           IN  Good(u) /\ Phase(u.motor) = Phase(w.motor)
<1> DEFINE s == SetTarget(w.motor, new, inter)
           m == s.motor
           v == [w EXCEPT !.motor = m]
<1>1. w.motor \in MotorState /\ w.motor.active \in BOOLEAN
  BY Zenon DEF WState, MotorState
<1>2. /\ m \in MotorState /\ s.progress \in BOOLEAN
      /\ m.cur = w.motor.cur /\ m.base = w.motor.base
      /\ w.motor.active => m.active
      /\ ~s.progress => /\ m.active = w.motor.active /\ new = w.motor.cur
                        /\ AtRest(w.motor) /\ AtRest(m)
      /\ (s.progress /\ AtRest(w.motor)) => m.active
  BY <1>1, SetTargetKeeps
<1>3. MoveTo(w, new, inter, pin) = IF s.progress THEN OnProgress(v, pin) ELSE v
  BY DEF MoveTo
<1> HIDE DEF s, m
<1>4. /\ v \in WState /\ v.motor = m /\ v.calib = w.calib
      /\ v.memory = w.memory /\ v.shown = w.shown /\ SameSlots(v, w)
  BY <1>2, OtherMotor
<1> HIDE DEF v
<1>5. Phase(v.motor) = Phase(w.motor) /\ Place(v.motor) = Place(w.motor)
  BY <1>2, <1>4 DEF Phase, Place
<1>6. CASE s.progress
  <2>1. v.motor.active
    BY <1>2, <1>4, <1>6 DEF Rested
  <2>2. Ready(v)
    BY <1>4, <2>1 DEF Ready, Rested
  <2>3. Good(OnProgress(v, pin)) /\ Phase(OnProgress(v, pin).motor) = Phase(v.motor)
    BY <2>2, OnProgressKeeps
  <2> QED  BY <1>3, <1>5, <1>6, <2>3
<1>7. CASE ~s.progress
  <2>1. Honest(w) /\ Shown(w)
    BY <1>2, <1>7
  <2>2. v.motor.active = w.motor.active /\ v.motor.cur = w.motor.cur /\ AtRest(v.motor)
    BY <1>2, <1>4, <1>7
  <2>3. Rested(v)
    BY <2>2 DEF Rested
  <2>4. Honest(v)
    BY <1>4, <1>5, <2>1, <2>2, Zenon DEF Honest
  <2>5. Shown(v)
    <3>1. SlotsHere(v) = SlotsHere(w) /\ v.fresh = w.fresh
      BY <1>4, <2>2, SameHere DEF SameSlots
    <3> QED  BY <1>4, <2>1, <2>2, <3>1, Zenon DEF Shown
  <2> QED  BY <1>3, <1>4, <1>5, <1>7, <2>3, <2>4, <2>5 DEF Good
<1> QED  BY <1>2, <1>6, <1>7

-----------------------------------------------------------------------------
(* gotoRawPos, whatever the backlash is set to.                            *)
LEMMA GotoKeeps ==
    ASSUME NEW w \in WState, Rested(w), NEW target \in Positions,
           \A b \in Backlashes : target - b < Wrap,
           (AtRest(w.motor) /\ target = w.motor.cur) => Honest(w) /\ Shown(w),
           NEW u \in GotoRawPos(w, target)
    PROVE  Good(u) /\ Phase(u.motor) = Phase(w.motor)
<1> DEFINE current == Minus(w.motor.cur, 0)
           via(b)  == IF \/ b > 0 /\ target < current
                         \/ b < 0 /\ target > current
                      THEN target - b ELSE target
           inter(b) == IF via(b) < 0 THEN 0 ELSE via(b)
<1>1. PICK b \in Backlashes, pin \in BOOLEAN : u = MoveTo(w, target, inter(b), pin)
  BY DEF GotoRawPos
<1>2. b \in Int /\ target - b < Wrap
  BY WheelAssumption
<1> HIDE DEF current
<1>3. inter(b) \in Positions
  BY <1>2, MotorAssumption, SMT DEF Positions
<1> HIDE DEF inter
<1> QED  BY <1>1, <1>3, MoveToKeeps

(* The set-up, from a memory that holds a position or none: the wheel is   *)
(* off and where the memory says, or it looks for its home or found it.    *)
LEMMA BootKeeps ==
    ASSUME NEW saved \in Saved, NEW slots \in [Slots -> SlotTargets],
           NEW u \in Boot(saved, slots)
    PROVE  /\ Good(u) /\ ~u.motor.active
           /\ saved # {} => saved = Place(u.motor)
           /\ saved = {} => u.calib = Waiting1 \/ u.motor.cur = Home
<1> DEFINE n == New(saved, slots)
           l == Loaded(n)
<1>1. PICK pin \in BOOLEAN : u = OnProgress(l, pin)
  BY DEF Boot
<1> DEFINE m == [cur |-> CtorPosition, target |-> CtorPosition, inter |-> CtorPosition,
                 base |-> 0, speed |-> 0, accel |-> WheelAccel, active |-> FALSE]
           s == [raw |-> CtorPosition, slot |-> 0, rawBusy |-> FALSE,
                 slotBusy |-> TRUE, calibBusy |-> FALSE]
<1>2. /\ CtorPosition \in Positions /\ 0 \in 0 .. Phases - 1 /\ 0 \in -MaxAccel .. MaxAccel
      /\ WheelAccel \in 0 .. MaxAccel /\ 0 \in 0 .. NSlots
  BY WheelAssumption, MotorAssumption, SMT
<1>3. m \in MotorState /\ AtRest(m) /\ m.active = FALSE
  BY <1>2, Zenon DEF MotorState, AtRest
<1>4. s \in ShownState
  BY <1>2, Zenon DEF ShownState
<1>5. n = [motor |-> m, calib |-> Idle, memory |-> saved, writing |-> FALSE,
           slotPos |-> slots, fresh |-> TRUE, shown |-> s]
  BY DEF New
<1> HIDE DEF m, s, n
<1>6. n \in WState /\ n.motor = m /\ n.memory = saved /\ n.calib = Idle
  BY <1>3, <1>4, <1>5, Zenon DEF WState
<1>7. /\ Ready(l) /\ ~l.motor.active
      /\ saved # {} => l.calib = Idle /\ saved = Place(l.motor)
      /\ saved = {} => l.calib = Waiting1
  <2>1. CASE saved = {}
    <3>1. l = [n EXCEPT !.calib = Waiting1]
      BY <1>6, <2>1 DEF Loaded
    <3>2. l \in WState /\ l.motor = m /\ l.memory = {} /\ l.calib = Waiting1
      BY <1>6, <2>1, <3>1, OtherCalib
    <3> HIDE DEF l
    <3> QED  BY <1>3, <2>1, <3>2 DEF Ready, Rested
  <2>2. CASE saved # {}
    <3>1. PICK p \in Positions, b \in 0 .. Phases - 1 : saved = {[pos |-> p, base |-> b]}
      BY <2>2 DEF Saved
    <3> DEFINE x == CHOOSE y \in saved : TRUE
               q == LoadPosition(m, x.pos, x.base)
    <3>2. x = [pos |-> p, base |-> b]
      <4>1. x \in saved
        BY <2>2
      <4> QED  BY <3>1, <4>1
    <3>4. l = [n EXCEPT !.motor = q]
      BY <1>6, <2>2 DEF Loaded
    <3> HIDE DEF x
    <3>3. x.pos = p /\ x.base = b
      BY <3>2
    <3>5. q \in MotorState /\ q.cur = p /\ q.base = b /\ AtRest(q) /\ q.active = m.active
      BY <1>3, <3>3, LoadKeeps
    <3> HIDE DEF q, l
    <3>6. l \in WState /\ l.motor = q /\ l.memory = saved /\ l.calib = Idle
      BY <1>6, <3>4, <3>5, OtherMotor
    <3>7. l.memory = Place(l.motor)
      BY <3>1, <3>5, <3>6 DEF Place
    <3> QED  BY <1>3, <2>2, <3>5, <3>6, <3>7 DEF Ready, Rested
  <2> QED  BY <2>1, <2>2
<1> HIDE DEF l
<1>8. /\ Good(u) /\ u.motor.active = l.motor.active
      /\ l.calib = Idle => u.motor = l.motor
      /\ l.calib = Waiting1 => u.calib = Waiting1 \/ u.motor.cur = Home
  BY <1>1, <1>7, OnProgressKeeps
<1> QED  BY <1>7, <1>8

(* The phases that the coils can be pulled to.                             *)
Near(p) == {(p + d) % Phases : d \in {-1, 0, 1}}

LEMMA NearItself ==
    ASSUME NEW m \in MotorState
    PROVE  Phase(m) \in Near(Phase(m))
<1>1. Phase(m) \in 0 .. Phases - 1
  BY PlaceType
<1> DEFINE p == Phase(m)
<1> HIDE DEF p
<1>2. p \in 0 .. Phases - 1
  BY <1>1 DEF p
<1>3. (p + 0) % Phases = p
  BY <1>2, MotorAssumption, SMT
<1>4. 0 \in {-1, 0, 1}
  OBVIOUS
<1>5. p \in Near(p)
  BY <1>3, <1>4 DEF Near
<1> QED  BY <1>5 DEF p

-----------------------------------------------------------------------------
\* What each step makes of the wheel w: a good one, whose coils follow.
Follows(w, u) == Good(u) /\ (u.motor.active => Phase(u.motor) \in Near(Phase(w.motor)))

(* A step of the motor, of a good wheel.                                   *)
LEMMA TickKeeps ==
    ASSUME NEW w, Good(w), w.motor.active
    PROVE  LET r == MotorTick(w.motor)
               v == [w EXCEPT !.motor = r.motor]
           IN  /\ \A pin \in BOOLEAN : Follows(w, OnProgress(v, pin))
               /\ r.event = "moved" => Follows(w, v)
<1> DEFINE r == MotorTick(w.motor)
           v == [w EXCEPT !.motor = r.motor]
<1>1. /\ w \in WState /\ w.motor \in MotorState /\ w.memory = {}
      /\ w.motor.cur \in Positions /\ w.motor.base \in Int
  <2>1. w \in WState /\ w.motor \in MotorState
    BY Zenon DEF Good, WState
  <2>2. w.memory = {}
    BY DEF Good, Honest
  <2>3. w.motor.cur \in Positions /\ w.motor.base \in 0 .. Phases - 1
    BY <2>1, Zenon DEF MotorState
  <2> QED  BY <2>1, <2>2, <2>3, SMT
<1>2. /\ r.motor \in MotorState /\ r.motor.base = w.motor.base
      /\ r.event = "stopped" => /\ ~r.motor.active /\ AtRest(r.motor)
                                /\ r.motor.cur = w.motor.cur
      /\ r.event # "stopped" =>
            /\ r.motor.active
            /\ \E d \in {-1, 0, 1} : r.motor.cur = (w.motor.cur + d) % Wrap
  BY <1>1, TickSteps
<1>3. v \in WState /\ v.motor = r.motor /\ v.memory = {}
  BY <1>1, <1>2, OtherMotor
<1> HIDE DEF r, v
<1>4. Rested(v)
  BY <1>2, <1>3 DEF Rested
<1>5. Phase(v.motor) \in Near(Phase(w.motor))
  <2>1. CASE r.event = "stopped"
    <3>1. Phase(v.motor) = Phase(w.motor)
      BY <1>2, <1>3, <2>1 DEF Phase
    <3> QED  BY <1>1, <3>1, NearItself
  <2>2. CASE r.event # "stopped"
    <3>1. PICK d \in {-1, 0, 1} : r.motor.cur = (w.motor.cur + d) % Wrap
      BY <1>2, <2>2
    <3>2. d \in Int
      BY <3>1, SMT
    <3>3. Phase(v.motor) = (Phase(w.motor) + d) % Phases
      BY <1>1, <1>2, <1>3, <3>1, <3>2, PhaseOfStep DEF Phase
    <3> QED  BY <3>1, <3>3 DEF Near
  <2> QED  BY <2>1, <2>2
<1>6. ASSUME NEW pin \in BOOLEAN PROVE Follows(w, OnProgress(v, pin))
  <2>1. Ready(v)
    BY <1>3, <1>4 DEF Ready
  <2>2. Good(OnProgress(v, pin)) /\ Phase(OnProgress(v, pin).motor) = Phase(v.motor)
    BY <2>1, OnProgressKeeps
  <2> QED  BY <1>5, <2>2 DEF Follows
<1>7. ASSUME r.event = "moved" PROVE Follows(w, v)
  <2>1. v.motor.active
    BY <1>2, <1>3, <1>7
  <2> QED  BY <1>3, <1>4, <1>5, <2>1 DEF Follows, Good, Honest, Shown
<1> QED  BY <1>6, <1>7 DEF r, v

(* A request for a position: a wheel that shows what it was asked for.     *)
LEMMA AskedKeeps ==
    ASSUME NEW w, Good(w), NEW s \in ShownState, NEW target \in Positions,
           \A b \in Backlashes : target - b < Wrap,
           (~w.motor.active /\ w.calib = Idle /\ target = w.motor.cur)
               => Shown([w EXCEPT !.shown = s]),
           NEW u \in (IF w.calib = Idle THEN GotoRawPos([w EXCEPT !.shown = s], target)
                      ELSE {[w EXCEPT !.shown = s]})
    PROVE  Follows(w, u)
<1> DEFINE v == [w EXCEPT !.shown = s]
<1>1. w \in WState /\ w.motor \in MotorState /\ Rested(w) /\ Honest(w)
  BY Zenon DEF Good, WState
<1>2. /\ v \in WState /\ v.motor = w.motor /\ v.calib = w.calib
      /\ v.memory = w.memory
  BY <1>1, OtherShown
<1> HIDE DEF v
<1>3. Rested(v) /\ Honest(v)
  BY <1>1, <1>2, Zenon DEF Rested, Honest
<1>4. Good(u) /\ Phase(u.motor) = Phase(w.motor)
  <2>1. CASE w.calib = Idle
    <3>1. u \in GotoRawPos(v, target)
      BY <2>1 DEF v
    <3>2. target = v.motor.cur => Shown(v)
      BY <1>2, <2>1, Zenon DEF v, Shown
    <3> QED  BY <1>2, <1>3, <3>1, <3>2, GotoKeeps
  <2>2. CASE w.calib # Idle
    <3>1. u = v
      BY <2>2 DEF v
    <3>2. Shown(v)
      BY <1>2, <2>2 DEF Shown
    <3> QED  BY <1>2, <1>3, <3>1, <3>2 DEF Good
  <2> QED  BY <2>1, <2>2
<1> QED  BY <1>1, <1>4, NearItself DEF Follows

-----------------------------------------------------------------------------
WheelInv == Good(wheel)

(* The wheel after a handler, one of those that the handler can make.      *)
LEMMA Rebuilt ==
    ASSUME NEW W, Become(W), WheelInv, \A w \in W : Follows(wheel, w)
    PROVE  WheelInv' /\ (motor'.active => Phase(motor') \in Near(Phase(motor)))
<1>1. PICK w \in W :
         /\ motor' = w.motor /\ calib' = w.calib /\ memory' = w.memory /\ writing' = w.writing
         /\ slotPos' = w.slotPos /\ shown' = w.shown /\ fresh' = w.fresh
  BY DEF Become
<1> DEFINE v == wheel'
<1>2. /\ v.motor = w.motor /\ v.calib = w.calib /\ v.memory = w.memory
      /\ v.writing = w.writing /\ v.slotPos = w.slotPos /\ v.shown = w.shown
      /\ v.fresh = w.fresh
  BY <1>1, Zenon DEF wheel
<1>3. Good(w)
  BY DEF Follows
<1>4. v \in WState
  BY <1>1, <1>3, Zenon DEF Good, WState, wheel
<1> HIDE DEF v
<1>5. SlotsHere(v) = SlotsHere(w)
  BY <1>2, SameHere
<1>6. Good(v)
  BY <1>2, <1>3, <1>4, <1>5, Zenon DEF Good, Rested, Honest, Shown
<1>7. wheel.motor = motor
  BY DEF wheel
<1> QED  BY <1>1, <1>6, <1>7 DEF WheelInv, Follows, v

(* A tick of the motor.                                                    *)
LEMMA TickStep ==
    ASSUME WheelInv, Tick
    PROVE  WheelInv' /\ (motor'.active => Phase(motor') \in Near(Phase(motor)))
<1>1. motor.active /\ wheel.motor = motor
  BY DEF Tick, wheel
<1> DEFINE r == MotorTick(wheel.motor)
           v == [wheel EXCEPT !.motor = r.motor]
<1>2. /\ \A pin \in BOOLEAN : Follows(wheel, OnProgress(v, pin))
      /\ r.event = "moved" => Follows(wheel, v)
  BY <1>1, TickKeeps DEF WheelInv
<1>3. \/ Become({OnProgress(v, pin) : pin \in BOOLEAN})
      \/ r.event = "moved" /\ Become({v})
  BY <1>1, Zenon DEF Tick
<1> HIDE DEF r, v
<1> QED  BY <1>2, <1>3, Rebuilt

(* A request of a client.                                                  *)
LEMMA RequestStep ==
    ASSUME WheelInv, Request
    PROVE  WheelInv' /\ (motor'.active => Phase(motor') \in Near(Phase(motor)))
<1>1. /\ wheel \in WState /\ motor \in MotorState /\ motor.active \in BOOLEAN
      /\ shown \in ShownState /\ slotPos \in [Slots -> SlotTargets]
      /\ Rested(wheel) /\ Honest(wheel) /\ Shown(wheel)
      /\ wheel.motor = motor /\ wheel.calib = calib /\ wheel.shown = shown
      /\ wheel.memory = memory /\ wheel.slotPos = slotPos /\ wheel.fresh = fresh
  <2>1. /\ wheel.motor = motor /\ wheel.calib = calib /\ wheel.shown = shown
        /\ wheel.memory = memory /\ wheel.slotPos = slotPos /\ wheel.fresh = fresh
    BY DEF wheel
  <2>2. wheel \in WState /\ Rested(wheel) /\ Honest(wheel) /\ Shown(wheel)
    BY DEF WheelInv, Good
  <2>3. /\ wheel.motor \in MotorState /\ wheel.shown \in ShownState
        /\ wheel.slotPos \in [Slots -> SlotTargets]
    BY <2>2, Zenon DEF WState
  <2>4. wheel.motor.active \in BOOLEAN
    BY <2>3, Zenon DEF MotorState
  <2> QED  BY <2>1, <2>2, <2>3, <2>4
<1> SUFFICES \E W : Become(W) /\ \A w \in W : Follows(wheel, w)
  BY Rebuilt
<1>2. ASSUME NEW target \in RawTargets, RawPosChanged(target)
      PROVE  \E W : Become(W) /\ \A w \in W : Follows(wheel, w)
  <2> DEFINE s == [shown EXCEPT !.raw = target]
             v == [wheel EXCEPT !.shown = s]
             W == IF calib = Idle THEN GotoRawPos(v, target) ELSE {v}
  <2>1. target \in Positions /\ \A b \in Backlashes : target - b < Wrap
    BY WheelAssumption
  <2>2. s \in ShownState /\ target # shown.raw
    BY <1>1, <1>2, <2>1, Zenon DEF ShownState, RawPosChanged
  <2>3. Become(W)
    BY <1>1, <1>2, Zenon DEF RawPosChanged
  <2>4. (~motor.active /\ calib = Idle) => target # motor.cur
    BY <1>1, <2>2, Zenon DEF Shown
  <2> HIDE DEF s
  <2>5. ASSUME NEW u \in W PROVE Follows(wheel, u)
    BY <1>1, <2>1, <2>2, <2>4, AskedKeeps DEF WheelInv
  <2> QED  BY <2>3, <2>5
<1>3. ASSUME NEW k \in 0 .. NSlots, FilterSlotChanged(k)
      PROVE  \E W : Become(W) /\ \A w \in W : Follows(wheel, w)
  <2> DEFINE slot == IF k \in Slots THEN k ELSE 1
             at   == IF calib = Idle THEN slot ELSE k
             s    == [shown EXCEPT !.slot = at]
             v    == [wheel EXCEPT !.shown = s]
             target == slotPos[slot]
             W    == IF calib = Idle THEN GotoRawPos(v, target) ELSE {v}
  <2>1. slot \in Slots /\ at \in 0 .. NSlots
    BY SlotShown
  <2>2. Become(W)
    <3>1. CASE calib = Idle
      BY <1>1, <1>3, <3>1, Zenon DEF FilterSlotChanged
    <3>2. CASE calib # Idle
      BY <1>1, <1>3, <3>2, Zenon DEF FilterSlotChanged
    <3> QED  BY <3>1, <3>2
  <2>3. calib = Idle => at = slot
    OBVIOUS
  <2> HIDE DEF slot, at
  <2>4. target \in Positions /\ \A b \in Backlashes : target - b < Wrap
    <3>1. target \in SlotTargets
      BY <1>1, <2>1
    <3> QED  BY <3>1, WheelAssumption
  <2>5. /\ s \in ShownState /\ s.raw = shown.raw /\ s.rawBusy = shown.rawBusy
        /\ s.slot = at /\ s.slotBusy = shown.slotBusy /\ s.calibBusy = shown.calibBusy
    BY <1>1, <2>1, Zenon DEF ShownState
  <2> HIDE DEF s
  <2>6. (~motor.active /\ calib = Idle /\ target = motor.cur) => Shown(v)
    <3>1. /\ v.motor = motor /\ v.calib = calib /\ v.shown = s
          /\ v.slotPos = slotPos /\ v.fresh = fresh
      BY <1>1, <2>5, OtherShown DEF SameSlots
    <3> HIDE DEF v
    <3>2. SlotsHere(v) = SlotsHere(wheel)
      BY <1>1, <3>1, SameHere
    <3>3. target = motor.cur => slot \in SlotsHere(wheel)
      BY <1>1, <2>1 DEF SlotsHere
    <3> QED  BY <1>1, <2>3, <2>5, <3>1, <3>2, <3>3, Zenon DEF Shown
  <2> HIDE DEF target
  <2>7. ASSUME NEW u \in W PROVE Follows(wheel, u)
    BY <1>1, <2>4, <2>5, <2>6, AskedKeeps DEF WheelInv
  <2> QED  BY <2>2, <2>7
<1>4. ASSUME NEW k \in Slots, NEW p \in SlotTargets, FilterPositionsChanged(k, p)
      PROVE  \E W : Become(W) /\ \A w \in W : Follows(wheel, w)
  <2> DEFINE x == [slotPos EXCEPT ![k] = p]
             v == [wheel EXCEPT !.slotPos = x, !.fresh = FALSE]
  <2>1. x \in [Slots -> SlotTargets]
    BY <1>1
  <2>2. Become({v})
    BY <1>1, <1>4, Zenon DEF FilterPositionsChanged, wheel
  <2> HIDE DEF x
  <2>3. /\ v \in WState /\ v.motor = motor /\ v.calib = calib /\ v.memory = memory
        /\ v.shown = shown /\ v.fresh = FALSE
    BY <1>1, <2>1, Zenon DEF WState
  <2> HIDE DEF v
  <2>4. Good(v)
    BY <1>1, <2>3, Zenon DEF Good, Rested, Honest, Shown
  <2>5. Follows(wheel, v)
    BY <1>1, <2>3, <2>4, NearItself DEF Follows
  <2> QED  BY <2>2, <2>5
<1>5. ASSUME AbortChanged
      PROVE  \E W : Become(W) /\ \A w \in W : Follows(wheel, w)
  <2> DEFINE w == [wheel EXCEPT !.calib = Idle]
             v == IF IsMoving(motor) THEN MoveTo(w, motor.cur, motor.cur, FALSE) ELSE w
             u == OnProgress(v, FALSE)
  <2>1. Become({u})
    BY <1>5 DEF AbortChanged
  <2>2. w \in WState /\ w.motor = motor /\ w.memory = memory
    BY <1>1, OtherCalib
  <2> HIDE DEF w
  <2>3. Rested(w) /\ Honest(w)
    BY <1>1, <2>2 DEF Rested, Honest
  <2>4. Ready(v) /\ Phase(v.motor) = Phase(motor)
    <3>1. CASE IsMoving(motor)
      <4>1. ~AtRest(w.motor)
        BY <2>2, <3>1 DEF IsMoving
      <4>2. motor.cur \in Positions
        BY <1>1 DEF MotorState
      <4>3. LET z == MoveTo(w, motor.cur, motor.cur, FALSE)
            IN  Good(z) /\ Phase(z.motor) = Phase(motor)
        BY <2>2, <2>3, <4>1, <4>2, MoveToKeeps
      <4> QED  BY <3>1, <4>3 DEF Good, Ready, Honest
    <3>2. CASE ~IsMoving(motor)
      BY <2>2, <2>3, <3>2 DEF Ready, Honest
    <3> QED  BY <3>1, <3>2
  <2> HIDE DEF v
  <2>5. Good(u) /\ Phase(u.motor) = Phase(motor)
    BY <2>4, OnProgressKeeps
  <2> HIDE DEF u
  <2>6. Follows(wheel, u)
    BY <1>1, <2>5, NearItself DEF Follows
  <2> QED  BY <2>1, <2>6
<1>6. ASSUME CalibrateChanged
      PROVE  \E W : Become(W) /\ \A w \in W : Follows(wheel, w)
  <2> DEFINE W(x) == [wheel EXCEPT !.calib = x,
                                   !.motor = LoadPosition(@, CalibFrom + Phase(@), 0)]
             U(x, p, q) == OnProgress(MoveTo(W(x), CalibTo, CalibTo, p), q)
  <2>1. PICK waiting \in {Waiting0, Waiting1}, p \in BOOLEAN, q \in BOOLEAN :
           Become({U(waiting, p, q)})
    BY <1>6 DEF CalibrateChanged
  <2> DEFINE c == [wheel EXCEPT !.calib = waiting]
             m == LoadPosition(motor, CalibFrom + Phase(motor), 0)
             w == [c EXCEPT !.motor = m]
  <2>2. w = W(waiting)
    <3>1. c.motor = motor
      BY <1>1, OtherCalib
    <3> QED  BY <3>1 DEF wheel
  <2>3. c \in WState
    BY <1>1, OtherCalib
  <2> DEFINE h == Phase(motor)
  <2>4. h \in 0 .. Phases - 1
    BY <1>1, PlaceType
  <2> HIDE DEF h
  <2>5. /\ CalibFrom + h \in Positions /\ CalibFrom + h # CalibTo
        /\ CalibTo \in Positions /\ 0 \in 0 .. Phases - 1
        /\ CalibFrom \in Positions /\ CalibFrom % Phases = 0
        /\ CalibFrom \in Int /\ h \in Int
    BY <2>4, WheelAssumption, MotorAssumption, SMT DEF Positions
  <2>6. m \in MotorState /\ m.cur = CalibFrom + h /\ m.base = 0 /\ AtRest(m)
    BY <1>1, <2>5, LoadKeeps DEF h
  <2> HIDE DEF m, c, W
  <2>7. w \in WState /\ w.motor = m
    BY <2>3, <2>6, OtherMotor
  <2> HIDE DEF w
  <2>8. Phase(w.motor) = h
    <3>1. (CalibFrom + h) % Phases = h
      BY <2>4, <2>5, SamePhase
    <3>2. (CalibFrom + h) + 0 = CalibFrom + h
      BY <2>5, SMT
    <3> QED  BY <2>6, <2>7, <3>1, <3>2 DEF Phase
  <2> DEFINE v == MoveTo(w, CalibTo, CalibTo, p)
             u == OnProgress(v, q)
  <2>10. Good(v) /\ Phase(v.motor) = h
    <3>1. Rested(w)
      BY <2>6, <2>7 DEF Rested
    <3>2. CalibTo # w.motor.cur
      BY <2>5, <2>6, <2>7
    <3> QED  BY <2>5, <2>7, <2>8, <3>1, <3>2, MoveToKeeps
  <2> HIDE DEF v
  <2>11. Ready(v)
    BY <2>10 DEF Good, Ready, Honest
  <2>12. Good(u) /\ Phase(u.motor) = h
    BY <2>10, <2>11, OnProgressKeeps
  <2>13. Become({u})
    BY <2>1, <2>2 DEF v
  <2> HIDE DEF u
  <2>14. Follows(wheel, u)
    BY <1>1, <2>12, NearItself DEF Follows, h
  <2> QED  BY <2>13, <2>14
<1> QED  BY <1>2, <1>3, <1>4, <1>5, <1>6 DEF Request

(* A power cycle: the wheel is off.  Unless something was being written, it *)
(* is what the saved settings make of it, even if what they say is wrong.  *)
LEMMA PowerStep ==
    ASSUME WheelInv, PowerCycle
    PROVE  /\ WheelInv' /\ ~motor'.active
           /\ ~writing =>
                 /\ memory # {} => memory = Place(motor')
                 /\ memory = {} => calib' = Waiting1 \/ motor'.cur = Home
<1>1. memory \in Saved /\ slotPos \in [Slots -> SlotTargets]
  <2>1. wheel \in WState /\ wheel.memory = memory /\ wheel.slotPos = slotPos
    BY DEF WheelInv, Good, wheel
  <2> QED  BY <2>1, Zenon DEF WState
<1>2. PICK s \in Saved : Become(Boot(s, slotPos)) /\ (~writing => s = memory)
  <2>1. CASE Become(Boot(memory, slotPos))
    BY <1>1, <2>1
  <2>2. ASSUME NEW p \in Torn, NEW b \in 0 .. Phases - 1,
               writing, Become(Boot({[pos |-> p, base |-> b]}, slotPos))
        PROVE  \E s \in Saved : Become(Boot(s, slotPos)) /\ (~writing => s = memory)
    <3>1. p \in Positions
      BY MotorAssumption DEF Positions
    <3>2. {[pos |-> p, base |-> b]} \in Saved
      BY <3>1 DEF Saved
    <3> QED  BY <2>2, <3>2
  <2> QED  BY <2>1, <2>2 DEF PowerCycle
<1>3. \A u \in Boot(s, slotPos) :
         /\ Good(u) /\ ~u.motor.active
         /\ (s # {} => s = Place(u.motor))
         /\ (s = {} => u.calib = Waiting1 \/ u.motor.cur = Home)
  BY <1>1, BootKeeps
<1>4. WheelInv'
  <2>1. \A u \in Boot(s, slotPos) : Follows(wheel, u)
    BY <1>3 DEF Follows
  <2> QED  BY <1>2, <2>1, Rebuilt
<1>5. PICK u \in Boot(s, slotPos) : motor' = u.motor /\ calib' = u.calib
  BY <1>2 DEF Become
<1> QED  BY <1>2, <1>3, <1>4, <1>5

-----------------------------------------------------------------------------
(* Every step keeps the invariant, and the coils follow it.                *)
LEMMA WheelSteps ==
    ASSUME WheelInv, [Next]_vars
    PROVE  WheelInv' /\ (motor'.active => Phase(motor') \in Near(Phase(motor)))
<1>1. CASE Quiet \/ Written \/ UNCHANGED vars
  <2>1. /\ motor' = motor /\ calib' = calib /\ memory' = memory /\ slotPos' = slotPos
        /\ shown' = shown /\ fresh' = fresh
        /\ writing' = writing \/ writing' = FALSE
    BY <1>1 DEF Quiet, Written, vars
  <2> DEFINE v == wheel'
  <2>3. /\ v.motor = wheel.motor /\ v.calib = wheel.calib /\ v.memory = wheel.memory
        /\ v.slotPos = wheel.slotPos /\ v.shown = wheel.shown /\ v.fresh = wheel.fresh
    BY <2>1, Zenon DEF wheel
  <2>4. v \in WState
    <3>1. wheel \in WState
      BY DEF WheelInv, Good
    <3>2. /\ motor \in MotorState /\ calib \in {Idle, Waiting0, Waiting1}
          /\ memory \in Saved /\ writing \in BOOLEAN /\ slotPos \in [Slots -> SlotTargets]
          /\ shown \in ShownState /\ fresh \in BOOLEAN
      BY <3>1, Zenon DEF WState, wheel
    <3> QED  BY <2>1, <3>2, Zenon DEF WState, wheel
  <2> HIDE DEF v
  <2>5. SlotsHere(v) = SlotsHere(wheel)
    BY <2>3, SameHere
  <2>6. WheelInv'
    <3>1. Good(v)
      BY <2>3, <2>4, <2>5, Zenon DEF WheelInv, Good, Rested, Honest, Shown
    <3> QED  BY <3>1 DEF WheelInv, v
  <2>2. motor \in MotorState
    <3>1. wheel \in WState /\ wheel.motor = motor
      BY DEF WheelInv, Good, wheel
    <3> QED  BY <3>1, Zenon DEF WState
  <2> QED  BY <2>1, <2>2, <2>6, NearItself
<1> QED  BY <1>1, TickStep, RequestStep, PowerStep DEF Next

(* The first set-up.                                                       *)
LEMMA WheelStarts == Init => WheelInv
<1> SUFFICES ASSUME Init PROVE WheelInv
  OBVIOUS
<1>1. Home \in Positions /\ 0 \in 0 .. Phases - 1
  BY WheelAssumption, MotorAssumption, SMT
<1>2. {} \in Saved /\ {[pos |-> Home, base |-> 0]} \in Saved
  BY <1>1 DEF Saved
<1>3. PICK saved \in Saved, slots \in [Slots -> SlotTargets] :
         \E u \in Boot(saved, slots) :
            /\ motor = u.motor /\ calib = u.calib /\ memory = u.memory /\ writing = u.writing
            /\ slotPos = u.slotPos /\ shown = u.shown /\ fresh = u.fresh
  BY <1>2, Zenon DEF Init
<1>4. PICK w \in Boot(saved, slots) :
         /\ motor = w.motor /\ calib = w.calib /\ memory = w.memory /\ writing = w.writing
         /\ slotPos = w.slotPos /\ shown = w.shown /\ fresh = w.fresh
  BY <1>3
<1>5. Good(w)
  BY <1>4, BootKeeps
<1> DEFINE v == wheel
<1>6. /\ v.motor = w.motor /\ v.calib = w.calib /\ v.memory = w.memory
      /\ v.writing = w.writing /\ v.slotPos = w.slotPos /\ v.shown = w.shown
      /\ v.fresh = w.fresh
  BY <1>4, Zenon DEF wheel
<1>7. v \in WState
  BY <1>4, <1>5, Zenon DEF Good, WState, wheel
<1> HIDE DEF v
<1>9. SlotsHere(v) = SlotsHere(w)
  BY <1>6, SameHere
<1>10. Good(v)
  BY <1>5, <1>6, <1>7, <1>9, Zenon DEF Good, Rested, Honest, Shown
<1> QED  BY <1>10 DEF WheelInv, v

(* The invariant of the wheel holds in every state.                        *)
THEOREM WheelIsGood == Spec => []WheelInv
  BY WheelStarts, WheelSteps, PTL DEF Spec

(* A motor that is off has arrived.                                        *)
THEOREM WheelOffIsArrived == Spec => []OffIsArrived
<1>1. WheelInv => OffIsArrived
  BY DEF WheelInv, Good, Rested, OffIsArrived, wheel
<1> QED  BY <1>1, WheelIsGood, PTL

(* A position that is saved, or is being saved, is the one the wheel is at. *)
LEMMA WheelSavedIsReal == Spec => []SavedIsReal
<1>1. WheelInv => SavedIsReal
  BY DEF WheelInv, Good, Honest, Place, SavedIsReal, wheel
<1> QED  BY <1>1, WheelIsGood, PTL

(* A power cut, unless it comes in the middle of a save, leaves a wheel    *)
(* that is where it believes to be, or that looks for its home.            *)
THEOREM WheelNeverMisled == Spec => NeverMisled
<1> DEFINE Kept == ~writing /\ PowerCycle =>
                      \/ motor'.cur = motor.cur /\ motor'.base = motor.base
                      \/ memory = {} /\ (calib' = Waiting1 \/ motor'.cur = Home)
<1>1. ASSUME WheelInv, PowerCycle, ~writing PROVE Kept
  <2>1. /\ memory # {} => memory = Place(motor')
        /\ memory = {} => calib' = Waiting1 \/ motor'.cur = Home
    BY <1>1, PowerStep
  <2>2. memory # {} => memory = Place(motor)
    BY <1>1 DEF WheelInv, Good, Honest, wheel
  <2>3. Place(motor') = Place(motor) => motor'.cur = motor.cur /\ motor'.base = motor.base
    <3> DEFINE P(m) == [pos |-> m.cur, base |-> m.base]
    <3>1. Place(motor') = Place(motor) => P(motor') = P(motor)
      BY DEF Place
    <3>2. P(motor') = P(motor) => /\ P(motor').pos = P(motor).pos
                                  /\ P(motor').base = P(motor).base
      OBVIOUS
    <3> QED  BY <3>1, <3>2
  <2> QED  BY <2>1, <2>2, <2>3
<1>2. WheelInv /\ [Next]_vars => [Kept]_vars
  BY <1>1
<1> QED  BY <1>2, WheelIsGood, PTL DEF Spec, NeverMisled

(* A wheel that is off and not calibrating shows its true position, a slot *)
(* only where that slot was when the wheel came to rest, and BUSY only     *)
(* when it was at no slot.                                                 *)
THEOREM WheelShownIsReal == Spec => []ShownIsReal
<1>1. WheelInv => ShownIsReal
  <2>1. /\ wheel.motor = motor /\ wheel.calib = calib /\ wheel.shown = shown
        /\ wheel.fresh = fresh
    BY DEF wheel
  <2> QED  BY <2>1, Zenon DEF WheelInv, Good, Shown, ShownIsReal
<1> QED  BY <1>1, WheelIsGood, PTL

(* The coils move by one phase at most while the wheel is in motion.       *)
THEOREM WheelCoilsFollow == Spec => CoilsFollow
<1>1. WheelInv /\ [Next]_vars =>
         [motor'.active =>
             Phase(motor)' \in {(Phase(motor) + d) % Phases : d \in {-1, 0, 1}}]_vars
  <2> SUFFICES ASSUME WheelInv, [Next]_vars
               PROVE  motor'.active =>
                         Phase(motor)' \in {(Phase(motor) + d) % Phases : d \in {-1, 0, 1}}
    OBVIOUS
  <2>1. motor'.active => Phase(motor') \in Near(Phase(motor))
    BY WheelSteps
  <2>2. Phase(motor)' = Phase(motor')
    BY DEF Phase
  <2> QED  BY <2>1, <2>2 DEF Near
<1> QED  BY <1>1, WheelIsGood, PTL DEF Spec, CoilsFollow

-----------------------------------------------------------------------------
(***************************************************************************)
(* The focuser.  What it shows at rest is a matter of the steps one by one *)
(* (GoodFocuser is inductive); that the coils are where the rotor is rests *)
(* on the arithmetic of the motor, and on the base of the phases never     *)
(* leaving 0: it is not saved, and the saved position alone places the     *)
(* coils after a power cycle.                                              *)
(***************************************************************************)
FState == [motor : MotorState, saved : Positions, shown : Positions,
           busy : BOOLEAN, resetOn : BOOLEAN, invert : BOOLEAN, writing : BOOLEAN]

\* What is known of a focuser that is off.
Known(f) == ~f.motor.active => /\ AtRest(f.motor)
                               /\ f.saved = f.motor.cur
                               /\ f.shown = f.motor.cur /\ ~f.busy

\* The invariant of the record.
GoodFocuser(f) == f \in FState /\ f.motor.base = 0 /\ Known(f)

\* f and g are at the same place and show it with the same phase.
Alike(f, g) == /\ g.motor.cur = f.motor.cur /\ g.motor.base = f.motor.base
               /\ g.invert = f.invert

FocuserInv == GoodFocuser(focuser) /\ rotor \in 0 .. Phases - 1

-----------------------------------------------------------------------------
(* onProgress() leaves the motor alone, and makes what is shown and saved  *)
(* true of a motor that is off.                                            *)
LEMMA FocuserOnProgressKeeps ==
    ASSUME NEW f \in FState, f.motor.base = 0, ~f.motor.active => AtRest(f.motor)
    PROVE  /\ GoodFocuser(FocuserOnProgress(f)) /\ Alike(f, FocuserOnProgress(f))
           /\ FocuserOnProgress(f).motor = f.motor
           /\ FocuserOnProgress(f).resetOn = f.resetOn
<1> DEFINE s == IF f.motor.active THEN f.saved ELSE f.motor.cur
           x == f.writing \/ (~f.motor.active /\ f.saved # f.motor.cur)
           g == [f EXCEPT !.busy = f.motor.active, !.shown = f.motor.cur, !.saved = s,
                          !.writing = x]
<1>1. FocuserOnProgress(f) = g
  BY Zenon DEF FocuserOnProgress, FState
<1>2. /\ f.motor.cur \in Positions /\ f.motor.active \in BOOLEAN
      /\ s \in Positions /\ x \in BOOLEAN
  BY Zenon DEF FState, MotorState
<1>3. ~f.motor.active => s = f.motor.cur
  BY Zenon
<1> HIDE DEF s, x
<1>4. g \in FState
  BY <1>2, Zenon DEF FState
<1>5. /\ g.motor = f.motor /\ g.invert = f.invert /\ g.resetOn = f.resetOn
      /\ g.busy = f.motor.active /\ g.shown = f.motor.cur /\ g.saved = s
  BY Zenon DEF FState
<1> HIDE DEF g
<1>6. Known(g)
  BY <1>3, <1>5, Zenon DEF Known
<1> QED  BY <1>1, <1>4, <1>5, <1>6, Zenon DEF GoodFocuser, Alike

(* The focuser with another motor.                                         *)
LEMMA FocuserOtherMotor ==
    ASSUME NEW f \in FState, NEW m \in MotorState
    PROVE  LET g == [f EXCEPT !.motor = m]
           IN  /\ g \in FState /\ g.motor = m /\ g.invert = f.invert
               /\ g.resetOn = f.resetOn
  BY Zenon DEF FState

(* Sending the motor somewhere turns it on, at its place.                  *)
LEMMA FocuserMoveToKeeps ==
    ASSUME NEW f \in FState, NEW p \in Positions, f.motor.base = 0,
           ~f.motor.active => AtRest(f.motor) /\ p # f.motor.cur
    PROVE  /\ GoodFocuser(FocuserMoveTo(f, p)) /\ Alike(f, FocuserMoveTo(f, p))
           /\ FocuserMoveTo(f, p).resetOn = f.resetOn
<1> DEFINE s == SetTarget(f.motor, p, p)
           g == [f EXCEPT !.motor = s.motor]
<1>1. f.motor \in MotorState
  BY DEF FState
<1>2. /\ s.motor \in MotorState /\ s.progress \in BOOLEAN
      /\ s.motor.cur = f.motor.cur /\ s.motor.base = f.motor.base
      /\ f.motor.active => s.motor.active
      /\ ~s.progress => /\ s.motor.active = f.motor.active /\ p = f.motor.cur
      /\ (s.progress /\ AtRest(f.motor)) => s.motor.active
  BY <1>1, SetTargetKeeps
<1>3. s.motor.active
  BY <1>2
<1>4. g \in FState /\ g.motor = s.motor /\ g.invert = f.invert /\ g.resetOn = f.resetOn
  BY <1>2, FocuserOtherMotor
<1>5. FocuserMoveTo(f, p) = IF s.progress THEN FocuserOnProgress(g) ELSE g
  BY DEF FocuserMoveTo
<1> HIDE DEF s, g
<1>6. GoodFocuser(g) /\ Alike(f, g)
  BY <1>2, <1>3, <1>4 DEF GoodFocuser, Known, Alike
<1>7. CASE s.progress
  <2>1. GoodFocuser(FocuserOnProgress(g)) /\ Alike(g, FocuserOnProgress(g))
        /\ FocuserOnProgress(g).resetOn = g.resetOn
    BY <1>3, <1>4, <1>6, FocuserOnProgressKeeps DEF GoodFocuser
  <2>2. Alike(f, FocuserOnProgress(g))
    BY <1>6, <2>1 DEF Alike
  <2> QED  BY <1>4, <1>5, <1>7, <2>1, <2>2
<1>8. CASE ~s.progress
  BY <1>4, <1>5, <1>6, <1>8
<1> QED  BY <1>7, <1>8

(* Whether the EEPROM is being written is another matter.                  *)
LEMMA WrittenKeeps ==
    ASSUME NEW f, GoodFocuser(f), NEW x \in BOOLEAN
    PROVE  GoodFocuser([f EXCEPT !.writing = x]) /\ Alike(f, [f EXCEPT !.writing = x])
<1> DEFINE g == [f EXCEPT !.writing = x]
<1>1. /\ g \in FState /\ g.motor = f.motor /\ g.invert = f.invert
      /\ g.saved = f.saved /\ g.shown = f.shown /\ g.busy = f.busy
  BY Zenon DEF GoodFocuser, FState
<1> HIDE DEF g
<1>2. GoodFocuser(g) /\ Alike(f, g)
  BY <1>1, Zenon DEF GoodFocuser, Known, Alike
<1> QED  BY <1>2 DEF g

(* A motor that stops keeps its place.                                     *)
LEMMA StopKeeps ==
    ASSUME NEW f, GoodFocuser(f)
    PROVE  /\ GoodFocuser(StopMoving(f)) /\ Alike(f, StopMoving(f))
           /\ StopMoving(f).resetOn = f.resetOn
<1>1. f \in FState /\ f.motor.base = 0
  BY DEF GoodFocuser
<1>2. f.motor.cur \in Positions
  BY <1>1 DEF FState, MotorState
<1>3. CASE IsMoving(f.motor)
  <2>1. f.motor.active
    BY <1>3 DEF IsMoving
  <2>2. /\ GoodFocuser(FocuserMoveTo(f, f.motor.cur)) /\ Alike(f, FocuserMoveTo(f, f.motor.cur))
        /\ FocuserMoveTo(f, f.motor.cur).resetOn = f.resetOn
    BY <1>1, <1>2, <2>1, FocuserMoveToKeeps
  <2> QED  BY <1>3, <2>2 DEF StopMoving
<1>4. CASE ~IsMoving(f.motor)
  BY <1>4 DEF StopMoving, Alike
<1> QED  BY <1>3, <1>4

(* A reset renames the place and leaves the motor as much on as it was.    *)
LEMMA ResetKeeps ==
    ASSUME NEW f, GoodFocuser(f)
    PROVE  /\ Reset(f) \in FState /\ Reset(f).motor.base = 0
           /\ AtRest(Reset(f).motor) /\ Reset(f).resetOn = f.resetOn
<1> DEFINE m == [f.motor EXCEPT !.cur = Center, !.target = Center,
                                !.inter = Center, !.base = f.motor.base]
<1>1. f \in FState /\ f.motor \in MotorState /\ f.motor.base = 0
  BY DEF GoodFocuser, FState
<1>2. Reset(f) = [f EXCEPT !.motor = m]
  BY DEF Reset, LoadPosition
<1>3. Center \in Positions
  BY FocuserAssumption
<1>4. m \in MotorState
  BY <1>1, <1>3, Zenon DEF MotorState
<1>5. m.cur = Center /\ m.target = Center /\ m.inter = Center /\ m.base = f.motor.base
  BY <1>1, Zenon DEF MotorState
<1> HIDE DEF m
<1>6. AtRest(m)
  BY <1>5 DEF AtRest
<1> QED  BY <1>1, <1>2, <1>4, <1>5, <1>6, FocuserOtherMotor

(* The set-up.                                                             *)
LEMMA BootIsGood ==
    ASSUME NEW p \in Positions, NEW i \in BOOLEAN, NEW a \in 0 .. MaxAccel
    PROVE  /\ GoodFocuser(FocuserBoot(p, i, a)) /\ FocuserBoot(p, i, a).motor.cur = p
           /\ FocuserBoot(p, i, a).invert = i
<1> DEFINE m == [cur |-> p, target |-> p, inter |-> p,
                 base |-> 0, speed |-> 0, accel |-> a, active |-> FALSE]
           f == [motor |-> m, saved |-> p, shown |-> p,
                 busy |-> FALSE, resetOn |-> FALSE, invert |-> i, writing |-> FALSE]
<1>1. FocuserBoot(p, i, a) = f
  BY DEF FocuserBoot
<1>2. 0 \in 0 .. Phases - 1 /\ 0 \in -MaxAccel .. MaxAccel
  BY MotorAssumption, SMT
<1>3. m \in MotorState
  BY <1>2, Zenon DEF MotorState
<1>4. m.base = 0 /\ m.cur = p /\ m.target = p /\ m.inter = p /\ m.active = FALSE
  BY Zenon
<1> HIDE DEF m
<1>5. f \in FState
  BY <1>3, Zenon DEF FState
<1>6. f.motor = m /\ f.saved = p /\ f.shown = p /\ f.busy = FALSE /\ f.invert = i
  BY Zenon
<1> HIDE DEF f
<1>7. Known(f)
  BY <1>4, <1>6, Zenon DEF Known, AtRest
<1> QED  BY <1>1, <1>4, <1>5, <1>6, <1>7, Zenon DEF GoodFocuser

-----------------------------------------------------------------------------
(* The phase shown moves by at most one when the motor makes a step.       *)
LEMMA OutOfStep ==
    ASSUME NEW f \in FState, NEW g \in FState, NEW d \in {-1, 0, 1},
           g.motor.cur = (f.motor.cur + d) % Wrap,
           g.motor.base = f.motor.base, g.invert = f.invert
    PROVE  \E e \in {-1, 0, 1} : Out(g) = (Out(f) + e) % Phases
<1> DEFINE p == Phase(f.motor)
           q == Phase(g.motor)
<1>1. f.motor.cur \in Positions /\ f.motor.base \in Int
  <2>1. f.motor \in MotorState
    BY DEF FState
  <2>2. f.motor.cur \in Positions /\ f.motor.base \in 0 .. Phases - 1
    BY <2>1 DEF MotorState
  <2> QED  BY <2>2, SMT
<1>2. d \in Int
  BY SMT
<1>3. q = (p + d) % Phases
  BY <1>1, <1>2, PhaseOfStep DEF Phase
<1>4. p \in Int
  BY <1>1, MotorAssumption, SMT DEF Phase, Positions
<1>5. /\ Out(f) = IF f.invert THEN (Phases - p) % Phases ELSE p
      /\ Out(g) = IF f.invert THEN (Phases - q) % Phases ELSE q
  BY DEF Out
<1> HIDE DEF p, q
<1>6. CASE ~f.invert
  BY <1>3, <1>5, <1>6
<1>7. CASE f.invert
  <2>1. Out(g) = (((Phases - p) % Phases) - d) % Phases
    BY <1>2, <1>3, <1>4, <1>5, <1>7, PhaseInverted
  <2> DEFINE o == (Phases - p) % Phases
  <2>2. o \in Int /\ Out(f) = o
    BY <1>4, <1>5, <1>7, MotorAssumption, SMT
  <2> HIDE DEF o
  <2>3. o - d = o + (-d) /\ -d \in {-1, 0, 1}
    BY <2>2, SMT
  <2>4. Out(g) = (Out(f) + (-d)) % Phases
    BY <2>1, <2>2, <2>3 DEF o
  <2> QED  BY <2>3, <2>4
<1> QED  BY <1>6, <1>7

(* Two focusers that are alike show the same phase.                        *)
LEMMA OutAlike ==
    ASSUME NEW f, NEW g, Alike(f, g)
    PROVE  Out(g) = Out(f)
  BY DEF Alike, Out, Phase

(* What a phase is.                                                        *)
LEMMA OutType ==
    ASSUME NEW f \in FState
    PROVE  Out(f) \in 0 .. Phases - 1
<1>1. f.motor \in MotorState
  BY DEF FState
<1>2. f.motor.cur \in Positions /\ f.motor.base \in 0 .. Phases - 1
  BY <1>1 DEF MotorState
<1> DEFINE c == f.motor.cur
           b == f.motor.base
           p == (c + b) % Phases
<1>3. c \in Int /\ b \in Int
  BY <1>2, MotorAssumption, SMT DEF Positions
<1>4. Out(f) = IF f.invert THEN (Phases - p) % Phases ELSE p
  BY DEF Out, Phase
<1> HIDE DEF c, b
<1>5. p \in 0 .. Phases - 1
  BY <1>3, MotorAssumption, SMT
<1> HIDE DEF p
<1>6. (Phases - p) % Phases \in 0 .. Phases - 1
  BY <1>5, MotorAssumption, SMT
<1> QED  BY <1>4, <1>5, <1>6

-----------------------------------------------------------------------------
(* What a tick does: the focuser stays good; one that is turned off keeps  *)
(* its place and the rotor its own, and else the rotor follows.            *)
LEMMA FocuserTickKeeps ==
    ASSUME FocuserInv, FocuserTick
    PROVE  /\ FocuserInv'
           /\ \/ Alike(focuser, focuser') /\ rotor' = rotor
              \/ /\ rotor' = Out(focuser')
                 /\ \E e \in {-1, 0, 1} : rotor' = (Out(focuser) + e) % Phases
<1> DEFINE r == MotorTick(focuser.motor)
           f == [focuser EXCEPT !.motor = r.motor]
<1>1. /\ focuser \in FState /\ focuser.motor \in MotorState
      /\ focuser.motor.base = 0 /\ focuser.motor.active
      /\ rotor \in 0 .. Phases - 1
  BY DEF FocuserInv, GoodFocuser, FState, FocuserTick
<1>2. /\ r.motor \in MotorState /\ r.motor.base = focuser.motor.base
      /\ r.event = "stopped" => /\ ~r.motor.active /\ AtRest(r.motor)
                                /\ r.motor.cur = focuser.motor.cur
      /\ r.event # "stopped" =>
            /\ r.motor.active
            /\ \E d \in {-1, 0, 1} : r.motor.cur = (focuser.motor.cur + d) % Wrap
  BY <1>1, TickSteps
<1>3. /\ f \in FState /\ f.motor = r.motor /\ f.invert = focuser.invert
  BY <1>1, <1>2, FocuserOtherMotor
<1>4. /\ \/ focuser' = FocuserOnProgress(f)
         \/ r.event = "moved" /\ focuser' = f
      /\ rotor' = IF r.event = "stopped" THEN rotor ELSE Out(f)
  BY DEF FocuserTick
<1> HIDE DEF r, f
<1>5. GoodFocuser(FocuserOnProgress(f)) /\ Alike(f, FocuserOnProgress(f))
  BY <1>1, <1>2, <1>3, FocuserOnProgressKeeps
<1>6. GoodFocuser(focuser') /\ Alike(f, focuser')
  <2>1. CASE focuser' = FocuserOnProgress(f)
    BY <1>5, <2>1
  <2>2. CASE r.event = "moved" /\ focuser' = f
    BY <1>1, <1>2, <1>3, <2>2 DEF GoodFocuser, Known, Alike
  <2> QED  BY <1>4, <2>1, <2>2
<1>7. rotor' \in 0 .. Phases - 1
  BY <1>1, <1>3, <1>4, OutType
<1>8. Out(focuser') = Out(f)
  BY <1>6, OutAlike
<1>9. CASE r.event = "stopped"
  <2>1. Alike(focuser, focuser')
    BY <1>2, <1>3, <1>6, <1>9 DEF Alike
  <2> QED  BY <1>4, <1>6, <1>7, <1>9, <2>1 DEF FocuserInv
<1>10. CASE r.event # "stopped"
  <2>1. PICK d \in {-1, 0, 1} : f.motor.cur = (focuser.motor.cur + d) % Wrap
    BY <1>2, <1>3, <1>10
  <2>2. \E e \in {-1, 0, 1} : Out(f) = (Out(focuser) + e) % Phases
    BY <1>1, <1>2, <1>3, <2>1, OutOfStep
  <2>3. rotor' = Out(f)
    BY <1>4, <1>10
  <2> QED  BY <1>6, <1>7, <1>8, <2>2, <2>3 DEF FocuserInv
<1> QED  BY <1>9, <1>10

(* Every other step leaves the rotor alone, and the place with it, except  *)
(* for those that PlaceKept names.                                         *)
LEMMA OthersKeep ==
    ASSUME FocuserInv, [FocuserNext]_focusVars, ~FocuserTick
    PROVE  /\ FocuserInv' /\ rotor' = rotor
           /\ \/ Alike(focuser, focuser')
              \/ focuser'.resetOn /\ ~focuser.resetOn
              \/ focuser'.invert # focuser.invert
              \/ (focuser.motor.active \/ focuser.writing) /\ FocuserPowerCycle
<1>1. /\ focuser \in FState /\ focuser.motor \in MotorState
      /\ focuser.motor.base = 0 /\ Known(focuser) /\ GoodFocuser(focuser)
      /\ rotor \in 0 .. Phases - 1
  BY DEF FocuserInv, GoodFocuser, FState
<1>2. CASE FocuserAbortChanged
  BY <1>1, <1>2, StopKeeps DEF FocuserAbortChanged, FocuserInv
<1>3. CASE ResetPositionChanged
  <2>1. CASE focuser.resetOn
    <3> DEFINE g == [focuser EXCEPT !.resetOn = FALSE]
    <3>1. focuser' = g
      BY <1>3, <2>1 DEF ResetPositionChanged
    <3>2. /\ g \in FState /\ g.motor = focuser.motor /\ g.invert = focuser.invert
          /\ g.saved = focuser.saved /\ g.shown = focuser.shown /\ g.busy = focuser.busy
      BY <1>1, Zenon DEF FState
    <3> HIDE DEF g
    <3>3. GoodFocuser(g) /\ Alike(focuser, g)
      BY <1>1, <3>2, Zenon DEF GoodFocuser, Known, Alike
    <3> QED  BY <1>1, <1>3, <3>1, <3>3 DEF ResetPositionChanged, FocuserInv
  <2>2. CASE ~focuser.resetOn
    <3> DEFINE g == [focuser EXCEPT !.resetOn = TRUE]
    <3>1. focuser' = FocuserOnProgress(Reset(g))
      BY <1>3, <2>2 DEF ResetPositionChanged
    <3>2. /\ g \in FState /\ g.motor = focuser.motor /\ g.resetOn
          /\ g.saved = focuser.saved /\ g.shown = focuser.shown /\ g.busy = focuser.busy
      BY <1>1, Zenon DEF FState
    <3> HIDE DEF g
    <3>3. GoodFocuser(g)
      BY <1>1, <3>2, Zenon DEF GoodFocuser, Known
    <3>4. /\ Reset(g) \in FState /\ Reset(g).motor.base = 0
          /\ AtRest(Reset(g).motor) /\ Reset(g).resetOn
      BY <3>2, <3>3, ResetKeeps
    <3>5. GoodFocuser(focuser') /\ focuser'.resetOn
      BY <3>1, <3>4, FocuserOnProgressKeeps
    <3> QED  BY <1>1, <1>3, <2>2, <3>5 DEF ResetPositionChanged, FocuserInv
  <2> QED  BY <2>1, <2>2
<1>4. CASE FocuserPowerCycle
  <2>1. /\ focuser.saved \in Positions /\ focuser.invert \in BOOLEAN
        /\ focuser.motor.accel \in 0 .. MaxAccel
    BY <1>1 DEF FState, MotorState
  <2>2. CASE focuser' = FocuserBoot(focuser.saved, focuser.invert, focuser.motor.accel)
    <3>1. /\ GoodFocuser(focuser') /\ focuser'.motor.cur = focuser.saved
          /\ focuser'.invert = focuser.invert
      BY <2>1, <2>2, BootIsGood
    <3>2. ~focuser.motor.active => Alike(focuser, focuser')
      BY <1>1, <3>1 DEF Known, Alike, GoodFocuser
    <3> QED  BY <1>1, <1>4, <3>1, <3>2 DEF FocuserInv, FocuserPowerCycle
  <2>3. ASSUME NEW p \in Torn, NEW i \in BOOLEAN, NEW a \in 0 .. MaxAccel,
               focuser.writing, focuser' = FocuserBoot(p, i, a)
        PROVE  GoodFocuser(focuser') /\ focuser.writing
    <3>1. p \in Positions
      BY MotorAssumption DEF Positions
    <3> QED  BY <2>3, <3>1, BootIsGood
  <2> QED  BY <1>1, <1>4, <2>2, <2>3 DEF FocuserInv, FocuserPowerCycle
<1>5. ASSUME NEW p \in FocusTargets, AbsPositionChanged(p)
      PROVE  GoodFocuser(focuser') /\ Alike(focuser, focuser') /\ rotor' = rotor
  <2> DEFINE g == [focuser EXCEPT !.shown = p]
  <2>1. p \in Positions
    BY FocuserAssumption
  <2>2. p # focuser.shown /\ focuser' = FocuserMoveTo(g, p) /\ rotor' = rotor
    BY <1>5 DEF AbsPositionChanged
  <2>3. g \in FState /\ g.motor = focuser.motor /\ g.invert = focuser.invert
    BY <1>1, <2>1, Zenon DEF FState
  <2> HIDE DEF g
  <2>4. ~g.motor.active => AtRest(g.motor) /\ p # g.motor.cur
    BY <1>1, <2>2, <2>3 DEF Known
  <2>5. GoodFocuser(focuser') /\ Alike(g, focuser')
    BY <1>1, <2>1, <2>2, <2>3, <2>4, FocuserMoveToKeeps
  <2> QED  BY <2>2, <2>3, <2>5 DEF Alike
<1>6. ASSUME NEW i \in BOOLEAN, NEW a \in 0 .. MaxAccel, MotorSettingsChanged(i, a)
      PROVE  /\ GoodFocuser(focuser') /\ rotor' = rotor
             /\ Alike(focuser, focuser') \/ focuser'.invert # focuser.invert
  <2> DEFINE m == [focuser.motor EXCEPT !.accel = a]
             g == [focuser EXCEPT !.invert = i, !.motor = m]
             h == StopMoving(g)
             f == [h EXCEPT !.writing = TRUE]
  <2>0. [focuser EXCEPT !.invert = i, !.motor.accel = a] = g
    BY Zenon
  <2>1. focuser' = f /\ rotor' = rotor
    BY <1>6, <2>0, Zenon DEF MotorSettingsChanged
  <2>2. /\ m \in MotorState /\ m.cur = focuser.motor.cur /\ m.base = focuser.motor.base
        /\ m.target = focuser.motor.target /\ m.inter = focuser.motor.inter
        /\ m.active = focuser.motor.active
    BY <1>1, Zenon DEF MotorState
  <2> HIDE DEF m
  <2>3. /\ g \in FState /\ g.motor = m /\ g.invert = i
        /\ g.saved = focuser.saved /\ g.shown = focuser.shown /\ g.busy = focuser.busy
    BY <1>1, <2>2, Zenon DEF FState
  <2> HIDE DEF g
  <2>4. GoodFocuser(g)
    BY <1>1, <2>2, <2>3, Zenon DEF GoodFocuser, Known, AtRest
  <2>5. GoodFocuser(h) /\ Alike(g, h)
    BY <2>4, StopKeeps
  <2> HIDE DEF h
  <2>6. GoodFocuser(f) /\ Alike(h, f)
    BY <2>5, WrittenKeeps
  <2> QED  BY <2>1, <2>2, <2>3, <2>5, <2>6 DEF Alike
<1>7. CASE UNCHANGED focusVars
  BY <1>1, <1>7 DEF focusVars, FocuserInv, Alike
<1>11. CASE FocuserWritten
  <2>1. focuser' = [focuser EXCEPT !.writing = FALSE] /\ rotor' = rotor
    BY <1>11 DEF FocuserWritten
  <2> QED  BY <1>1, <2>1, WrittenKeeps DEF FocuserInv
<1>8. \/ FocuserAbortChanged \/ ResetPositionChanged \/ FocuserPowerCycle \/ FocuserWritten
      \/ \E p \in FocusTargets : AbsPositionChanged(p)
      \/ \E i \in BOOLEAN, a \in 0 .. MaxAccel : MotorSettingsChanged(i, a)
      \/ UNCHANGED focusVars
  BY DEF FocuserNext, FocuserHandler
<1>9. CASE \E p \in FocusTargets : AbsPositionChanged(p)
  BY <1>1, <1>5, <1>9 DEF FocuserInv
<1>10. CASE \E i \in BOOLEAN, a \in 0 .. MaxAccel : MotorSettingsChanged(i, a)
  BY <1>1, <1>6, <1>10 DEF FocuserInv
<1> QED  BY <1>2, <1>3, <1>4, <1>7, <1>8, <1>9, <1>10, <1>11

-----------------------------------------------------------------------------
(* The invariant of the focuser: its type, the base of the phases that is  *)
(* never saved because it is always 0, and what is known at rest.          *)
LEMMA FocuserStarts == FocuserInit => FocuserInv
<1> SUFFICES ASSUME FocuserInit PROVE FocuserInv
  OBVIOUS
<1>1. Center \in Positions /\ FALSE \in BOOLEAN /\ FocusAccel \in 0 .. MaxAccel
  BY FocuserAssumption
<1> QED  BY <1>1, BootIsGood DEF FocuserInit, FocuserInv

LEMMA FocuserSteps == FocuserInv /\ [FocuserNext]_focusVars => FocuserInv'
  BY FocuserTickKeeps, OthersKeep

(* The invariant of the focuser holds in every state.                      *)
THEOREM FocuserIsGood == FocuserSpec => []FocuserInv
  BY FocuserStarts, FocuserSteps, PTL DEF FocuserSpec

(* Every variable has its type.                                            *)
THEOREM FocuserTypes == FocuserSpec => []FocuserTypeOK
<1>1. FocuserInv => FocuserTypeOK
  BY DEF FocuserInv, GoodFocuser, FState, FocuserTypeOK
<1> QED  BY <1>1, FocuserIsGood, PTL

(* A focuser that is off has arrived, shows where it is and has saved it.  *)
THEOREM FocuserRestIsKnown == FocuserSpec => []RestIsKnown
<1>1. FocuserInv => RestIsKnown
  BY DEF FocuserInv, GoodFocuser, Known, RestIsKnown
<1> QED  BY <1>1, FocuserIsGood, PTL

(* The rotor and the position only part in a reset, a change of inversion  *)
(* or a power cut in motion or in a save, and no step is longer than a     *)
(* phase.                                                                  *)
THEOREM FocuserPlaceKept == FocuserSpec => PlaceKept
<1> DEFINE Kept ==
      Aligned =>
          /\ rotor' \in {(rotor + d) % Phases : d \in {-1, 0, 1}}
          /\ \/ Aligned'
             \/ focuser'.resetOn /\ ~focuser.resetOn
             \/ focuser'.invert # focuser.invert
             \/ (focuser.motor.active \/ focuser.writing) /\ FocuserPowerCycle
<1>1. ASSUME FocuserInv, [FocuserNext]_focusVars PROVE Kept
  <2> SUFFICES ASSUME Aligned
               PROVE  /\ rotor' \in {(rotor + d) % Phases : d \in {-1, 0, 1}}
                      /\ \/ Aligned'
                         \/ focuser'.resetOn /\ ~focuser.resetOn
                         \/ focuser'.invert # focuser.invert
                         \/ (focuser.motor.active \/ focuser.writing) /\ FocuserPowerCycle
    OBVIOUS
  <2>1. rotor = Out(focuser)
    BY DEF Aligned
  <2>2. rotor' = rotor => rotor' \in {(rotor + d) % Phases : d \in {-1, 0, 1}}
    <3>1. rotor \in 0 .. Phases - 1
      BY <1>1 DEF FocuserInv
    <3>2. (rotor + 0) % Phases = rotor
      BY <3>1, MotorAssumption, SMT
    <3>3. 0 \in {-1, 0, 1}
      OBVIOUS
    <3> QED  BY <3>2, <3>3
  <2>3. Alike(focuser, focuser') /\ rotor' = rotor => Aligned'
    <3> SUFFICES ASSUME Alike(focuser, focuser'), rotor' = rotor PROVE Aligned'
      OBVIOUS
    <3>1. Out(focuser') = Out(focuser)
      BY OutAlike
    <3> QED  BY <2>1, <3>1 DEF Aligned
  <2>4. CASE FocuserTick
    <3>1. \/ Alike(focuser, focuser') /\ rotor' = rotor
          \/ /\ rotor' = Out(focuser')
             /\ \E e \in {-1, 0, 1} : rotor' = (Out(focuser) + e) % Phases
      BY <1>1, <2>4, FocuserTickKeeps
    <3>2. rotor' = Out(focuser') => Aligned'
      BY DEF Aligned
    <3> QED  BY <2>1, <2>2, <2>3, <3>1, <3>2
  <2>5. CASE ~FocuserTick
    BY <1>1, <2>2, <2>3, <2>5, OthersKeep
  <2> QED  BY <2>4, <2>5
<1>2. FocuserInv /\ [FocuserNext]_focusVars => [Kept]_focusVars
  BY <1>1
<1> QED  BY <1>2, FocuserIsGood, PTL DEF FocuserSpec, PlaceKept
-----------------------------------------------------------------------------
(* The two together: one step is that of the wheel, or of the focuser.     *)
MotorsInv == WheelInv /\ quiet \in BOOLEAN /\ FocuserInv

(* Every position, phase, slot and flag is of its type, and no speed       *)
(* exceeds what the acceleration can be set to, whatever it is set to and  *)
(* whenever.                                                               *)
THEOREM MotorsTypes == MotorsSpec => []MotorsTypeOK
<1>1. MotorsInit => MotorsInv
  <2>1. Init => WheelInv
    BY WheelStarts
  <2>2. FocuserInit => FocuserInv
    BY FocuserStarts
  <2>3. Init => quiet \in BOOLEAN
    BY Zenon DEF Init
  <2> QED  BY <2>1, <2>2, <2>3 DEF MotorsInit, MotorsInv
<1>2. MotorsInv /\ [MotorsNext]_motorsVars => MotorsInv'
  <2> SUFFICES ASSUME MotorsInv, [MotorsNext]_motorsVars PROVE MotorsInv'
    OBVIOUS
  <2>1. (UNCHANGED vars) => WheelInv' /\ quiet' \in BOOLEAN
    BY DEF MotorsInv, WheelInv, wheel, vars
  <2>2. (UNCHANGED <<focuser, rotor>>) => FocuserInv'
    BY DEF MotorsInv, FocuserInv
  <2>3. CASE Wheel
    <3>1. WheelInv'
      BY <2>3, WheelSteps DEF Wheel, MotorsInv
    <3>2. quiet' \in BOOLEAN
      BY <2>3, Zenon DEF Wheel, MotorsInv, Next, Tick, Request, PowerCycle, Quiet, Become,
                         Written, RawPosChanged, FilterSlotChanged, FilterPositionsChanged,
                         AbortChanged, CalibrateChanged
    <3> QED  BY <2>2, <2>3, <3>1, <3>2 DEF Wheel, MotorsInv
  <2>4. CASE Focus
    <3>1. FocuserInv'
      BY <2>4, FocuserSteps DEF Focus, MotorsInv
    <3> QED  BY <2>1, <2>4, <3>1 DEF Focus, MotorsInv
  <2> QED  BY <2>1, <2>2, <2>3, <2>4 DEF MotorsNext, motorsVars, MotorsInv
<1>3. MotorsInv => MotorsTypeOK
  <2> SUFFICES ASSUME MotorsInv PROVE MotorsTypeOK
    OBVIOUS
  <2>1. FocuserTypeOK
    BY DEF MotorsInv, FocuserInv, GoodFocuser, FState, FocuserTypeOK
  <2>2. wheel \in WState /\ wheel.motor = motor /\ wheel.calib = calib
        /\ wheel.memory = memory /\ wheel.shown = shown /\ wheel.writing = writing
        /\ wheel.slotPos = slotPos /\ wheel.fresh = fresh
    BY DEF MotorsInv, WheelInv, Good, wheel
  <2>4. [Slots -> SlotTargets] \subseteq [Slots -> Positions]
    <3>1. SlotTargets \subseteq Positions
      BY WheelAssumption
    <3> QED  BY <3>1
  <2>5. slotPos \in [Slots -> Positions]
    BY <2>2, <2>4, Zenon DEF WState
  <2>3. TypeOK
    BY <2>2, <2>5, Zenon DEF MotorsInv, TypeOK, WState, ShownState
  <2> QED  BY <2>1, <2>3 DEF MotorsTypeOK
<1> QED  BY <1>1, <1>2, <1>3, PTL DEF MotorsSpec
=============================================================================
