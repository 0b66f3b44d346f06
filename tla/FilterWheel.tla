------------------------------ MODULE FilterWheel ------------------------------
(***************************************************************************)
(* The filter wheel: a motor, a hall sensor that finds the origin during a *)
(* calibration, the vectors it shows to the clients, and the position that *)
(* it saves in the EEPROM, so that a power cut does not lose it.  A wheel  *)
(* that moves has no saved position.                                       *)
(*                                                                         *)
(* The sensor may read anything at any time.  The EEPROM is written byte   *)
(* by byte: the handler that saves goes on while it is written, and what a *)
(* power cut then leaves is a mix of two positions.                        *)
(***************************************************************************)
EXTENDS Motor

CONSTANTS NSlots,         \* FILTER_SLOT_COUNT
          SlotTargets,    \* positions the clients give to the slots
          RawTargets,     \* positions the clients ask for
          Backlashes,     \* values of FILTER_MOTOR_BACKLASH
          CtorPosition,   \* 50000: the position before anything is known
          CalibFrom,      \* 1000000: a calibration starts from here...
          CalibTo,        \* 1100000: ... and moves to here
          Home,           \* 100000: the position of the sensor
          WheelAccel      \* 30: maxAccelStep

ASSUME WheelAssumption ==
    /\ {CtorPosition, CalibTo, Home} \cup RawTargets \cup SlotTargets \subseteq Positions
    /\ NSlots \in Nat \ {0} /\ WheelAccel \in 0 .. MaxAccel
    /\ CalibFrom \in Positions /\ CalibFrom + Phases < Wrap
    /\ CalibTo \notin CalibFrom .. CalibFrom + Phases - 1
    /\ CalibFrom % Phases = 0 /\ Home % Phases = 0
    /\ Backlashes \subseteq Int
    /\ \A b \in Backlashes : \A p \in RawTargets \cup SlotTargets : p - b < Wrap

Slots == 1 .. NSlots
\* The saved position: an empty set stands for POS_INVALID.
Saved == {{}} \cup {{[pos |-> p, base |-> b]} : p \in Positions, b \in 0 .. Phases - 1}

Idle     == 0   \* CALIBRATION_IDLE
Waiting0 == 1   \* CALIBRATION_WAITING_0
Waiting1 == 2   \* CALIBRATION_WAITING_1

VARIABLES
    motor,    \* the motor, as in Motor
    calib,    \* currentCalibration
    memory,   \* memory->settings, and the EEPROM once it is written
    writing,  \* the EEPROM is being written
    slotPos,  \* filterPositions: the position of each slot
    shown,    \* rawPos (raw) and filterSlot (slot), and the BUSY flags of
              \* rawPosVec, filterSlotVec and calibrateVec
    fresh,    \* history: no slot was given a position since onProgress
    quiet     \* no request and no power cut will come any more

vars == <<motor, calib, memory, writing, slotPos, shown, fresh, quiet>>
wheel == [motor |-> motor, calib |-> calib, memory |-> memory, writing |-> writing,
          slotPos |-> slotPos, shown |-> shown, fresh |-> fresh]

TypeOK ==
    /\ motor \in MotorState
    /\ calib \in {Idle, Waiting0, Waiting1}
    /\ memory \in Saved /\ writing \in BOOLEAN
    /\ slotPos \in [Slots -> Positions] /\ fresh \in BOOLEAN
    /\ shown \in [raw : Positions, slot : 0 .. NSlots, rawBusy : BOOLEAN,
                  slotBusy : BOOLEAN, calibBusy : BOOLEAN]
    /\ quiet \in BOOLEAN

-----------------------------------------------------------------------------
\* saveMemoryPos: nothing is written when the settings do not change.
SaveAs(w, settings) ==
    [w EXCEPT !.memory = settings, !.writing = @ \/ w.memory # settings]

Save(w) == SaveAs(w, {[pos |-> w.motor.cur, base |-> w.motor.base]})

SlotsHere(w) == {k \in Slots : w.slotPos[k] = w.motor.cur}

\* Variant: a moving wheel keeps its saved position.
ShowMotor_KeepSaved(w) ==
    [w EXCEPT !.shown.rawBusy = w.motor.active, !.shown.raw = w.motor.cur, !.fresh = TRUE]

\* The first part of onProgress: what is shown of the motor, and the saved
\* position of a wheel that moves is dropped.
ShowMotor(w) ==
    LET v == [w EXCEPT !.shown.rawBusy = w.motor.active, !.shown.raw = w.motor.cur,
                       !.fresh = TRUE]
    IN  IF w.motor.active THEN SaveAs(v, {}) ELSE v

\* Variant: the slot is not looked for, only its BUSY flag cleared.
ShowSlot_KeepSlot(w) ==
    IF w.motor.active THEN [w EXCEPT !.shown.calibBusy = FALSE, !.shown.slotBusy = TRUE]
    ELSE Save([w EXCEPT !.shown.calibBusy = FALSE, !.shown.slotBusy = FALSE])

\* The end of onProgress when no calibration is going on: the first slot at
\* this position is shown, or BUSY if there is none.
ShowSlot(w) ==
    LET at == SlotsHere(w)
        v  == [w EXCEPT !.shown.calibBusy = FALSE,
                        !.shown.slotBusy = w.motor.active \/ at = {}]
    IN  IF w.motor.active THEN v
        ELSE IF at = {} THEN Save(v)
        ELSE Save([v EXCEPT !.shown.slot = CHOOSE k \in at : \A j \in at : k <= j])

\* Variant: the coils lose their place when the wheel is at home.
Calibrated_NoBase(w) ==
    LET m == SetTarget(LoadPosition(w.motor, Home, 0), Home, Home).motor
    IN  ShowSlot(ShowMotor([w EXCEPT !.motor = m, !.calib = Idle]))

\* The sensor was found: the wheel is at home, and stops there.
Calibrated(w) ==
    LET m == SetTarget(LoadPosition(w.motor, Home, Phase(w.motor)), Home, Home).motor
    IN  ShowSlot(ShowMotor(Save([w EXCEPT !.motor = m, !.calib = Idle])))

ShowCalibration(w) == [w EXCEPT !.shown.calibBusy = TRUE, !.shown.slotBusy = TRUE]

\* onProgress(), with the level of the sensor.
OnProgress(w, pin) ==
    LET v == ShowMotor(w)
    IN  CASE v.calib = Idle              -> ShowSlot(v)
          [] v.calib = Waiting1 /\ pin   -> Calibrated(v)
          [] v.calib = Waiting0 /\ ~pin  -> ShowCalibration([v EXCEPT !.calib = Waiting1])
          [] OTHER                       -> ShowCalibration(v)

\* The wheel after a handler is one of W.
Become(W) ==
    /\ \E w \in W : /\ motor' = w.motor /\ calib' = w.calib
                   /\ memory' = w.memory /\ writing' = w.writing
                   /\ slotPos' = w.slotPos
                   /\ shown' = w.shown /\ fresh' = w.fresh
    /\ UNCHANGED quiet

\* Motor::setTargetPosition on the wheel w, called by one of its handlers.
MoveTo(w, new, inter, pin) ==
    LET s == SetTarget(w.motor, new, inter)
        v == [w EXCEPT !.motor = s.motor]
    IN  IF s.progress THEN OnProgress(v, pin) ELSE v

-----------------------------------------------------------------------------
\* The wheel as the constructor makes it: onProgress finds no slot, since
\* their positions are not loaded yet.
New(saved, slots) ==
    [motor  |-> [cur |-> CtorPosition, target |-> CtorPosition, inter |-> CtorPosition,
                 base |-> 0, speed |-> 0, accel |-> WheelAccel, active |-> FALSE],
     calib  |-> Idle,
     memory |-> saved, writing |-> FALSE,
     slotPos |-> slots, fresh |-> TRUE,
     shown  |-> [raw |-> CtorPosition, slot |-> 0, rawBusy |-> FALSE,
                 slotBusy |-> TRUE, calibBusy |-> FALSE]]

\* loadInitialSettings, called by EepromStored::init before the main loop:
\* a wheel that was moving does not know where it is.
Loaded(w) ==
    IF w.memory = {} THEN [w EXCEPT !.calib = Waiting1]
    ELSE LET s == CHOOSE x \in w.memory : TRUE
         IN  [w EXCEPT !.motor = LoadPosition(@, s.pos, s.base)]

Boot(saved, slots) == {OnProgress(Loaded(New(saved, slots)), pin) : pin \in BOOLEAN}

\* A new EEPROM, or one that was saved after a move.
Init ==
    /\ \E saved \in {{}, {[pos |-> Home, base |-> 0]}}, slots \in [Slots -> SlotTargets] :
          \E w \in Boot(saved, slots) :
             /\ motor = w.motor /\ calib = w.calib
             /\ memory = w.memory /\ writing = w.writing /\ slotPos = w.slotPos
             /\ shown = w.shown /\ fresh = w.fresh
    /\ quiet = FALSE

\* The last byte of the settings is written, and the handler ends.
Written ==
    /\ writing /\ writing' = FALSE
    /\ UNCHANGED <<motor, calib, memory, slotPos, shown, fresh, quiet>>

\* The power is cut.  Settings that were being written are then a mix of old
\* and new bytes.
PowerCycle ==
    /\ ~quiet
    /\ \/ Become(Boot(memory, slotPos))
       \/ /\ writing
          /\ \E p \in Torn, b \in 0 .. Phases - 1 :
                Become(Boot({[pos |-> p, base |-> b]}, slotPos))

\* Motor::tick, called by the scheduler when nextTick is due.
Tick ==
    /\ motor.active
    /\ \E r \in {MotorTick(motor)} :
          \E w \in {[wheel EXCEPT !.motor = r.motor]} :
             \/ Become({OnProgress(w, pin) : pin \in BOOLEAN})
             \/ r.event = "moved" /\ Become({w})

\* gotoRawPos(target): the backlash is taken up on one side only.
GotoRawPos(w, target) ==
    LET current == Minus(w.motor.cur, 0)
        via(backlash) == IF \/ backlash > 0 /\ target < current
                            \/ backlash < 0 /\ target > current
                         THEN target - backlash ELSE target
    IN  {MoveTo(w, target, IF via(backlash) < 0 THEN 0 ELSE via(backlash), pin) :
            backlash \in Backlashes, pin \in BOOLEAN}

\* A request for a raw position.  The value is written before the callback
\* decides; a request for the value shown has no effect.
RawPosChanged(target) ==
    /\ target # shown.raw
    /\ LET w == [wheel EXCEPT !.shown.raw = target]
       IN  Become(IF calib = Idle THEN GotoRawPos(w, target) ELSE {w})

\* A request for a slot; 0, which the clients may ask for, means slot 1.
FilterSlotChanged(k) ==
    /\ k # shown.slot
    /\ LET w(slot) == [wheel EXCEPT !.shown.slot = slot]
           slot    == IF k \in Slots THEN k ELSE 1
       IN  Become(IF calib = Idle THEN GotoRawPos(w(slot), slotPos[slot]) ELSE {w(k)})

\* A request that gives a slot another position: no callback, the position is
\* in filterPositions and what is shown of the wheel stays as it is.
FilterPositionsChanged(k, p) ==
    Become({[wheel EXCEPT !.slotPos[k] = p, !.fresh = FALSE]})

\* A request to abort: a moving wheel stops where it is (the sensor does not
\* matter when no calibration is going on).
AbortChanged ==
    LET w == [wheel EXCEPT !.calib = Idle]
        v == IF IsMoving(motor) THEN MoveTo(w, motor.cur, motor.cur, FALSE) ELSE w
    IN  Become({OnProgress(v, FALSE)})

\* A request to calibrate (the callback does not look at the value).
CalibrateChanged ==
    /\ calib = Idle
    /\ \E waiting \in {Waiting0, Waiting1}, p \in BOOLEAN, q \in BOOLEAN :
          LET w == [wheel EXCEPT !.calib = waiting,
                                 !.motor = LoadPosition(@, CalibFrom + Phase(@), 0)]
          IN  Become({OnProgress(MoveTo(w, CalibTo, CalibTo, p), q)})

-----------------------------------------------------------------------------
Request == /\ ~quiet
           /\ \/ \E p \in RawTargets : RawPosChanged(p)
              \/ \E k \in 0 .. NSlots : FilterSlotChanged(k)
              \/ \E k \in Slots, p \in SlotTargets : FilterPositionsChanged(k, p)
              \/ AbortChanged \/ CalibrateChanged

\* The clients leave, and the power holds.
Quiet == quiet' = TRUE /\ UNCHANGED <<motor, calib, memory, writing, slotPos, shown, fresh>>

Next == (~writing /\ (Tick \/ Request)) \/ Written \/ PowerCycle \/ Quiet
Spec == Init /\ [][Next]_vars

\* The scheduler runs a motor whose tick is due (Scheduler::loop), and each
\* byte is written in a few milliseconds; asked for once the clients left.
FairSpec == Spec /\ WF_vars(quiet /\ ~writing /\ Tick) /\ WF_vars(quiet /\ Written)

-----------------------------------------------------------------------------
(* A motor that is off has arrived: it never stops with its target or its  *)
(* intermediate target elsewhere, whatever its speed was and however often *)
(* they were changed on the way.                                           *)
OffIsArrived == ~motor.active => AtRest(motor)

(* What is saved is nothing or the position the wheel is at, in a move, a  *)
(* calibration or at rest...                                               *)
SavedIsReal == memory # {} => memory = {[pos |-> motor.cur, base |-> motor.base]}

(* ... so that a power cut, unless it comes in the middle of a save, leaves *)
(* a wheel that is where it believes to be, or one that waits for the      *)
(* sensor or has just found it; it never believes in a position it left.   *)
NeverMisled ==
    [][~writing /\ PowerCycle =>
          \/ motor'.cur = motor.cur /\ motor'.base = motor.base
          \/ memory = {} /\ (calib' = Waiting1 \/ motor'.cur = Home)]_vars

(* A wheel that is off and not calibrating shows its true position; a slot *)
(* only where that slot was when the wheel came to rest, and BUSY only     *)
(* when it was at no slot.  (Giving a slot another position has no         *)
(* callback: until the wheel moves again, the slot shown may be a past one.) *)
ShownIsReal ==
    (~motor.active /\ calib = Idle) =>
        /\ ~shown.rawBusy /\ ~shown.calibBusy
        /\ shown.raw = motor.cur
        /\ fresh => /\ ~shown.slotBusy => shown.slot \in SlotsHere(wheel)
                    /\ shown.slotBusy <=> SlotsHere(wheel) = {}

(* The coils move by one phase at most while the wheel is in motion:       *)
(* naming a position anew (a calibration starts or ends) does not turn the *)
(* motor.  (A wheel that is off does not move; a power cycle turns it off.) *)
CoilsFollow ==
    [][motor'.active =>
        Phase(motor)' \in {(Phase(motor) + d) % Phases : d \in {-1, 0, 1}}]_vars

(* A wheel that gets no more requests comes to rest, whatever its speed    *)
(* and its targets were.                                                   *)
ComesToRest == quiet ~> ~motor.active
=============================================================================
