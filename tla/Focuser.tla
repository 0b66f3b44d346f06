-------------------------------- MODULE Focuser --------------------------------
(***************************************************************************)
(* The focuser: a motor, the position it shows and saves, and a reset that *)
(* gives the place it is at another name.  The coils follow the name of    *)
(* the position: the base that the filter wheel carries along stays 0, so  *)
(* that it needs not be saved.                                             *)
(*                                                                         *)
(* The settings of the pulses, which change durations only, are left out.  *)
(* The settings are saved byte by byte: the handler that saves goes on     *)
(* while they are written, and a power cut may come in between.            *)
(***************************************************************************)
EXTENDS Motor

CONSTANTS FocusTargets,  \* positions the clients ask for
          Center,        \* 50000: the first position, and that of a reset
          FocusAccel     \* FOCUSER_DEFAULT_MAX_ACCEL_STEP

ASSUME FocuserAssumption ==
    /\ Center \in Positions /\ FocusTargets \subseteq Positions
    /\ FocusAccel \in 0 .. MaxAccel

VARIABLES
    focuser,  \* the focuser: its motor; memory->settings.pos (saved); the value
              \* (shown) and the BUSY flag (busy) of absolutePositionVec; the
              \* switch of focusResetPosition (resetOn); invert; and whether
              \* the EEPROM is being written (writing)
    rotor     \* where the rotor is, as the phase that pulled it there

focusVars == <<focuser, rotor>>

FocuserTypeOK ==
    /\ focuser \in [motor : MotorState, saved : Positions, shown : Positions,
                    busy : BOOLEAN, resetOn : BOOLEAN, invert : BOOLEAN,
                    writing : BOOLEAN]
    /\ rotor \in 0 .. Phases - 1

-----------------------------------------------------------------------------
\* The phase that setOutput shows for the position of f.
Out(f) == IF f.invert THEN (Phases - Phase(f.motor)) % Phases ELSE Phase(f.motor)

\* Variant: the position is saved when the motor leaves it.
FocuserOnProgress_SaveFirst(f) ==
    [f EXCEPT !.busy = f.motor.active, !.shown = f.motor.cur,
              !.saved = IF f.motor.active THEN f.motor.cur ELSE @,
              !.writing = @ \/ (f.motor.active /\ f.saved # f.motor.cur)]

\* onProgress(): what is shown, and the position of a motor that is off is
\* saved.
FocuserOnProgress(f) ==
    [f EXCEPT !.busy = f.motor.active, !.shown = f.motor.cur,
              !.saved = IF f.motor.active THEN @ ELSE f.motor.cur,
              !.writing = @ \/ (~f.motor.active /\ f.saved # f.motor.cur)]

\* Motor::setTargetPosition, called by a handler of the focuser.
FocuserMoveTo(f, p) ==
    LET s == SetTarget(f.motor, p, p)
        g == [f EXCEPT !.motor = s.motor]
    IN  IF s.progress THEN FocuserOnProgress(g) ELSE g

StopMoving(f) == IF IsMoving(f.motor) THEN FocuserMoveTo(f, f.motor.cur) ELSE f

\* The focuser after the set-up: the constructor, then loadInitialSettings.
FocuserBoot(saved, invert, accel) ==
    [motor   |-> [cur |-> saved, target |-> saved, inter |-> saved,
                  base |-> 0, speed |-> 0, accel |-> accel, active |-> FALSE],
     saved   |-> saved, shown |-> saved,
     busy    |-> FALSE, resetOn |-> FALSE, invert |-> invert, writing |-> FALSE]

\* A new EEPROM, the rotor somewhere.
FocuserInit ==
    /\ focuser = FocuserBoot(Center, FALSE, FocusAccel)
    /\ rotor \in 0 .. Phases - 1

\* Motor::tick: a step pulls the rotor to the phase shown.
FocuserTick ==
    /\ focuser.motor.active
    /\ LET r == MotorTick(focuser.motor)
           f == [focuser EXCEPT !.motor = r.motor]
       IN  /\ \/ focuser' = FocuserOnProgress(f)
              \/ r.event = "moved" /\ focuser' = f
           /\ rotor' = IF r.event = "stopped" THEN rotor ELSE Out(f)

\* A request for a position; one for the value shown has no effect.
AbsPositionChanged(p) ==
    /\ p # focuser.shown
    /\ focuser' = FocuserMoveTo([focuser EXCEPT !.shown = p], p)
    /\ UNCHANGED rotor

\* A request to abort: the switch is set back, a moving motor stops here.
FocuserAbortChanged == focuser' = StopMoving(focuser) /\ UNCHANGED rotor

\* Variant: the coils keep their place, as those of the wheel do.
Reset_KeepCoils(f) ==
    [f EXCEPT !.motor = LoadPosition(@, Center, (Phase(@) - Center) % Phases)]

\* loadPosition(50000): the motor is said to be there.
Reset(f) == [f EXCEPT !.motor = LoadPosition(@, Center, @.base)]

\* A request to reset; the switch stays on until a client turns it off.
ResetPositionChanged ==
    /\ focuser' = IF focuser.resetOn THEN [focuser EXCEPT !.resetOn = FALSE]
                  ELSE FocuserOnProgress(Reset([focuser EXCEPT !.resetOn = TRUE]))
    /\ UNCHANGED rotor

\* A request for settings: they are applied, a moving motor stops here, and
\* they are saved.  accel is what a uint8_t keeps of the value asked for.
MotorSettingsChanged(invert, accel) ==
    /\ focuser' = [StopMoving([focuser EXCEPT !.invert = invert, !.motor.accel = accel])
                      EXCEPT !.writing = TRUE]
    /\ UNCHANGED rotor

\* The last byte of the settings is written, and the handler ends.
FocuserWritten ==
    focuser.writing /\ focuser' = [focuser EXCEPT !.writing = FALSE] /\ UNCHANGED rotor

\* The power is cut; the settings that were saved are loaded.  Those that were
\* being written are a mix of old and new bytes.
FocuserPowerCycle ==
    /\ \/ focuser' = FocuserBoot(focuser.saved, focuser.invert, focuser.motor.accel)
       \/ /\ focuser.writing
          /\ \E p \in Torn, invert \in BOOLEAN, accel \in 0 .. MaxAccel :
                focuser' = FocuserBoot(p, invert, accel)
    /\ UNCHANGED rotor

-----------------------------------------------------------------------------
FocuserHandler ==
    \/ FocuserTick \/ FocuserAbortChanged \/ ResetPositionChanged
    \/ \E p \in FocusTargets : AbsPositionChanged(p)
    \/ \E invert \in BOOLEAN, accel \in 0 .. MaxAccel : MotorSettingsChanged(invert, accel)

FocuserNext ==
    \/ ~focuser.writing /\ FocuserHandler
    \/ FocuserWritten \/ FocuserPowerCycle

FocuserSpec == FocuserInit /\ [][FocuserNext]_focusVars

-----------------------------------------------------------------------------
(* A focuser that is off has arrived, shows where it is and that it is     *)
(* free, and has saved that position, whatever was asked, aborted or reset *)
(* on the way and while it slowed down.                                    *)
RestIsKnown ==
    ~focuser.motor.active =>
        /\ AtRest(focuser.motor)
        /\ focuser.saved = focuser.motor.cur
        /\ focuser.shown = focuser.motor.cur /\ ~focuser.busy

(* The coils are where the rotor is.                                       *)
Aligned == rotor = Out(focuser)

(* The rotor and the position only part in a reset, a change of inversion  *)
(* or a power cut in motion or in the middle of a save: never in a move,   *)
(* whatever becomes of the acceleration, and not in a power cycle of a     *)
(* focuser that is off and has saved, although the coils are then placed   *)
(* by the saved position alone.  As long as they agree, no step is longer  *)
(* than a phase.                                                           *)
PlaceKept ==
    [][Aligned =>
          /\ rotor' \in {(rotor + d) % Phases : d \in {-1, 0, 1}}
          /\ \/ Aligned'
             \/ focuser'.resetOn /\ ~focuser.resetOn
             \/ focuser'.invert # focuser.invert
             \/ (focuser.motor.active \/ focuser.writing) /\ FocuserPowerCycle]_focusVars
=============================================================================
