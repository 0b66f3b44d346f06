-------------------------------- MODULE Motors --------------------------------
(***************************************************************************)
(* The filter wheel and the focuser.  They share the scheduler and nothing *)
(* else, so that one of them is at work in a behaviour (and where the      *)
(* other one starts does not matter).                                      *)
(***************************************************************************)
EXTENDS FilterWheel, Focuser

VARIABLE works  \* the one that is at work

motorsVars == <<vars, focuser, rotor, works>>

MotorsInit ==
    /\ Init /\ FocuserInit
    /\ \/ works = "wheel" /\ rotor = 0
       \/ works = "focuser" /\ calib = Waiting1 /\ \A j, k \in Slots : slotPos[j] = slotPos[k]

Wheel == /\ works = "wheel" /\ Next
         /\ UNCHANGED <<focuser, rotor, works>>
Focus == /\ works = "focuser" /\ FocuserNext
         /\ UNCHANGED <<vars, works>>

MotorsNext == Wheel \/ Focus

MotorsSpec == MotorsInit /\ [][MotorsNext]_motorsVars

\* The scheduler runs a wheel whose tick is due, and what it saves is written;
\* asked for only once the clients left.
MotorsFairSpec ==
    /\ MotorsSpec
    /\ WF_motorsVars(/\ works = "wheel" /\ quiet /\ ~writing /\ Tick
                     /\ UNCHANGED <<focuser, rotor, works>>)
    /\ WF_motorsVars(works = "wheel" /\ quiet /\ Written /\ UNCHANGED <<focuser, rotor, works>>)

\* Every variable has its type; in particular, no speed exceeds a uint8_t,
\* whatever acceleration was set in motion.
MotorsTypeOK == TypeOK /\ FocuserTypeOK
=============================================================================
