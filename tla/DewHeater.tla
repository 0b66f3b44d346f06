------------------------------ MODULE DewHeater ------------------------------
(***************************************************************************)
(* The dew heaters.  Each one looks for a temperature sensor on its wire,  *)
(* measures every five seconds, and drives its power as the client says:   *)
(* off, a fixed level, or a PID that follows a temperature or the dew      *)
(* point of the weather sensor (MeteoTemp).  The settings of a sensor can  *)
(* be saved; the heaters share the few slots that there are.               *)
(*                                                                         *)
(* A power level is zero, the fixed level, what the PID computed from      *)
(* numbers, or undefined (from a NaN).  Of the settings only the power     *)
(* mode, which decides of everything else, is kept.  A sensor that is not  *)
(* there and one whose answer is garbled are the same.                     *)
(***************************************************************************)
EXTENDS Naturals

CONSTANTS Heaters,   \* the heaters
          Sensors,   \* addresses of sensors
          SlotCount, \* storedSettingsCount: slots in the EEPROM
          NoSensor,  \* the address 0, and an empty wire
          Garbage    \* an address that is not 0 and no sensor has

ASSUME HeaterAssumption ==
    /\ SlotCount \in Nat \ {0} /\ NoSensor \notin Sensors
    /\ Garbage \notin Sensors \cup {NoSensor}

Modes == {"off", "forced", "byTemp", "overDew"}
Slots == 1 .. SlotCount
Addrs == Sensors \cup {NoSensor}

\* What a slot may hold; Noise is memory that is not initialised, which no
\* search finds.
Noise    == [addr |-> Garbage, mode |-> "off"]
Zeroes   == [addr |-> NoSensor, mode |-> "off"]
Settings == [addr : Addrs, mode : Modes] \cup {Noise}

VARIABLES
    heater,  \* heater[h]: status, the address and the power mode it shows,
             \* tempAvailable (temp), pidRunning, pidDisabled, whether ITerm
             \* is a NaN (nan), and the level it applies (pwm)
    wire,    \* wire[h]: the sensor that is plugged in
    meteo,   \* the weather sensor has a dew point
    slot,    \* slot[i]: the address and the power mode in that slot
    written, \* the slots were written to the EEPROM
    seen     \* slotSeen

vars == <<heater, wire, meteo, slot, written, seen>>

Heater == [status : {"scan", "idle", "measure"}, addr : Addrs, mode : Modes,
           temp : BOOLEAN, running : BOOLEAN, disabled : BOOLEAN, nan : BOOLEAN,
           pwm : {"zero", "fixed", "pid", "undefined"}]

TypeOK ==
    /\ heater \in [Heaters -> Heater]
    /\ wire \in [Heaters -> Addrs] /\ meteo \in BOOLEAN
    /\ slot \in [Slots -> Settings] /\ written \in BOOLEAN
    /\ seen \in SUBSET Slots

-----------------------------------------------------------------------------
(* The power of a heater.                                                  *)

InitPid(x) == IF x.temp THEN [x EXCEPT !.running = TRUE, !.disabled = FALSE, !.nan = FALSE]
              ELSE [x EXCEPT !.running = TRUE, !.disabled = TRUE]

\* updatePid and the level it returns.  The test of the target against NAN
\* is never true, so that an unknown dew point goes into ITerm and stays
\* there.  Two updates in the same millisecond divide 0 by 0.
UpdatePid(x) ==
    IF x.addr = NoSensor \/ ~x.temp THEN {[x EXCEPT !.disabled = TRUE, !.pwm = "zero"]}
    ELSE IF x.disabled THEN {[InitPid(x) EXCEPT !.pwm = "zero"]}
    ELSE LET nan == x.nan \/ (x.mode = "overDew" /\ ~meteo)
         IN  {[x EXCEPT !.nan = nan, !.pwm = p] :
                 p \in IF nan THEN {"undefined"} ELSE {"pid", "undefined"}}

UpdatePwm(x) ==
    CASE x.mode = "off"    -> {[x EXCEPT !.running = FALSE, !.pwm = "zero"]}
      [] x.mode = "forced" -> {[x EXCEPT !.running = FALSE, !.pwm = "fixed"]}
      [] OTHER -> IF x.running THEN UpdatePid(x)
                  ELSE {[InitPid(x) EXCEPT !.pwm = "zero"]}

\* Variant: the power is left as it was when the sensor is lost.
Failed_KeepPower(x) == {[x EXCEPT !.temp = FALSE, !.addr = NoSensor, !.status = "scan"]}

\* failed(): the sensor is lost, and looked for again.
Failed(x) ==
    {[y EXCEPT !.status = "scan"] :
        y \in UpdatePwm([x EXCEPT !.temp = FALSE, !.addr = NoSensor])}

(* The slots.                                                              *)

\* findPos: the first slot with this address, none or one.
FindPos(a) == LET at == {i \in Slots : slot[i].addr = a}
              IN  {i \in at : \A j \in at : i <= j}

\* Variant: a slot not seen since the start is taken before an empty one.
FindNewSlot_UnseenFirst ==
    LET unseen == Slots \ seen
        empty == {i \in Slots : slot[i].addr = NoSensor}
        from == IF unseen # {} THEN unseen ELSE IF empty # {} THEN empty ELSE {1}
    IN  CHOOSE i \in from : \A j \in from : i <= j

\* Variant: no slot when all are taken and seen.
FindNewSlot_None ==
    LET from == {i \in Slots : slot[i].addr = NoSensor \/ i \notin seen}
    IN  IF from = {} THEN 0 ELSE CHOOSE i \in from : \A j \in from : i <= j

\* findNewSlot: an empty slot, else one not seen since the start, else the
\* first.
FindNewSlot ==
    LET unseen == Slots \ seen
        empty == {i \in Slots : slot[i].addr = NoSensor}
        from == IF empty # {} THEN empty ELSE IF unseen # {} THEN unseen ELSE {1}
    IN  CHOOSE i \in from : \A j \in from : i <= j

-----------------------------------------------------------------------------
\* The constructors.  The slots are what earlier uses left, in the EEPROM or in
\* the memory that is allocated for them, which is not initialised.
New == [status |-> "scan", addr |-> NoSensor, mode |-> "off", temp |-> FALSE,
        running |-> FALSE, disabled |-> FALSE, nan |-> FALSE, pwm |-> "zero"]

Init == /\ heater = [h \in Heaters |-> New]
        /\ wire = [h \in Heaters |-> NoSensor] /\ meteo = FALSE
        /\ slot \in [Slots -> Settings] /\ written \in BOOLEAN
        /\ \A i, j \in Slots : slot[i].addr = slot[j].addr => i = j \/ slot[i].addr \notin Sensors
        /\ seen = {}

Become(h, X) == \E x \in X : heater' = [heater EXCEPT ![h] = x]

\* loadFromEeprom for the heater x, and powerModeChanged if it has settings.
Loaded(x) ==
    LET at == FindPos(x.addr)
    IN  IF at = {} THEN {x}
        ELSE UNION {UpdatePwm([x EXCEPT !.mode = slot[i].mode]) : i \in at}

Scan(h) ==
    /\ heater[h].status = "scan"
    /\ IF wire[h] = NoSensor
       THEN Become(h, Failed(heater[h])) /\ UNCHANGED seen
       ELSE /\ Become(h, {[x EXCEPT !.status = "idle"] :
                             x \in Loaded([heater[h] EXCEPT !.addr = wire[h]])})
            /\ seen' = seen \cup FindPos(wire[h])
    /\ UNCHANGED <<wire, meteo, slot, written>>

StartMeasure(h) ==
    /\ heater[h].status = "idle"
    /\ Become(h, {[heater[h] EXCEPT !.status = "measure"]})
    /\ UNCHANGED <<wire, meteo, slot, written, seen>>

\* Variant: a failed measure is made again, without a scan.
EndMeasure_Retry(h) ==
    /\ heater[h].status = "measure"
    /\ IF wire[h] = NoSensor
       THEN Become(h, {[x EXCEPT !.status = "idle"] : x \in Failed(heater[h])})
       ELSE LET x == [heater[h] EXCEPT !.temp = TRUE]
            IN  Become(h, {[y EXCEPT !.status = "idle"] :
                              y \in IF x.running THEN UpdatePwm(x) ELSE {x}})
    /\ UNCHANGED <<wire, meteo, slot, written, seen>>

\* The measure is that of the sensor on the wire, whatever its address.
EndMeasure(h) ==
    /\ heater[h].status = "measure"
    /\ IF wire[h] = NoSensor
       THEN Become(h, Failed(heater[h]))
       ELSE LET x == [heater[h] EXCEPT !.temp = TRUE]
            IN  Become(h, {[y EXCEPT !.status = "idle"] :
                              y \in IF x.running THEN UpdatePwm(x) ELSE {x}})
    /\ UNCHANGED <<wire, meteo, slot, written, seen>>

Tick(h) == Scan(h) \/ StartMeasure(h) \/ EndMeasure(h)

(* Requests of the clients.                                                *)

\* The power mode, or one of its settings.
PowerModeChanged(h, mode) ==
    /\ Become(h, UpdatePwm([heater[h] EXCEPT !.mode = mode]))
    /\ UNCHANGED <<wire, meteo, slot, written, seen>>

\* Variant: the address is not looked for.
SaveToEeprom_New(h) ==
    LET i == FindNewSlot
    IN  /\ slot' = [slot EXCEPT ![i] = [addr |-> heater[h].addr, mode |-> heater[h].mode]]
        /\ written' = TRUE /\ seen' = seen \cup {i}
        /\ UNCHANGED <<heater, wire, meteo>>

\* Save: in the slot of the sensor, or a new one.
SaveToEeprom(h) ==
    LET at == FindPos(heater[h].addr)
        i == IF at = {} THEN FindNewSlot ELSE CHOOSE j \in at : TRUE
    IN  /\ slot' = [slot EXCEPT ![i] = [addr |-> heater[h].addr, mode |-> heater[h].mode]]
        /\ written' = TRUE /\ seen' = seen \cup {i}
        /\ UNCHANGED <<heater, wire, meteo>>

Forget(h) ==
    LET at == FindPos(heater[h].addr)
    IN  /\ slot' = [i \in Slots |-> IF i \in at THEN [slot[i] EXCEPT !.addr = NoSensor]
                                    ELSE slot[i]]
        /\ written' = (written \/ at # {})
        /\ UNCHANGED <<heater, wire, meteo, seen>>

Reload(h) ==
    /\ Become(h, Loaded(heater[h]))
    /\ seen' = seen \cup FindPos(heater[h].addr)
    /\ UNCHANGED <<wire, meteo, slot, written>>

(* The world.                                                              *)

Plug(h, a) ==
    /\ a # NoSensor => \A g \in Heaters : wire[g] # a
    /\ wire' = [wire EXCEPT ![h] = a]
    /\ UNCHANGED <<heater, meteo, slot, written, seen>>

\* doStep3 of MeteoTemp: a measure of the weather, good or not.
Weather(ok) == meteo' = ok /\ UNCHANGED <<heater, wire, slot, written, seen>>

\* Slots that were never written are what the memory holds after it.
PowerCycle ==
    /\ heater' = [h \in Heaters |-> New]
    /\ meteo' = FALSE /\ seen' = {}
    /\ slot' \in IF written THEN {slot} ELSE {slot} \cup [Slots -> {Noise, Zeroes}]
    /\ UNCHANGED <<wire, written>>

Request(h) == \/ \E mode \in Modes : PowerModeChanged(h, mode)
              \/ SaveToEeprom(h) \/ Forget(h) \/ Reload(h)

Next == \/ \E h \in Heaters : Tick(h) \/ Request(h) \/ \E a \in Addrs : Plug(h, a)
        \/ \E ok \in BOOLEAN : Weather(ok)
        \/ PowerCycle

Spec == Init /\ [][Next]_vars
FairSpec == Spec /\ \A h \in Heaters : WF_vars(Tick(h))

-----------------------------------------------------------------------------
(* A heater that follows a temperature it does not have, since the sensor  *)
(* was lost, swapped or never found, is off.                               *)
NoBlindHeat ==
    \A h \in Heaters :
        (heater[h].mode \in {"byTemp", "overDew"} /\ ~heater[h].temp)
            => heater[h].pwm = "zero"

(* No sensor has two slots: what was saved last is what is found, and what *)
(* is forgotten does not come back.                                        *)
StoredOnce ==
    \A i, j \in Slots :
        slot[i].addr = slot[j].addr => i = j \/ slot[i].addr \notin Sensors

(* As long as a slot is empty, what is saved for a sensor stays until it   *)
(* is forgotten by a heater that shows it, even if a heater that has lost  *)
(* its sensor, whose address is that of an empty slot, saves or forgets.   *)
KeptWhileRoom ==
    [][(written /\ \E i \in Slots : slot[i].addr = NoSensor) =>
        \A i \in Slots :
            \/ slot[i].addr = NoSensor \/ slot'[i].addr = slot[i].addr
            \/ \E h \in Heaters : heater[h].addr = slot[i].addr]_vars

(* A heater whose wire keeps a sensor finds it and measures, and goes on    *)
(* doing so, whatever was plugged before, even if one sensor is replaced   *)
(* by another, and whatever the clients ask for.                           *)
SensorServed ==
    \A h \in Heaters :
        (<>[](wire[h] # NoSensor) /\ <>[][~PowerCycle]_vars) =>
            <>[](heater[h].temp /\ heater[h].addr # NoSensor)

(* The power that is applied is a level of 0 to 100 % (the range that the  *)
(* vector announces).                                                      *)
PwmIsDefined == \A h \in Heaters : heater[h].pwm # "undefined"
=============================================================================
