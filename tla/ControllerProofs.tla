---------------------------- MODULE ControllerProofs ----------------------------
(***************************************************************************)
(* The dew heaters, and the scheduler that runs them and the other tasks.  *)
(* What DewHeater promises about its power and about the slots of settings *)
(* is true for any number of heaters, sensors and slots.  The arithmetic   *)
(* of UTime is right for counters of any width, as far as its theorems     *)
(* say, and Scheduler runs no task early whatever its tasks do.            *)
(***************************************************************************)
EXTENDS DewHeater, Scheduler, Arithmetic

(* findPos returns a slot with the address, if there is one.               *)
LEMMA FindPosFinds ==
    ASSUME NEW a
    PROVE  /\ FindPos(a) \subseteq {i \in Slots : slot[i].addr = a}
           /\ FindPos(a) = {} => \A i \in Slots : slot[i].addr # a
<1> DEFINE at == {i \in Slots : slot[i].addr = a}
<1>1. FindPos(a) = {i \in at : \A j \in at : i <= j}
  BY DEF FindPos
<1>2. at # {} => FindPos(a) # {}
  <2>1. at \subseteq Nat
    BY HeaterAssumption DEF Slots
  <2> QED  BY <1>1, <2>1, First
<1> QED  BY <1>1, <1>2

(* findNewSlot returns a slot, and an empty one if there is one.           *)
LEMMA NewSlotIsSlot ==
    /\ FindNewSlot \in Slots
    /\ (\E i \in Slots : slot[i].addr = NoSensor) => slot[FindNewSlot].addr = NoSensor
<1> DEFINE unseen == Slots \ seen
           empty == {i \in Slots : slot[i].addr = NoSensor}
           from == IF empty # {} THEN empty ELSE IF unseen # {} THEN unseen ELSE {1}
<1>1. 1 \in Slots
  BY HeaterAssumption DEF Slots
<1>2. from \subseteq Slots /\ from # {}
  BY <1>1
<1>3. Slots \subseteq Nat
  BY HeaterAssumption DEF Slots
<1>4. \E i \in from : \A j \in from : i <= j
  BY <1>2, <1>3, First
<1>5. FindNewSlot = CHOOSE i \in from : \A j \in from : i <= j
  BY DEF FindNewSlot
<1>6. FindNewSlot \in from
  <2> HIDE DEF from
  <2> QED  BY <1>4, <1>5
<1> QED  BY <1>2, <1>6

-----------------------------------------------------------------------------
(* The heater x is not driven by a temperature it does not have.           *)
Sighted(x) == (x.mode \in {"byTemp", "overDew"} /\ ~x.temp) => x.pwm = "zero"

(* initPid changes nothing but the PID.                                    *)
LEMMA InitPidKeeps ==
    ASSUME NEW x \in Heater
    PROVE  /\ InitPid(x) \in Heater
           /\ InitPid(x).mode = x.mode /\ InitPid(x).temp = x.temp
           /\ InitPid(x).status = x.status /\ InitPid(x).addr = x.addr
BY DEF InitPid, Heater

(* updatePwm keeps what the heater knows and never heats blindly.          *)
LEMMA UpdatePwmSafe ==
    ASSUME NEW x \in Heater, NEW y \in UpdatePwm(x)
    PROVE  y \in Heater /\ Sighted(y)
<1>1. CASE x.mode \in {"off", "forced"}
  BY <1>1 DEF UpdatePwm, Heater, Sighted
<1>2. CASE x.mode \in {"byTemp", "overDew"}
  <2>1. \/ y \in UpdatePid(x)
        \/ y = [InitPid(x) EXCEPT !.pwm = "zero"]
    BY <1>2 DEF UpdatePwm
  <2>2. CASE y = [InitPid(x) EXCEPT !.pwm = "zero"]
    BY <2>2, InitPidKeeps DEF Heater, Sighted
  <2>3. CASE y \in UpdatePid(x)
    <3>1. CASE x.addr = NoSensor \/ ~x.temp
      BY <2>3, <3>1 DEF UpdatePid, Heater, Sighted
    <3>2. CASE ~(x.addr = NoSensor \/ ~x.temp) /\ x.disabled
      <4>1. y = [InitPid(x) EXCEPT !.pwm = "zero"]
        BY <2>3, <3>2 DEF UpdatePid
      <4> QED  BY <4>1, <2>2
    <3>3. CASE ~(x.addr = NoSensor \/ ~x.temp) /\ ~x.disabled
      <4> DEFINE nan == x.nan \/ (x.mode = "overDew" /\ ~meteo)
      <4>1. \E p \in {"pid", "undefined"} : y = [x EXCEPT !.nan = nan, !.pwm = p]
        BY <2>3, <3>3 DEF UpdatePid
      <4>2. nan \in BOOLEAN
        OBVIOUS
      <4>3. y \in Heater /\ y.temp = x.temp
        <5> HIDE DEF nan
        <5> QED  BY <4>1, <4>2 DEF Heater
      <4> QED  BY <4>3, <3>3 DEF Sighted
    <3> QED  BY <3>1, <3>2, <3>3
  <2> QED  BY <2>1, <2>2, <2>3
<1> QED  BY <1>1, <1>2 DEF Heater, Modes

(* A heater whose sensor is lost looks for it, and is not driven blindly.  *)
LEMMA FailedSafe ==
    ASSUME NEW x \in Heater, NEW y \in Failed(x)
    PROVE  y \in Heater /\ Sighted(y)
<1> DEFINE z == [x EXCEPT !.temp = FALSE, !.addr = NoSensor]
<1>1. z \in Heater
  BY DEF Heater, Addrs
<1>2. PICK w \in UpdatePwm(z) : y = [w EXCEPT !.status = "scan"]
  BY DEF Failed
<1>3. w \in Heater /\ Sighted(w)
  <2> HIDE DEF z
  <2> QED  BY <1>1, <1>2, UpdatePwmSafe
<1> QED  BY <1>2, <1>3 DEF Heater, Sighted

(* The settings of a slot replace those of a heater.                       *)
LEMMA LoadedSafe ==
    ASSUME slot \in [Slots -> Settings],
           NEW x \in Heater, Sighted(x), NEW y \in Loaded(x)
    PROVE  y \in Heater /\ Sighted(y)
<1>1. CASE FindPos(x.addr) = {}
  BY <1>1 DEF Loaded
<1>2. CASE FindPos(x.addr) # {}
  <2>1. PICK i \in FindPos(x.addr) : y \in UpdatePwm([x EXCEPT !.mode = slot[i].mode])
    BY <1>2 DEF Loaded
  <2>2. i \in Slots
    BY FindPosFinds
  <2>3. [x EXCEPT !.mode = slot[i].mode] \in Heater
    <3>1. \A s \in Settings : s.mode \in Modes
      BY DEF Settings, Noise, Modes
    <3>2. slot[i].mode \in Modes
      BY <2>2, <3>1
    <3> QED  BY <3>2 DEF Heater
  <2> QED  BY <2>1, <2>3, UpdatePwmSafe
<1> QED  BY <1>1, <1>2

-----------------------------------------------------------------------------
NotBlind == \A h \in Heaters : Sighted(heater[h])

IInv == TypeOK /\ NotBlind /\ StoredOnce

(* A step that gives one heater a safe value and leaves the slots alone    *)
(* keeps the invariant.                                                    *)
LEMMA BecomeKeeps ==
    ASSUME IInv, NEW h \in Heaters, NEW X, Become(h, X),
           \A y \in X : y \in Heater /\ Sighted(y),
           wire' = wire, meteo' = meteo, slot' = slot, written' = written,
           seen' \in SUBSET Slots
    PROVE  IInv'
<1>1. PICK y \in X : heater' = [heater EXCEPT ![h] = y]
  BY DEF Become
<1>2. y \in Heater /\ Sighted(y)
  OBVIOUS
<1>3. heater \in [Heaters -> Heater]
  BY DEF IInv, TypeOK
<1>4. heater' \in [Heaters -> Heater]
  BY <1>1, <1>2, <1>3
<1>5. TypeOK'
  BY <1>4 DEF IInv, TypeOK
<1>6. NotBlind'
  <2>1. \A g \in Heaters : heater'[g] = IF g = h THEN y ELSE heater[g]
    BY <1>1, <1>3
  <2> QED  BY <2>1, <1>2 DEF IInv, NotBlind, Sighted
<1>7. StoredOnce'
  BY DEF IInv, StoredOnce
<1> QED  BY <1>5, <1>6, <1>7 DEF IInv

(* The invariant holds at the start.                                       *)
LEMMA InitIInv == Init => IInv
<1> SUFFICES ASSUME Init PROVE IInv
  OBVIOUS
<1>1. New \in Heater /\ Sighted(New)
  BY DEF New, Heater, Addrs, Modes, Sighted
<1>2. TypeOK
  BY <1>1 DEF Init, TypeOK, Addrs
<1>3. NotBlind
  BY <1>1 DEF Init, NotBlind
<1> QED  BY <1>2, <1>3 DEF Init, IInv, StoredOnce

(* One step per action: it keeps the types, gives no heater a level for a  *)
(* temperature that it does not have, and no sensor a second slot.         *)
LEMMA NextIInv == IInv /\ [Next]_vars => IInv'
<1> SUFFICES ASSUME IInv, [Next]_vars PROVE IInv'
  OBVIOUS
<1>h. \A h \in Heaters : heater[h] \in Heater /\ Sighted(heater[h])
  BY DEF IInv, TypeOK, NotBlind
<1>s. slot \in [Slots -> Settings] /\ seen \in SUBSET Slots
  BY DEF IInv, TypeOK
<1>p. \A a : FindPos(a) \subseteq Slots
  BY FindPosFinds
<1>1. ASSUME NEW h \in Heaters, Scan(h) PROVE IInv'
  <2>1. CASE wire[h] = NoSensor
    <3>1. \A y \in Failed(heater[h]) : y \in Heater /\ Sighted(y)
      BY <1>h, FailedSafe
    <3> QED  BY <1>1, <2>1, <3>1, <1>s, BecomeKeeps DEF Scan
  <2>2. CASE wire[h] # NoSensor
    <3> DEFINE x == [heater[h] EXCEPT !.addr = wire[h]]
               X == {[z EXCEPT !.status = "idle"] : z \in Loaded(x)}
    <3>1. wire[h] \in Addrs
      BY DEF IInv, TypeOK
    <3>2. x \in Heater /\ Sighted(x)
      BY <1>h, <3>1 DEF Heater, Sighted
    <3>3. \A z \in Loaded(x) : z \in Heater /\ Sighted(z)
      <4> HIDE DEF x
      <4> QED  BY <3>2, <1>s, LoadedSafe
    <3>4. \A y \in X : y \in Heater /\ Sighted(y)
      <4> SUFFICES ASSUME NEW z \in Loaded(x)
                   PROVE  [z EXCEPT !.status = "idle"] \in Heater
                          /\ Sighted([z EXCEPT !.status = "idle"])
        OBVIOUS
      <4>1. z \in Heater /\ Sighted(z)
        BY <3>3
      <4> QED  BY <4>1 DEF Heater, Sighted
    <3>5. Become(h, X) /\ seen' \in SUBSET Slots
      BY <1>1, <2>2, <1>p, <1>s DEF Scan
    <3>6. wire' = wire /\ meteo' = meteo /\ slot' = slot /\ written' = written
      BY <1>1 DEF Scan
    <3> HIDE DEF X
    <3> QED  BY <3>4, <3>5, <3>6, BecomeKeeps
  <2> QED  BY <2>1, <2>2
<1>2. ASSUME NEW h \in Heaters, StartMeasure(h) PROVE IInv'
  <2> DEFINE X == {[heater[h] EXCEPT !.status = "measure"]}
  <2>1. \A y \in X : y \in Heater /\ Sighted(y)
    BY <1>h DEF Heater, Sighted
  <2>2. Become(h, X) /\ wire' = wire /\ meteo' = meteo /\ slot' = slot
        /\ written' = written /\ seen' = seen
    BY <1>2 DEF StartMeasure
  <2> HIDE DEF X
  <2> QED  BY <2>1, <2>2, <1>s, BecomeKeeps
<1>3. ASSUME NEW h \in Heaters, EndMeasure(h) PROVE IInv'
  <2>1. CASE wire[h] = NoSensor
    <3>1. \A y \in Failed(heater[h]) : y \in Heater /\ Sighted(y)
      BY <1>h, FailedSafe
    <3> QED  BY <1>3, <2>1, <3>1, <1>s, BecomeKeeps DEF EndMeasure
  <2>2. CASE wire[h] # NoSensor
    <3> DEFINE x == [heater[h] EXCEPT !.temp = TRUE]
               Y == IF x.running THEN UpdatePwm(x) ELSE {x}
               X == {[y EXCEPT !.status = "idle"] : y \in Y}
    <3>1. x \in Heater /\ Sighted(x)
      BY <1>h DEF Heater, Sighted
    <3>2. \A y \in Y : y \in Heater /\ Sighted(y)
      <4> HIDE DEF x
      <4> QED  BY <3>1, UpdatePwmSafe
    <3>3. \A y \in X : y \in Heater /\ Sighted(y)
      <4> SUFFICES ASSUME NEW y \in Y
                   PROVE  [y EXCEPT !.status = "idle"] \in Heater
                          /\ Sighted([y EXCEPT !.status = "idle"])
        OBVIOUS
      <4>1. y \in Heater /\ Sighted(y)
        BY <3>2
      <4> HIDE DEF Y
      <4> QED  BY <4>1 DEF Heater, Sighted
    <3>4. Become(h, X) /\ wire' = wire /\ meteo' = meteo /\ slot' = slot
        /\ written' = written /\ seen' = seen
      BY <1>3, <2>2 DEF EndMeasure
    <3> HIDE DEF X
    <3> QED  BY <3>3, <3>4, <1>s, BecomeKeeps
  <2> QED  BY <2>1, <2>2
<1>4. ASSUME NEW h \in Heaters, NEW mode \in Modes, PowerModeChanged(h, mode) PROVE IInv'
  <2> DEFINE x == [heater[h] EXCEPT !.mode = mode]
  <2>1. x \in Heater
    BY <1>h DEF Heater
  <2>2. \A y \in UpdatePwm(x) : y \in Heater /\ Sighted(y)
    <3> HIDE DEF x
    <3> QED  BY <2>1, UpdatePwmSafe
  <2>3. Become(h, UpdatePwm(x)) /\ wire' = wire /\ meteo' = meteo /\ slot' = slot
        /\ written' = written /\ seen' = seen
    BY <1>4 DEF PowerModeChanged
  <2> HIDE DEF x
  <2> QED  BY <2>2, <2>3, <1>s, BecomeKeeps
<1>5. ASSUME NEW h \in Heaters, SaveToEeprom(h) PROVE IInv'
  <2> DEFINE at == FindPos(heater[h].addr)
             i == IF at = {} THEN FindNewSlot ELSE CHOOSE j \in at : TRUE
             new == [addr |-> heater[h].addr, mode |-> heater[h].mode]
  <2>1. i \in Slots
    BY NewSlotIsSlot, <1>p
  <2>2. at # {} => slot[i].addr = heater[h].addr
    BY FindPosFinds
  <2>3. at = {} => \A j \in Slots : slot[j].addr # heater[h].addr
    BY FindPosFinds
  <2>4. slot' = [slot EXCEPT ![i] = new] /\ seen' = seen \cup {i}
    BY <1>5 DEF SaveToEeprom
  <2>5. new \in Settings
    BY <1>h DEF Heater, Settings
  <2>6. UNCHANGED <<heater, wire, meteo>> /\ written' = TRUE
    BY <1>5 DEF SaveToEeprom
  <2>7. \A j \in Slots : slot'[j].addr = IF j = i THEN heater[h].addr ELSE slot[j].addr
    BY <2>1, <2>4, <1>s
  <2> HIDE DEF i, at, new
  <2>8. StoredOnce'
    BY <2>1, <2>2, <2>3, <2>7 DEF IInv, StoredOnce
  <2>9. TypeOK'
    BY <2>1, <2>4, <2>5, <2>6, <1>s DEF IInv, TypeOK
  <2> QED  BY <2>6, <2>8, <2>9 DEF IInv, NotBlind
<1>6. ASSUME NEW h \in Heaters, Forget(h) PROVE IInv'
  <2> DEFINE at == FindPos(heater[h].addr)
  <2>1. slot' = [i \in Slots |-> IF i \in at THEN [slot[i] EXCEPT !.addr = NoSensor] ELSE slot[i]]
    BY <1>6 DEF Forget
  <2>2. UNCHANGED <<heater, wire, meteo, seen>> /\ written' \in BOOLEAN
    BY <1>6 DEF Forget
  <2> HIDE DEF at
  <2>3. \A j \in Slots : slot'[j].addr = IF j \in at THEN NoSensor ELSE slot[j].addr
    BY <2>1, <1>s
  <2>4. slot' \in [Slots -> Settings]
    <3>1. \A j \in Slots : [slot[j] EXCEPT !.addr = NoSensor] \in Settings
      BY <1>s DEF Settings, Addrs, Noise, Modes
    <3> QED  BY <2>1, <1>s, <3>1
  <2>5. StoredOnce'
    BY <2>3, HeaterAssumption DEF IInv, StoredOnce
  <2> QED  BY <2>2, <2>4, <2>5 DEF IInv, TypeOK, NotBlind
<1>7. ASSUME NEW h \in Heaters, Reload(h) PROVE IInv'
  <2>1. \A y \in Loaded(heater[h]) : y \in Heater /\ Sighted(y)
    BY <1>h, <1>s, LoadedSafe
  <2>2. /\ Become(h, Loaded(heater[h])) /\ seen' \in SUBSET Slots
        /\ wire' = wire /\ meteo' = meteo /\ slot' = slot /\ written' = written
    BY <1>7, <1>p, <1>s DEF Reload
  <2> QED  BY <2>1, <2>2, BecomeKeeps
<1>8. ASSUME NEW h \in Heaters, NEW a \in Addrs, Plug(h, a) PROVE IInv'
  BY <1>8 DEF Plug, IInv, TypeOK, NotBlind, StoredOnce
<1>9. ASSUME NEW ok \in BOOLEAN, Weather(ok) PROVE IInv'
  BY <1>9 DEF Weather, IInv, TypeOK, NotBlind, StoredOnce
<1>10. CASE PowerCycle
  <2>1. New \in Heater /\ Sighted(New)
    BY DEF New, Heater, Addrs, Modes, Sighted
  <2>2. CASE slot' = slot
    BY <1>10, <2>1, <2>2 DEF PowerCycle, IInv, TypeOK, NotBlind, StoredOnce
  <2>3. CASE slot' \in [Slots -> {Noise, Zeroes}]
    <3>1. {Noise, Zeroes} \subseteq Settings
      BY DEF Noise, Zeroes, Settings, Addrs, Modes
    <3>2. \A i \in Slots : slot'[i].addr \notin Sensors
      <4>1. \A x \in {Noise, Zeroes} : x.addr \notin Sensors
        BY HeaterAssumption DEF Noise, Zeroes
      <4> QED  BY <2>3, <4>1
    <3>3. slot' \in [Slots -> Settings]
      BY <2>3, <3>1
    <3>4. StoredOnce'
      BY <3>2 DEF StoredOnce
    <3> QED  BY <1>10, <2>1, <3>3, <3>4 DEF PowerCycle, IInv, TypeOK, NotBlind
  <2>4. slot' = slot \/ slot' \in [Slots -> {Noise, Zeroes}]
    BY <1>10 DEF PowerCycle
  <2> QED  BY <2>2, <2>3, <2>4
<1>11. CASE UNCHANGED vars
  BY <1>11 DEF vars, IInv, TypeOK, NotBlind, StoredOnce
<1> QED
  BY <1>1, <1>2, <1>3, <1>4, <1>5, <1>6, <1>7, <1>8, <1>9, <1>10, <1>11
  DEF Next, Tick, Request

-----------------------------------------------------------------------------
(* The inductive invariant holds in every state.                           *)
THEOREM Invariance == Spec => []IInv
BY InitIInv, NextIInv, PTL DEF Spec

(* Every slot, address and level is of its type: the searches for a slot   *)
(* never leave the slots there are.                                        *)
THEOREM TypeCorrect == Spec => []TypeOK
<1>1. IInv => TypeOK
  BY DEF IInv
<1> QED  BY Invariance, <1>1, PTL

(* No heater is driven by a temperature that it does not have.             *)
THEOREM NeverBlind == Spec => []NoBlindHeat
<1>1. IInv => NoBlindHeat
  BY DEF IInv, NotBlind, NoBlindHeat, Sighted
<1> QED  BY Invariance, <1>1, PTL

(* No sensor has two slots of settings.                                    *)
THEOREM OneSlotPerSensor == Spec => []StoredOnce
<1>1. IInv => StoredOnce
  BY DEF IInv
<1> QED  BY Invariance, <1>1, PTL

(* As long as a slot is empty, no step takes the slot of a sensor that the *)
(* heater which saves or forgets does not show.                            *)
LEMMA StepKeeps ==
    ASSUME IInv, [Next]_vars, written, \E i \in Slots : slot[i].addr = NoSensor, NEW i \in Slots
    PROVE  \/ slot[i].addr = NoSensor \/ slot'[i].addr = slot[i].addr
           \/ \E h \in Heaters : heater[h].addr = slot[i].addr
<1>1. ASSUME NEW h \in Heaters, SaveToEeprom(h)
      PROVE  \/ slot[i].addr = NoSensor \/ slot'[i].addr = slot[i].addr
             \/ heater[h].addr = slot[i].addr
  <2> DEFINE at == FindPos(heater[h].addr)
             k == IF at = {} THEN FindNewSlot ELSE CHOOSE j \in at : TRUE
             new == [addr |-> heater[h].addr, mode |-> heater[h].mode]
  <2>1. slot' = [slot EXCEPT ![k] = new]
    BY <1>1 DEF SaveToEeprom
  <2>2. at # {} => slot[k].addr = heater[h].addr
    BY FindPosFinds
  <2>3. at = {} => slot[k].addr = NoSensor
    BY NewSlotIsSlot
  <2>4. i # k => slot'[i] = slot[i]
    <3> HIDE DEF k, new
    <3> QED  BY <2>1 DEF IInv, TypeOK
  <2> HIDE DEF at, k
  <2> QED  BY <2>2, <2>3, <2>4
<1>2. ASSUME NEW h \in Heaters, Forget(h)
      PROVE  slot'[i].addr = slot[i].addr \/ heater[h].addr = slot[i].addr
  <2>1. i \in FindPos(heater[h].addr) => slot[i].addr = heater[h].addr
    BY FindPosFinds
  <2>2. i \notin FindPos(heater[h].addr) => slot'[i] = slot[i]
    BY <1>2 DEF Forget
  <2> QED  BY <2>1, <2>2
<1>3. CASE slot' = slot
  BY <1>3
<1>4. \/ \E h \in Heaters : SaveToEeprom(h) \/ Forget(h)
      \/ slot' = slot
  BY DEF Next, Tick, Request, Scan, StartMeasure, EndMeasure, PowerModeChanged, Reload,
         Plug, Weather, PowerCycle, vars
<1> QED  BY <1>1, <1>2, <1>3, <1>4

(* What is saved for a sensor stays while there is room for another one.   *)
THEOREM SettingsKept == Spec => KeptWhileRoom
<1>1. IInv /\ [Next]_vars =>
        [(written /\ \E i \in Slots : slot[i].addr = NoSensor) =>
            \A i \in Slots :
                \/ slot[i].addr = NoSensor \/ slot'[i].addr = slot[i].addr
                \/ \E h \in Heaters : heater[h].addr = slot[i].addr]_vars
  BY StepKeeps
<1> QED  BY Invariance, <1>1, PTL DEF Spec, KeptWhileRoom

-----------------------------------------------------------------------------
(* The time and the scheduler.                                             *)
Half(range) == range \div 2

(* A number within half a range of 0 is what its remainder stands for.     *)
LEMMA SignedIs ==
    ASSUME NEW range \in Nat, range > 1, range % 2 = 0,
           NEW d \in Int, -Half(range) <= d, d < Half(range)
    PROVE  Signed(d, range) = d
<1>1. Half(range) \in Nat /\ range = 2 * Half(range)
  BY SMT DEF Half
<1>2. CASE d >= 0
  <2>1. d % range = d
    <3>1. d \in 0 .. range - 1
      BY <1>1, <1>2, SMT
    <3>2. (0 * range + d) % range = d
      BY <3>1, Division
    <3> QED  BY <3>2, SMT
  <2> QED  BY <2>1, <1>2 DEF Signed, Half
<1>3. CASE d < 0
  <2>1. d % range = range + d
    <3> DEFINE q == -1
               r == range + d
    <3>1. r \in 0 .. range - 1 /\ q \in Int /\ range \in Nat \ {0}
      BY <1>1, <1>3, SMT
    <3>2. q * range + r = d
      BY <1>1, SMT
    <3> HIDE DEF q, r
    <3>3. (q * range + r) % range = r
      BY <3>1, Division
    <3> QED  BY <3>2, <3>3 DEF r
  <2>2. ~(range + d < Half(range)) /\ range + d - range = d
    BY <1>1, SMT
  <2> QED  BY <2>1, <2>2 DEF Signed, Half
<1> QED  BY <1>2, <1>3, SMT

(* The same for a number that is a whole number of ranges away.            *)
LEMMA SignedOf ==
    ASSUME NEW range \in Nat, range > 1, range % 2 = 0,
           NEW d \in Int, -Half(range) <= d, d < Half(range),
           NEW k \in Int, NEW x \in Int, x = d + range * k
    PROVE  Signed(x, range) = d
<1>1. range \in Nat \ {0}
  BY SMT
<1>3. x % range = d % range
  BY <1>1, Congruent
<1>2. Signed(x, range) = Signed(d, range)
  BY <1>3, Zenon DEF Signed
<1> QED  BY <1>2, SignedIs

(* The difference of two counts, made signed, is that difference up to one *)
(* turn, and less than half the range away from 0 or half of it below.     *)
LEMMA Turn ==
    ASSUME NEW range \in Nat, range > 1, range % 2 = 0,
           NEW a \in 0 .. range - 1, NEW b \in 0 .. range - 1
    PROVE  \E j \in {-1, 0, 1} :
              /\ a - b = Signed(a - b, range) + range * j
              /\ -Half(range) <= Signed(a - b, range)
              /\ Signed(a - b, range) < Half(range)
<1>1. Half(range) \in Nat /\ range = 2 * Half(range)
  BY SMT DEF Half
<1> DEFINE d == a - b
<1>2. CASE d >= Half(range)
  <2> DEFINE e == d - range
  <2>1. -Half(range) <= e /\ e < Half(range) /\ e \in Int
    BY <1>1, <1>2, SMT
  <2>2. d \in Int /\ 1 \in Int /\ d = e + range * 1
    BY SMT
  <2> HIDE DEF d, e
  <2>3. Signed(d, range) = e
    BY <2>1, <2>2, SignedOf
  <2> QED  BY <2>1, <2>2, <2>3 DEF d
<1>3. CASE d < -Half(range)
  <2>1. -Half(range) <= d + range /\ d + range < Half(range) /\ d + range \in Int /\ -1 \in Int
    BY <1>1, <1>3, SMT
  <2>2. d \in Int /\ d = (d + range) + range * (-1)
    BY SMT
  <2>3. Signed(d, range) = d + range
    BY <2>1, <2>2, SignedOf
  <2> QED  BY <2>1, <2>2, <2>3
<1>4. CASE -Half(range) <= d /\ d < Half(range)
  <2>1. Signed(d, range) = d /\ d = d + range * 0
    BY <1>4, SignedIs, SMT
  <2> QED  BY <1>4, <2>1
<1>5. d \in Int
  BY SMT
<1> QED  BY <1>1, <1>2, <1>3, <1>4, <1>5, SMT

(* The range of both counters.                                             *)
LEMMA Range ==
    /\ UsRange \in Nat /\ UsRange > 1 /\ CountRange \in Nat /\ CountRange > 1
    /\ UsRange * CountRange \in Nat /\ UsRange * CountRange > 1
    /\ (UsRange * CountRange) % 2 = 0
    /\ Half(CountRange) \in Nat /\ CountRange = 2 * Half(CountRange)
    /\ Half(CountRange) >= 1
    /\ Half(UsRange * CountRange) = Half(CountRange) * UsRange
    /\ Half(CountRange) * UsRange >= UsRange
<1>1. Half(CountRange) \in Nat /\ CountRange = 2 * Half(CountRange) /\ Half(CountRange) >= 1
  BY UTimeAssumption, SMT DEF Half
<1> DEFINE h == Half(CountRange)
           p == h * UsRange
<1>2. p \in Nat /\ p >= UsRange
  <2> HIDE DEF h
  <2> QED  BY <1>1, UTimeAssumption, SMT DEF h
<1>3. UsRange * CountRange = p * 2 + 0
  <2> HIDE DEF h
  <2>1. UsRange * CountRange = UsRange * (2 * h)
    BY <1>1 DEF h
  <2>2. UsRange * (2 * h) = p * 2
    BY <1>1, UTimeAssumption, SMT DEF h
  <2> QED  BY <2>1, <2>2, <1>2, SMT
<1>4. (p * 2 + 0) \div 2 = p /\ (p * 2 + 0) % 2 = 0
  <2> HIDE DEF p
  <2> QED  BY <1>2, Division
<1> HIDE DEF p
<1>5. p * 2 + 0 \in Nat /\ p * 2 + 0 > 1
  BY <1>2, UTimeAssumption, SMT
<1> QED  BY <1>1, <1>2, <1>3, <1>4, <1>5, UTimeAssumption DEF Half, p
(* Numbers that are apart stay so when multiplied.                         *)
LEMMA Product ==
    ASSUME NEW u \in Nat, NEW x \in Int, NEW y \in Int, x <= y
    PROVE  x * u <= y * u /\ x * u \in Int /\ y * u \in Int
BY SMT

(* The time between two times of which neither is half a turn of the count *)
(* of overflows from the other: s is the difference of the counts.         *)
LEMMA SinceIs ==
    ASSUME NEW a \in UTimes, NEW b \in UTimes, NEW s \in Int, NEW j \in Int,
           a.n - b.n = s + CountRange * j,
           -Half(CountRange) < s, s < Half(CountRange)
    PROVE  Since(a, b) = s * UsRange + a.us - b.us
<1> DEFINE e == a.us - b.us
           d == s * UsRange + e
           x == (a.n - b.n) * UsRange + e
           h == Half(CountRange)
<1>1. e \in Int /\ -UsRange < e /\ e < UsRange /\ a.n - b.n \in Int
  BY UTimeAssumption, SMT DEF UTimes
<1>2. h \in Int /\ s <= h - 1 /\ 1 - h <= s /\ h - 1 \in Int /\ 1 - h \in Int
  BY Range, SMT DEF h
<1>3. /\ s * UsRange <= (h - 1) * UsRange /\ (1 - h) * UsRange <= s * UsRange
      /\ s * UsRange \in Int /\ (h - 1) * UsRange \in Int /\ (1 - h) * UsRange \in Int
  <2> HIDE DEF h
  <2> QED  BY <1>2, Range, Product
<1>4. (h - 1) * UsRange = h * UsRange - UsRange /\ (1 - h) * UsRange = UsRange - h * UsRange
  <2> HIDE DEF h
  <2> QED  BY <1>2, Range, SMT
<1>5. d \in Int /\ -(h * UsRange) <= d /\ d < h * UsRange
  <2> DEFINE p == s * UsRange
             q == h * UsRange
             v == (h - 1) * UsRange
             w == (1 - h) * UsRange
  <2>1. q \in Int
    <3> HIDE DEF h
    <3> QED  BY <1>2, Range, SMT
  <2> HIDE DEF e, p, q, v, w
  <2>2. p \in Int /\ p <= v /\ w <= p /\ v = q - UsRange /\ w = UsRange - q
    BY <1>3, <1>4 DEF p, q, v, w
  <2>3. p + e \in Int /\ -q <= p + e /\ p + e < q
    BY <2>1, <2>2, <1>1, Range, SMT
  <2> QED  BY <2>3 DEF p, q
<1>6. x = d + (UsRange * CountRange) * j /\ x \in Int
  <2>1. (a.n - b.n) * UsRange = (s + CountRange * j) * UsRange
    OBVIOUS
  <2>2. (s + CountRange * j) * UsRange = s * UsRange + (UsRange * CountRange) * j
    BY Range, SMT
  <2>3. (UsRange * CountRange) * j \in Int
    BY Range, SMT
  <2> DEFINE p == s * UsRange
             q == (UsRange * CountRange) * j
  <2> HIDE DEF e, p, q
  <2>4. p + q + e = p + e + q /\ p + q + e \in Int
    BY <1>1, <1>3, <2>3, SMT DEF p, q
  <2> QED  BY <2>1, <2>2, <2>4 DEF p, q
<1>7. Signed(x, UsRange * CountRange) = d
  <2> HIDE DEF x, d, h
  <2>1. Half(UsRange * CountRange) = h * UsRange
    BY Range DEF h
  <2> DEFINE r == UsRange * CountRange
  <2>2. r \in Nat /\ r > 1 /\ r % 2 = 0 /\ -Half(r) <= d /\ d < Half(r) /\ x = d + r * j
    BY <1>5, <1>6, <2>1, Range
  <2> HIDE DEF r
  <2>3. Signed(x, r) = d
    BY <1>5, <1>6, <2>2, SignedOf
  <2> QED  BY <2>3 DEF r
<1>8. Since(a, b) = Signed(x, UsRange * CountRange)
  <2>1. (a.n - b.n) * UsRange \in Int
    BY <1>1, Range, SMT
  <2>2. (a.n - b.n) * UsRange + a.us - b.us = x
    <3> DEFINE p == (a.n - b.n) * UsRange
    <3>1. a.us \in Int /\ b.us \in Int /\ p \in Int
      BY <2>1, UTimeAssumption, SMT DEF UTimes
    <3> HIDE DEF p
    <3>2. p + a.us - b.us = p + (a.us - b.us)
      BY <3>1, SMT
    <3> QED  BY <3>2 DEF p
  <2> QED  BY <2>2 DEF Since
<1>9. d = s * UsRange + a.us - b.us
  <2> DEFINE p == s * UsRange
  <2>1. a.us \in Int /\ b.us \in Int /\ p \in Int
    BY <1>3, UTimeAssumption, SMT DEF UTimes
  <2> HIDE DEF p
  <2>2. p + a.us - b.us = p + (a.us - b.us)
    BY <2>1, SMT
  <2> QED  BY <2>2 DEF p
<1> QED  BY <1>7, <1>8, <1>9
(* The comparisons of two times, which are made part by part, are right on *)
(* the whole range, unless the counts of overflows are exactly half a turn *)
(* apart.                                                                  *)
THEOREM LessIsBefore ==
    ASSUME NEW a \in UTimes, NEW b \in UTimes,
           Signed(a.n - b.n, CountRange) # -(CountRange \div 2)
    PROVE  /\ Less(a, b) <=> Since(a, b) < 0
           /\ Greater(a, b) <=> Since(a, b) > 0
<1> DEFINE s == Signed(a.n - b.n, CountRange)
           h == Half(CountRange)
<1>1. PICK j \in {-1, 0, 1} :
         a.n - b.n = s + CountRange * j /\ -h <= s /\ s < h
  <2>1. a.n \in 0 .. CountRange - 1 /\ b.n \in 0 .. CountRange - 1
    BY DEF UTimes
  <2> QED  BY <2>1, UTimeAssumption, Turn
<1>2. s \in Int /\ j \in Int /\ h \in Int /\ -h < s
  <2>1. s \in Int
    BY UTimeAssumption, SMT DEF Signed, UTimes
  <2> QED  BY <1>1, <2>1, Range, SMT DEF Half
<1>3. Since(a, b) = s * UsRange + a.us - b.us
  <2> HIDE DEF s
  <2> QED  BY <1>1, <1>2, SinceIs DEF s
<1>4. /\ Less(a, b) <=> s < 0 \/ (s = 0 /\ a.us < b.us)
      /\ Greater(a, b) <=> s > 0 \/ (s = 0 /\ a.us > b.us)
  BY DEF Less, Greater
<1> HIDE DEF s
<1>5. a.us \in 0 .. UsRange - 1 /\ b.us \in 0 .. UsRange - 1 /\ s * UsRange \in Int
  BY <1>2, Range, SMT DEF UTimes
<1> DEFINE p == s * UsRange
<1>6. /\ s <= -1 => p <= -UsRange
      /\ s >= 1 => p >= UsRange
      /\ s = 0 => p = 0
  BY <1>2, Range, SMT
<1> HIDE DEF p
<1>7. Since(a, b) = p + a.us - b.us /\ p \in Int
  BY <1>3, <1>5 DEF p
<1> QED  BY <1>2, <1>4, <1>5, <1>6, <1>7, Range, SMT

(* Adding a duration below a whole turn of the microseconds gives the time *)
(* that is so much later, even if both counters wrap.                      *)
THEOREM PlusIsLater ==
    ASSUME NEW a \in UTimes, NEW d \in 0 .. UsRange - 1, CountRange > 2
    PROVE  Plus(a, d) \in UTimes /\ Since(Plus(a, d), a) = d
<1> DEFINE c == Plus(a, d)
<1>1. a.us \in 0 .. UsRange - 1 /\ a.n \in 0 .. CountRange - 1
  BY DEF UTimes
<1>2. 0 \in Int /\ 1 \in Int /\ -1 \in Int
      /\ 0 < Half(CountRange) /\ 1 < Half(CountRange) /\ -Half(CountRange) < 0
      /\ -Half(CountRange) < 1
  BY Range, SMT
<1>3. CASE a.us + d < UsRange
  <2>1. c = [us |-> a.us + d, n |-> a.n]
    <3>1. a.us + d \in 0 .. UsRange - 1 /\ UsRange \in Nat \ {0}
      BY <1>1, <1>3, Range, SMT
    <3>2. (0 * UsRange + (a.us + d)) % UsRange = a.us + d
      BY <1>2, <3>1, Division
    <3>3. 0 * UsRange + (a.us + d) = a.us + d
      BY <3>1, SMT
    <3>4. ~(a.us + d >= UsRange)
      BY <1>1, <1>3, Range, SMT
    <3> QED  BY <3>2, <3>3, <3>4 DEF Plus
  <2>2. c \in UTimes
    BY <1>1, <1>3, <2>1, Range, SMT DEF UTimes
  <2>3. c.n - a.n = 0 + CountRange * 0
    BY <1>1, <2>1, Range, SMT
  <2> HIDE DEF c
  <2>4. Since(c, a) = 0 * UsRange + c.us - a.us
    BY <1>2, <2>2, <2>3, SinceIs
  <2>5. 0 * UsRange + c.us - a.us = d
    BY <1>1, <2>1, Range, SMT
  <2> QED  BY <2>2, <2>4, <2>5 DEF c
<1>4. CASE a.us + d >= UsRange
  <2>1. (a.us + d) % UsRange = a.us + d - UsRange
    <3> DEFINE r == a.us + d - UsRange
    <3>1. r \in 0 .. UsRange - 1 /\ UsRange \in Nat \ {0}
      BY <1>1, <1>4, Range, SMT
    <3>2. 1 * UsRange + r = a.us + d
      BY <1>1, Range, SMT
    <3> HIDE DEF r
    <3>3. (1 * UsRange + r) % UsRange = r
      BY <1>2, <3>1, Division
    <3> QED  BY <3>2, <3>3 DEF r
  <2>2. \E j \in {0, -1} : (a.n + 1) % CountRange = a.n + 1 + CountRange * j
                        /\ (a.n + 1) % CountRange \in 0 .. CountRange - 1
    <3>0. CountRange \in Nat \ {0}
      BY Range, SMT
    <3>1. CASE a.n + 1 < CountRange
      <4>1. a.n + 1 \in 0 .. CountRange - 1
        BY <1>1, <3>1, Range, SMT
      <4>2. (0 * CountRange + (a.n + 1)) % CountRange = a.n + 1
        BY <1>2, <3>0, <4>1, Division
      <4>3. 0 * CountRange + (a.n + 1) = a.n + 1 /\ a.n + 1 = a.n + 1 + CountRange * 0
        BY <1>1, Range, SMT
      <4> QED  BY <4>1, <4>2, <4>3
    <3>2. CASE a.n + 1 >= CountRange
      <4>1. a.n + 1 = 1 * CountRange + 0 /\ 0 \in 0 .. CountRange - 1
            /\ 0 = a.n + 1 + CountRange * (-1)
        BY <1>1, <3>2, Range, SMT
      <4>2. (1 * CountRange + 0) % CountRange = 0
        BY <1>2, <3>0, <4>1, Division
      <4> QED  BY <4>1, <4>2
    <3> QED  BY <1>1, <3>1, <3>2, Range, SMT
  <2>3. PICK j \in {0, -1} : (a.n + 1) % CountRange = a.n + 1 + CountRange * j
                          /\ (a.n + 1) % CountRange \in 0 .. CountRange - 1
    BY <2>2
  <2>4. c = [us |-> a.us + d - UsRange, n |-> a.n + 1 + CountRange * j]
    BY <1>4, <2>1, <2>3 DEF Plus
  <2>5. c \in UTimes
    BY <1>1, <1>4, <2>3, <2>4, Range, SMT DEF UTimes
  <2>6. c.n - a.n = 1 + CountRange * j /\ j \in Int
    <3> DEFINE p == CountRange * j
    <3>1. p \in Int /\ j \in Int
      BY Range, SMT
    <3> HIDE DEF p
    <3>2. c.n = a.n + 1 + p
      BY <2>4 DEF p
    <3>3. c.n - a.n = 1 + p
      BY <1>1, <3>1, <3>2, SMT
    <3> QED  BY <3>1, <3>3 DEF p
  <2> HIDE DEF c
  <2>7. Since(c, a) = 1 * UsRange + c.us - a.us
    BY <1>2, <2>5, <2>6, SinceIs
  <2>8. 1 * UsRange + c.us - a.us = d
    BY <1>1, <2>4, Range, SMT
  <2> QED  BY <2>5, <2>7, <2>8 DEF c
<1> QED  BY <1>1, <1>3, <1>4, Range, SMT

(* The difference of two times is exact up to half a turn of the           *)
(* microseconds, if the counts of overflows, which it subtracts as they    *)
(* are, have not wrapped between them.                                     *)
THEOREM MinusIsExact ==
    ASSUME NEW a \in UTimes, NEW b \in UTimes, CountRange > 2,
           a.n - b.n \in {-1, 0, 1},
           -(UsRange \div 2) <= Since(a, b), Since(a, b) < UsRange \div 2
    PROVE  Minus(a, b) = Since(a, b)
<1> DEFINE k == a.n - b.n
           e == a.us - b.us
           h == UsRange \div 2
<1>1. /\ a.us \in 0 .. UsRange - 1 /\ b.us \in 0 .. UsRange - 1
      /\ h \in Nat /\ UsRange = 2 * h /\ -h \in Int /\ h >= 1
      /\ e \in Int
  BY UTimeAssumption, SMT DEF UTimes
<1>2. Since(a, b) = k * UsRange + a.us - b.us
  <2>1. k \in Int /\ 0 \in Int /\ k = k + CountRange * 0
        /\ -Half(CountRange) < k /\ k < Half(CountRange)
    BY Range, SMT
  <2> QED  BY <2>1, SinceIs
<1>3. ASSUME -h <= e, e < h PROVE Signed(e, UsRange) = e
  BY <1>1, <1>3, UTimeAssumption, SignedIs DEF Half
<1>4. ASSUME NEW j \in {-1, 1}, -h <= e + UsRange * j, e + UsRange * j < h
      PROVE  Signed(e, UsRange) = e + UsRange * j
  <2> DEFINE f == e + UsRange * j
             i == -j
  <2>1. f \in Int /\ i \in Int /\ e = f + UsRange * i
    BY <1>1, Range, SMT
  <2>2. UsRange \in Nat /\ UsRange > 1 /\ UsRange % 2 = 0
        /\ -Half(UsRange) <= f /\ f < Half(UsRange)
    BY <1>4, UTimeAssumption DEF Half
  <2> HIDE DEF e, f, i
  <2>3. Signed(e, UsRange) = f
    BY <1>1, <2>1, <2>2, SignedOf
  <2> QED  BY <2>3 DEF f
<1>5. CASE k = 0
  <2>1. Since(a, b) = e
    BY <1>1, <1>2, <1>5, Range, SMT
  <2>2. Signed(e, UsRange) = e
    BY <1>3, <2>1
  <2> QED  BY <1>1, <1>5, <2>1, <2>2, SMT DEF Minus
<1>6. CASE k = 1
  <2>1. Since(a, b) = e + UsRange * 1
    BY <1>1, <1>2, <1>6, Range, SMT
  <2>2. Signed(e, UsRange) = e + UsRange * 1
    BY <1>4, <2>1
  <2> QED  BY <1>1, <1>6, <2>1, <2>2, Range, SMT DEF Minus
<1>7. CASE k = -1
  <2>1. Since(a, b) = e + UsRange * (-1)
    BY <1>1, <1>2, <1>7, Range, SMT
  <2>2. Signed(e, UsRange) = e + UsRange * (-1)
    BY <1>4, <2>1
  <2> QED  BY <1>1, <1>7, <2>1, <2>2, Range, SMT DEF Minus
<1> QED  BY <1>5, <1>6, <1>7
-----------------------------------------------------------------------------
Safe == LoopTypeOK /\ NeverEarly

(* The time between two times with the same count of overflows.            *)
LEMMA SameCount ==
    ASSUME NEW a \in UTimes, NEW b \in UTimes, a.n = b.n
    PROVE  Since(a, b) = a.us - b.us
<1>1. 0 \in Int /\ a.n - b.n = 0 + CountRange * 0 /\ -Half(CountRange) < 0 /\ 0 < Half(CountRange)
  BY Range, SMT DEF UTimes
<1>2. Since(a, b) = 0 * UsRange + a.us - b.us
  BY <1>1, SinceIs
<1> QED  BY <1>2, Range, SMT DEF UTimes

(* A time and a duration make a time.                                      *)
LEMMA PlusType ==
    ASSUME NEW a \in UTimes, NEW d \in Nat
    PROVE  Plus(a, d) \in UTimes
<1>1. a.us + d \in Int /\ a.n + 1 \in Int /\ a.n \in 0 .. CountRange - 1
      /\ UsRange \in Nat \ {0} /\ CountRange \in Nat \ {0}
  BY Range, SMT DEF UTimes
<1>2. (a.us + d) % UsRange \in 0 .. UsRange - 1 /\ (a.n + 1) % CountRange \in 0 .. CountRange - 1
  BY <1>1, Euclid
<1> QED  BY <1>1, <1>2 DEF Plus, UTimes

(* The wait for a task ends when the task is due: at its time, or after it *)
(* if it was late.                                                         *)
LEMMA WaitEnds ==
    ASSUME NEW a \in UTimes, NEW b \in UTimes, NEW d \in Nat,
           Minus(a, b) < UsRange,
           d = IF Minus(a, b) > 0 THEN Minus(a, b) ELSE 0,
           a.n >= Plus(b, d).n
    PROVE  Since(Plus(b, d), a) >= 0
<1> DEFINE c == Plus(b, d)
           e == a.us - b.us
<1>1. /\ a.us \in 0 .. UsRange - 1 /\ b.us \in 0 .. UsRange - 1
      /\ a.n \in 0 .. CountRange - 1 /\ b.n \in 0 .. CountRange - 1
  BY DEF UTimes
<1>2. c \in UTimes
  BY PlusType
<1>3. CASE Minus(a, b) > 0
  <2>1. d = Minus(a, b) /\ d > 0 /\ d < UsRange
    BY <1>3
  <2>2. /\ a.n - b.n \in {0, 1} /\ (a.n - b.n = 1 => a.us < b.us)
        /\ (a.n = b.n => a.us >= b.us) /\ d = Signed(e, UsRange)
    BY <1>1, <2>1, Range, SMT DEF Minus, Far
  <2>3. d = e \/ d = e + UsRange
    <3>1. d = e % UsRange \/ d = (e % UsRange) - UsRange
      BY <2>2 DEF Signed
    <3>2. e \in Int /\ UsRange \in Nat \ {0} /\ e % UsRange \in Int
      BY <1>1, Range, SMT
    <3>3. e % UsRange \in 0 .. UsRange - 1
      BY <3>2, Euclid
    <3>4. d = e % UsRange
      BY <2>1, <3>1, <3>3, Range, SMT
    <3>5. e >= 0 => e % UsRange = e
      <4>1. e >= 0 => (0 * UsRange + e) % UsRange = e
        <5> SUFFICES ASSUME e >= 0 PROVE (0 * UsRange + e) % UsRange = e
          OBVIOUS
        <5>1. e \in 0 .. UsRange - 1 /\ 0 \in Int
          BY <1>1, Range, SMT
        <5> QED  BY <3>2, <5>1, Division
      <4>2. 0 * UsRange + e = e
        BY <3>2, SMT
      <4> QED  BY <4>1, <4>2
    <3>6. e < 0 => e % UsRange = e + UsRange
      <4> SUFFICES ASSUME e < 0 PROVE e % UsRange = e + UsRange
        OBVIOUS
      <4> DEFINE q == -1
                 r == e + UsRange
      <4>1. q \in Int /\ r \in 0 .. UsRange - 1
        BY <1>1, Range, SMT
      <4>2. q * UsRange + r = e
        BY <3>2, SMT
      <4> HIDE DEF e, q, r
      <4>3. (q * UsRange + r) % UsRange = r
        BY <3>2, <4>1, Division
      <4> QED  BY <4>2, <4>3 DEF r
    <3> QED  BY <3>2, <3>4, <3>5, <3>6, SMT
  <2>4. c.us = a.us
    <3>1. b.us + d = a.us \/ b.us + d = a.us + UsRange
      BY <1>1, <2>3, Range, SMT
    <3>2. (0 * UsRange + a.us) % UsRange = a.us /\ (1 * UsRange + a.us) % UsRange = a.us
      <4>1. 0 \in Int /\ 1 \in Int /\ UsRange \in Nat \ {0}
        BY Range, SMT
      <4> QED  BY <1>1, <4>1, Division
    <3>3. 0 * UsRange + a.us = a.us /\ 1 * UsRange + a.us = a.us + UsRange
      BY <1>1, Range, SMT
    <3>4. (b.us + d) % UsRange = a.us
      BY <3>1, <3>2, <3>3
    <3> QED  BY <3>4 DEF Plus
  <2>5. c.n = a.n
    <3>1. CASE a.n = b.n
      <4>1. ~(b.us + d >= UsRange)
        BY <1>1, <2>1, <2>2, <2>3, <3>1, Range, SMT
      <4> QED  BY <3>1, <4>1 DEF Plus
    <3>2. CASE a.n - b.n = 1
      <4>1. b.us + d >= UsRange
        BY <1>1, <2>1, <2>2, <2>3, <3>2, Range, SMT
      <4>2. b.n + 1 = a.n /\ 0 \in Int /\ CountRange \in Nat \ {0} /\ 0 * CountRange + a.n = a.n
        BY <1>1, <3>2, Range, SMT
      <4>3. (0 * CountRange + a.n) % CountRange = a.n
        BY <1>1, <4>2, Division
      <4> QED  BY <4>1, <4>2, <4>3 DEF Plus
    <3> QED  BY <1>1, <2>2, <3>1, <3>2, Range, SMT
  <2> HIDE DEF c
  <2>6. Since(c, a) = c.us - a.us
    BY <1>2, <2>5, SameCount
  <2> QED  BY <1>1, <2>4, <2>6, SMT DEF c
<1>4. CASE ~(Minus(a, b) > 0)
  <2>1. d = 0 /\ c = b
    <3>1. d = 0
      BY <1>4
    <3>2. b.us + 0 = b.us /\ ~(b.us + 0 >= UsRange)
          /\ 0 * UsRange + b.us = b.us /\ UsRange \in Nat \ {0} /\ 0 \in Int
      BY <1>1, Range, SMT
    <3>3. (0 * UsRange + b.us) % UsRange = b.us
      BY <1>1, <3>2, Division
    <3>4. (b.us + 0) % UsRange = b.us
      BY <3>2, <3>3
    <3>5. c = [us |-> b.us, n |-> b.n]
      BY <3>1, <3>2, <3>4 DEF Plus
    <3> QED  BY <3>1, <3>5 DEF UTimes
  <2>2. a.n = b.n /\ a.us <= b.us
    <3>1. a.n >= b.n
      BY <2>1
    <3>2. e \in Int /\ Signed(e, UsRange) \in Int
      BY <1>1, Range, SMT DEF Signed
    <3>3. CASE a.n > b.n \/ a.us > b.us
      <4>1. /\ ~(Signed(e, UsRange) > 0)
            /\ a.n - b.n > 0 \/ (a.n - b.n = 0 /\ a.us >= b.us)
            /\ a.n - b.n = 0 \/ (a.n - b.n = 1 /\ a.us < b.us)
            /\ Signed(e, UsRange) >= 0
        BY <1>1, <1>4, <3>1, <3>2, <3>3, Range, SMT DEF Minus, Far
      <4>2. Signed(e, UsRange) = 0
        BY <3>2, <4>1, SMT
      <4>3. e # 0 /\ -UsRange < e /\ e < UsRange
        BY <1>1, <3>3, <4>1, Range, SMT
      <4>4. e % UsRange = 0
        <5>1. UsRange \in Nat \ {0}
          BY Range, SMT
        <5>2. e % UsRange \in 0 .. UsRange - 1
          BY <3>2, <5>1, Euclid
        <5>3. e % UsRange = 0 \/ e % UsRange = UsRange
          BY <4>2, <5>2, Range, SMT DEF Signed
        <5> QED  BY <5>2, <5>3, Range, SMT
      <4>5. UsRange \in Nat \ {0}
        BY Range, SMT
      <4> HIDE DEF e
      <4>6. e = 0
        BY <3>2, <4>3, <4>4, <4>5, SmallMultiple
      <4> QED  BY <4>3, <4>6
    <3> QED  BY <1>1, <3>1, <3>3, Range, SMT
  <2>3. Since(b, a) = b.us - a.us
    BY <2>2, SameCount
  <2> QED  BY <1>1, <2>1, <2>2, <2>3, SMT
<1> QED  BY <1>3, <1>4
(* What a task announces, and the times that are reached.                  *)
LEMMA StepType ==
    ASSUME LoopTypeOK, NEW t \in Tasks
    PROVE  /\ step(t) \in Step
           /\ (task[t].step % Len(Steps[t])) + 1 \in DOMAIN Steps[t]
           /\ (task[t].step % Len(Steps[t])) + 1 \in Nat
<1>1. Steps[t] \in Seq(Step) /\ Steps[t] # <<>> /\ task[t].step \in DOMAIN Steps[t]
      /\ task[t].step \in Nat
  BY SchedulerAssumption DEF LoopTypeOK
<1> DEFINE n == Len(Steps[t])
           i == task[t].step
<1>2. n \in Nat /\ DOMAIN Steps[t] = 1 .. n /\ step(t) \in Step
  BY <1>1 DEF step
<1> HIDE DEF i, n
<1>3. i \in 1 .. n
  BY <1>1, <1>2 DEF i
<1>4. n \in Nat \ {0} /\ i \in Int
  BY <1>2, <1>3, SMT
<1>5. i % n \in 0 .. n - 1
  BY <1>4, Euclid
<1>6. (i % n) + 1 \in 1 .. n /\ (i % n) + 1 \in Nat
  BY <1>4, <1>5, SMT
<1> QED  BY <1>2, <1>6 DEF i, n

LEMMA InitSafe == LoopInit => Safe
<1> SUFFICES ASSUME LoopInit PROVE Safe
  OBVIOUS
<1>1. now \in UTimes
  BY Range, SMT DEF LoopInit, UTimes
<1>2. ASSUME NEW t \in Tasks PROVE 1 \in DOMAIN Steps[t]
  <2>1. Steps[t] \in Seq(Step) /\ Steps[t] # <<>>
    BY SchedulerAssumption
  <2> QED  BY <2>1
<1>3. task \in [Tasks -> [next : UTimes, never : BOOLEAN, step : Nat]]
  <2>1. \A t \in Tasks : (t \in Movers) \in BOOLEAN
    OBVIOUS
  <2> QED  BY <1>1, <2>1 DEF LoopInit
<1>4. \A t \in Tasks : task[t].step = 1
  BY DEF LoopInit
<1>5. LoopTypeOK
  BY <1>1, <1>2, <1>3, <1>4 DEF LoopInit, LoopTypeOK
<1>6. current = None
  BY DEF LoopInit
<1>7. NeverEarly
  BY <1>6, SchedulerAssumption DEF NeverEarly
<1> QED  BY <1>5, <1>7 DEF Safe

LEMMA PassSafe == Safe /\ Pass => Safe'
<1> SUFFICES ASSUME Safe, Pass PROVE Safe'
  OBVIOUS
<1>1. LoopTypeOK /\ now \in UTimes
  BY DEF Safe, LoopTypeOK
<1>2. CASE Skip
  <2>1. now' \in UTimes
    <3>1. 1 \in Nat
      OBVIOUS
    <3> QED  BY <1>1, <1>2, <3>1, PlusType DEF Skip
  <2>2. current' = None
    BY <1>2 DEF Skip, Pass
  <2>3. LoopTypeOK'
    BY <1>1, <1>2, <2>1 DEF Skip, LoopTypeOK
  <2>4. NeverEarly'
    BY <2>2, SchedulerAssumption DEF NeverEarly
  <2> QED  BY <2>3, <2>4 DEF Safe
<1>3. ASSUME NEW t \in Tasks, Begin(t) PROVE Safe'
  <2>1. task[t].next \in UTimes
    BY <1>1 DEF LoopTypeOK
  <2>2. Immediate \in Nat /\ Immediate < UsRange
    BY SchedulerAssumption, Range, SMT
  <2>3. Minus(next(t), now) \in Int
    BY <1>1, <2>1, Range, SMT DEF Minus, Signed, Far, UTimes, next
  <2>4. Minus(next(t), now) < UsRange
    BY <1>3, <2>2, <2>3, Range, SMT DEF Begin
  <2>5. Wait(t) \in Nat
    BY <2>3, SMT DEF Wait
  <2>6. now' \in UTimes /\ now' = Plus(now, Wait(t))
    BY <1>1, <1>3, <2>5, PlusType DEF Begin
  <2>7. LoopTypeOK'
    BY <1>1, <1>3, <2>6 DEF Begin, LoopTypeOK
  <2>8. NeverEarly'
    <3> SUFFICES ASSUME NEW u \in Tasks, current' = u, next(u)'.n >= now'.n
                 PROVE  Since(now', next(u)') >= 0
      BY DEF NeverEarly
    <3>1. u = t /\ next(u)' = next(t)
      BY <1>3 DEF Begin, next
    <3>2. next(t) \in UTimes /\ next(t).n >= Plus(now, Wait(t)).n
      BY <2>1, <2>6, <3>1 DEF next
    <3>3. Wait(t) = IF Minus(next(t), now) > 0 THEN Minus(next(t), now) ELSE 0
      BY DEF Wait
    <3>4. Since(Plus(now, Wait(t)), next(t)) >= 0
      BY <1>1, <2>4, <2>5, <3>2, <3>3, WaitEnds
    <3> QED  BY <2>6, <3>1, <3>4
  <2> QED  BY <2>7, <2>8 DEF Safe
<1>4. Skip \/ \E t \in Tasks : Begin(t)
  <2>1. PICK urgent \in {Urgent} : \E late \in {Late(urgent)} :
          \E chosen \in {Chosen(urgent, late)} :
              (\E t \in chosen : Begin(t)) \/ Skip
    BY Zenon DEF Pass
  <2>2. PICK late \in {Late(urgent)} : (\E t \in Chosen(urgent, late) : Begin(t)) \/ Skip
    BY <2>1, Zenon
  <2>3. Urgent \subseteq Tasks /\ late \subseteq Tasks
    BY <2>2 DEF Urgent, Late, FirstDue, Active
  <2>4. Chosen(urgent, late) \subseteq Tasks
    BY <2>1, <2>3 DEF Chosen, FirstDue
  <2> QED  BY <2>2, <2>4, Zenon
<1> QED  BY <1>2, <1>3, <1>4

LEMMA EndSafe == Safe /\ End => Safe'
<1> SUFFICES ASSUME Safe, End PROVE Safe'
  OBVIOUS
<1>1. LoopTypeOK /\ now \in UTimes /\ current \in Tasks
  BY DEF Safe, LoopTypeOK, End
<1>2. now' \in UTimes
  <2>1. PICK d \in 0 .. step(current).takes : now' = Plus(now, d)
    BY DEF End
  <2>2. d \in Nat
    BY SMT
  <2> QED  BY <1>1, <2>1, <2>2, PlusType
<1>3. ASSUME NEW x \in Again(current)
      PROVE  x \in [next : UTimes, never : BOOLEAN, step : Nat] /\ x.step \in DOMAIN Steps[current]
  <2> DEFINE later(d) == IF current \in Movers THEN Plus(next(current), d) ELSE Plus(now', d)
             max(a) == IF Less(a, now') THEN now' ELSE a
             following == (task[current].step % Len(Steps[current])) + 1
  <2>1. CASE \E d \in step(current).delays : x = [next |-> max(later(d)), never |-> FALSE, step |-> following]
    <3>1. PICK d \in step(current).delays : x = [next |-> max(later(d)), never |-> FALSE, step |-> following]
      BY <2>1
    <3>2. d \in 1 .. UsRange - 1
      BY <1>1, StepType DEF Step
    <3>3. d \in Nat
      BY <3>2, SMT
    <3>4. next(current) \in UTimes
      BY <1>1 DEF LoopTypeOK, next
    <3>5. later(d) \in UTimes
      BY <1>2, <3>3, <3>4, PlusType
    <3>6. max(later(d)) \in UTimes
      BY <1>2, <3>5
    <3>7. following \in DOMAIN Steps[current] /\ following \in Nat
      BY <1>1, StepType
    <3> HIDE DEF later, max, following
    <3> QED  BY <3>1, <3>6, <3>7
  <2>2. CASE x = [task[current] EXCEPT !.never = TRUE]
    BY <1>1, <2>2 DEF LoopTypeOK
  <2>3. \/ \E d \in step(current).delays : x = [next |-> max(later(d)), never |-> FALSE, step |-> following]
        \/ x = [task[current] EXCEPT !.never = TRUE]
    BY Zenon DEF Again
  <2> QED  BY <2>1, <2>2, <2>3, Zenon
<1>4. PICK x \in Again(current), S \in SUBSET Idle(current) :
          task' = [Started(S) EXCEPT ![current] = x]
  BY Zenon DEF End
<1>5. ASSUME NEW t \in Tasks
      PROVE  task'[t] \in [next : UTimes, never : BOOLEAN, step : Nat]
             /\ task'[t].step \in DOMAIN Steps[t]
  <2>1. CASE t = current
    <3>1. task'[t] = x
      BY <1>4, <2>1 DEF Started
    <3> QED  BY <1>3, <2>1, <3>1
  <2>2. CASE t # current /\ t \in S
    <3>1. task'[t] = [task[t] EXCEPT !.next = Plus(now', Immediate), !.never = FALSE]
      BY <1>4, <2>2 DEF Started
    <3>2. Plus(now', Immediate) \in UTimes
      <4>1. Immediate \in Nat
        BY SchedulerAssumption, Range, SMT
      <4> QED  BY <1>2, <4>1, PlusType
    <3> QED  BY <1>1, <3>1, <3>2 DEF LoopTypeOK
  <2>3. CASE t # current /\ t \notin S
    <3>1. task'[t] = task[t]
      BY <1>4, <2>3 DEF Started
    <3> QED  BY <1>1, <3>1 DEF LoopTypeOK
  <2> QED  BY <2>1, <2>2, <2>3
<1>6. current' = None
  BY DEF End
<1>7. LoopTypeOK'
  <2>1. task' \in [Tasks -> [next : UTimes, never : BOOLEAN, step : Nat]]
    BY <1>4, <1>5, Zenon DEF Started
  <2> QED  BY <1>2, <1>5, <1>6, <2>1 DEF LoopTypeOK
<1>8. NeverEarly'
  BY <1>6, SchedulerAssumption DEF NeverEarly
<1> QED  BY <1>7, <1>8 DEF Safe

LEMMA NextSafe == Safe /\ [LoopNext]_loopVars => Safe'
<1>1. ASSUME Safe, UNCHANGED loopVars PROVE Safe'
  BY <1>1 DEF Safe, LoopTypeOK, NeverEarly, loopVars, next
<1> QED  BY <1>1, PassSafe, EndSafe DEF LoopNext

(* The clock, the next tick and the step of every task are of their types: *)
(* no task goes past its steps.                                            *)
THEOREM LoopTypeCorrect == LoopSpec => []LoopTypeOK
<1>1. Safe => LoopTypeOK
  BY DEF Safe
<1> QED  BY InitSafe, NextSafe, <1>1, PTL DEF LoopSpec

(* No task runs before it is due, whatever the ticks do and however late   *)
(* they end, as long as the count of overflows has not wrapped.            *)
THEOREM NothingRunsEarly == LoopSpec => []NeverEarly
<1>1. Safe => NeverEarly
  BY DEF Safe
<1> QED  BY InitSafe, NextSafe, <1>1, PTL DEF LoopSpec
=============================================================================
