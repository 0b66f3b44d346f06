# Models, checks and proofs of INDI all-in-one

INDI all-in-one is a micro-controller firmware (`src/ucontroler`) that drives
astronomy hardware - a filter wheel, a focuser, dew heaters, a weather sensor,
a power meter - and the INDI driver (`src/indi_driver`) that publishes it on a
PC. Both ends compile the same classes for vectors and protocol. This directory
holds TLA+ models of the parts where order, crashes, threads or wrap-around
make the code hard to test, the TLC runs that check them, and TLAPS proofs.

`PROJECT.json` maps each definition to the lines it models, and lists the
components, runs, mutants (one plausible bug for each property, which the run
must find), findings, hazards and theorems.

## 1. The system

| component | state | operations | what makes it correct |
|---|---|---|---|
| Notification bookkeeping (`IndiVector`, `IndiProtocol`, `IndiDevice`) | per client and vector, bits of unsent news; per client, a linked list threaded through an array | `notifyUpdate`, `setDirty`, `dirtied`, `popDirty`, `reset` | a vector with news is listed; lists are never cut or closed; none starves |
| Device protocol (`IndiProtocol`, `ScheduledIndiProtocol`, `BinSerial*`, `BinRequestProcessor`) | packet being written, answer, welcome flag, packet received | `tick`, `idle`, `fillBuffer`, request, restart | no change is lost between the device and a connected driver, across resets of either |
| Driver protocol and images (`CustomIndiProtocol`, `IndiVectorImage` in `allinone.cpp`) | one queued request; list of vectors; images; tables by uid and name | `announced`, `updated`, `announceAll`, `newNumber`..., `destroy` | the tables agree; no update of an announced vector lands on a deleted one; clients see the last value |
| Driver threads (`SimpleDevice` in `allinone.cpp`) | recursive mutex, flags, pipe, condition variable, protocol pointer | `Handshake`, `beforeDisconnect`, `killBackgroundProcessor`, `backgroundProcessor`, handlers | no use after delete; disconnecting returns; an accepted request is served |
| Motor (`Motor`) | position, target, intermediate target, speed | `setTargetPosition`, `loadPosition`, `tick` | a motor that is off has arrived |
| Filter wheel (`FilterWheel`) | calibration, shown vectors, positions of the slots, saved position | its change handlers, `onProgress`, `loadInitialSettings` | no power cut makes it believe in a position it left, unless it comes in the middle of a save; a wheel at rest shows the truth |
| EEPROM store (`EepromStored`, `EepromVectorMemberStorage`) | cells, place of each item, counter of writes, levels | `init`, `findPos`, `write`, `fullRewrite`, `inc` | what is at rest is found again; a power cut damages one value; wear is noticed |
| Dew heater (`DewHeater`, two of them) | sensor found or not, temperature, power mode, PID, slots of settings in common | `scan`, `startMeasure`, `endMeasure`, `powerModeChanged`, save, forget, reload | no heating without a temperature; one slot per sensor; a sensor that is there is used |
| Scheduler and time (`Scheduler`, `Scheduled`, `UTime`) | tasks with a next tick, a priority, an expected duration; a 32 bit counter and its overflows | `loop`, `now`, `+`, `-`, `<` | urgent tasks are not delayed by others; nothing runs early; every task runs |
| Focuser (`Focuser`) | a motor, the position shown and saved, settings | its change handlers, `onProgress`, `loadInitialSettings` | a focuser at rest is known; its coils keep their place |
| Vectors of switches, request reader (`IndiSwitchVector`, `IndiVector::doUpdate`, `BinSerialReadBuffer`, `IndiProtocol::received`) | members, the one that is on; the packet that is received; the request that is applied | `received`, `internalReadAndApply`, `doUpdate`, `refreshActiveOne`, callbacks | what is applied is what was received, and what was asked if nothing became another value on the line; one switch is on; what changed is told, also when a request fails half-way |
| Weather sensor, power meter, status (`MeteoTemp`, `WattMeter`, `Status`) | the step of a measure, the values | `tick` | seen by the dew heaters and by the scheduler only |
| Packet encoding, members, base driver, set-up | bytes, values, capabilities | reading and writing | requests and their members only, see 7 |

Interactions. The hardware tasks and the protocol of every serial port are tasks
of one cooperative `Scheduler`; nothing preempts them, but writing the EEPROM
calls `idle()` between bytes, which receives packets. A hardware task changes a
vector; the vector tells every protocol; a protocol ticks, pops a dirty vector
and writes an announce or an update, byte by byte as the port has room. The
driver's background thread reads bytes, keeps a copy of the vectors, and
publishes them; the INDI main loop queues requests that the thread writes.

What is hard: the queue has no membership flag; either end restarts with
packets of before on the line; the pseudo BUSY answer to a request must not be
the last word; a thread ends a connection that the main loop ends at the same
time; positions wrap and are renamed in motion; the power may be cut between
two bytes of the EEPROM; a request is received over the one that is being
applied. Every one of these is a hazard in `PROJECT.json`, at
its line.

## 2. The modules and the code

**NotifPending** is the promise: a set of pending vectors per client and the news
of each. **DirtyList** is the code: `dirty` are the notification bits of
`IndiVector`, `nextDirtyVector`, `firstDirtyVector`, `lastDirtyVector` the list of
`IndiProtocol`. An operation is one action, as none yields. `PromiseKept` is the
refinement, with `pending` mapped to the vectors that the test of `dirtied` calls
listed.

**IndiLink** composes the two ends over one line. `Tick` is a whole
`ScheduledIndiProtocol::tick`: apply what was received, fill the buffer (answer,
then welcome, then the first dirty vector), write. The list is the queue that
DirtyList implements. Driver actions run under the mutex and are one action
each. A value is its version number; a packet is atomic, since a receiver drops
a packet cut short at the next start byte. `Noise` garbles packets towards the
device: one whose start or end byte is hit is dropped without a trace, another does
not parse (`BAD`, and the device starts again) or is another request. Dropped in
silence, the RESTARTED of a new connection is never sent again, and the driver is
connected and told nothing; `lost` is the history variable that says that the last packet
that would have made the device start again was dropped, and the properties say what
holds as long as it was not. Nothing in the code recovers an update garbled towards the
driver, and no text promises that it does: that direction has no noise, and the
driver does not reset on a packet that it refuses (`allinone.cpp:249`). `HalfWay` is the request that fails because
the next packet came over it (Requests shows how). MUTATION packets and hidden vectors are left
out, as nothing is hidden or renamed once the protocol runs.

**DriverImages** details what the driver does with announces and updates. Object
identity is kept: a list entry is the vector of an image, or one that only the
list knows, or freed memory. `Busy` is the pseudo BUSY that answers a request: the device
sends it before the welcome and before any announce, so one for a uid that was
asked through an old image (`asked`) comes at any moment, also between the announces of
another firmware (`changed`). There it may meet no vector (refused), a vector without an
image (the null pointer ends the driver, `Dies`) or one that was deleted (whatever
the heap makes of it): nothing in the code excludes these, and `UpdatesLand` says
when they cannot happen. `DRIVER_INFO`, which makes no image, is left out.

**DriverThread** has the locks of `SimpleDevice`. Places name the code between two
blocking points; the main loop's mutex is recursive only for the thread that
ends its own connection, which is one action. What INDI::DefaultDevice does
(the CONNECTION property, its calls to `Handshake` and `Disconnect`) is modelled
from its use here.

**Requests** is one request, byte by byte: the driver encodes it, bytes are
received into the one buffer of `IndiProtocol`, a tick frees the buffer and
applies the packet from it. `Begin` is the first pass (the offsets of the values),
`Apply` reads and saves one member, `Applied` ends `doUpdate`, `End` ends the callback
and the packet. `Receive` happens between two ticks and, since a byte saved
yields to `idle`, after each member that was saved: these are the only places where
the code lets it happen. A byte may be lost or become another one; as a packet has no
checksum, one that may stand there (a value, a count, a uid, a start, an end) is taken
for what was sent. `wrong` remembers that a byte of the packet in the buffer did so. Two vectors of switches are the mode of a dew heater
and its operation, whose callback saves the mode, loads it again, and sets
another switch; its FORGET member is in DewHeater. What a client has (`shown`) is
the value, an older one, or BUSY; the packets on the way to the driver are those
of IndiLink. A value is one byte, whatever its type. `ActiveOne` is
`refreshActiveOne`, which takes the number of members as a parameter.

**Motor**, **FilterWheel** and **Focuser**: operators on a motor record, one per
method, and the handlers of the wheel and of the focuser as actions composed of
them. The sensor of the wheel reads anything at any time. The clients give the slots
other positions (`FilterPositionsChanged`: no callback looks at it) and the focuser another
greatest speed in motion, 0 included. A power cycle may come between any two handlers
and, while the settings are written byte by byte (`writing`), in the middle of a save: the
position that is then loaded is any of `Torn`, a mix of old and new bytes. The lengths of
the pulses are left out. The focuser adds `rotor`, the place of the rotor as the
phase that pulled it there: `setOutput` places the coils by the name of the
position, and the rotor follows. **Motors** puts both in one specification.

**EepromStored** is the store cell by cell. An operation (`write`, `fullRewrite`)
computes the list of cells that it writes; `Finish` writes them all and `PowerCycle`
any number of them, then boots, maybe with another firmware. The list also has the
cells that `eWrite8` skips because they do not change: they make no difference to the
EEPROM, and a write or a cut that would change nothing is not a step. `Turn` is a turn
of the loop of `findPos`, which makes at most one per cell; `Image` is what `fullRewrite`
leaves in a cell. Nothing else happens in between, because
`Scheduler::yield` only receives bytes. A head is one cell here and four in the
code, and a byte has `Base` values. `wear` and `cut` are history variables.

**DewHeater** has one record per heater and the slots that they share. A level
is zero, the fixed one, what the PID computed, or undefined (a NaN); of the
settings only the power mode is kept. `Plug` replaces the sensor of a wire at any
time. A sensor that is not there and one that answers rubbish are the same. Until the
first save (`written`) a slot is whatever the memory that was allocated held: empty, or
an address of no sensor.

**UTime** is the arithmetic of the clock, part by part as in the code, with
`Since` as the reference over the whole range; `Greater` is an operator of its own, as the
code's `>` and `<` differ half a turn apart. **Scheduler** is `Scheduler::loop`:
`Pass` chooses a task and waits for it if it is due within `Immediate`, `End` is its
tick. What a tick does is given by constants: priorities, durations and delays.
The weather sensor, which changes its own priority, and the motors, which count
from the time they were due and stop, are cases of them. A tick may start a motor that
stopped, or pull the last tick of one that has arrived forward.

## 3. The runs

Every property of a passing run has a mutant that breaks it under the same
configuration.

| run | bounds | what it shows |
|---|---|---|
| dirty_list | 2 ports, 2 vectors | the bits and the lists agree, the lists are chains, PromiseKept, ListedIsTaken. Two vectors give empty lists, lists of one and lists with a head and a tail; two ports show that they do not meet. A list with an inner vector needs three, which is left to the proofs, for any number. |
| indi_link | 2 vectors, 1 packet in flight each way (besides those in the buffers), 3 environment events | no change is lost, requests are not overwritten, both ends converge. Three events (garbled and dropped packets are some) let a change, a request and a restart interleave, or three restarts. |
| driver_images | 3 firmwares over 2 names, 2 values | the tables agree, updates land and what a shared vector shows is the last value, when a vector moves, swaps or changes kind and the answers to old requests come in between. |
| driver_thread | 2 connections, `select` may fail | threads use only their own protocol; disconnecting returns if `select` works; requests are served. Two connections put a dying thread and a new one side by side; the proof covers any number. |
| motors | positions modulo 16, 4 phases, 2 speed levels, 2 slots, 2 positions of slots, 1 torn position | the wheel: `OffIsArrived`, `NeverMisled`, `ShownIsReal`, `CoilsFollow`, `ComesToRest`; the focuser: `RestIsKnown`, `PlaceKept`; both: `MotorsTypeOK`. Moves are longer than the acceleration and overshoot below 0; the acceleration of the focuser goes to 0, 1 and 2 in motion; positions relate to each other as those of the code do (constructor, calibration, home); both slots may have one position. |
| eeprom | 9 cells, bytes of 3 values, 3 firmwares that share, add and resize items, 4 writes of an item between two rewrites | what is at rest is found again, a cut damages one value, the counter is not behind the wear. The records leave none, one or two of the cells, so that one ends with the last cell, and zeros lie before, between or after the others; a level turns after 3 writes and the counter reaches its limit. |
| dew_heater | 1 heater, 2 sensors, 2 slots | `NoBlindHeat`, `StoredOnce`, `KeptWhileRoom`, `SensorServed`. A heater that has lost its sensor has the address of an empty slot and is the third customer of two slots. Two heaters meet only in the slots, where the requests of one heater that is unplugged and replugged stand for those of the other. The slots start as anything the memory may hold. |
| dew_heater_dewpoint | the same | **violation**: see 5. |
| scheduler | 8 values of the counter, 4 of the count of overflows, 3 tasks (a motor, the weather sensor, the protocol) | `UrgentInTime`, `NeverEarly`, `ServedInRange`. Delays are longer than half a turn of the counter, and both wrap again and again. |
| scheduler_wrap | the same | **violation**: see 5. |
| requests | 3 events (packets, each one of 8 requests or a restart, cut at any byte; bytes lost or garbled into 6 others: values, a byte that no packet has, a start, an end); 2 stored numbers and 2 vectors of switches | `ExactUntilSaved`, `OneIsOn`, `ToldOrDue`, `Settles`. Three events: a packet that is applied, one received over it, one after that; or a packet with two bad bytes. Requests name the first member, the last, all, none that exists. |
| requests_torn | the same | **violation**: see 5. |

Deadlock is checked except in driver_thread and requests, which stop when the
bounded number of connections, or of events, is used up. The type invariants of
IndiLink, DriverImages and Scheduler are proved and not part of the runs.

## 4. Fairness

* DirtyList: a client's `popDirty` is weakly fair. The protocol task reschedules
  itself and the port accepts bytes in the end. `ListedIsTaken` excludes a client
  that is reset for ever.
* IndiLink: the protocol tick that writes, the tick that applies a packet, and
  the steps of the background thread are weakly fair. `Converges` is about
  histories in which the environment stops.
* Requests: the steps of a tick are weakly fair: it is one call of the protocol
  task. `SendNews` is strongly fair for each vector, as DirtyList shows: the list
  comes to each vector, although requests interrupt it. Reception and the driver have no fairness: a packet
  may stay on the line or be cut.
* DriverThread: threads are scheduled (weak fairness); a thread that wants the mutex gets it,
  since holders release it (strong fairness); `select` returns when the pipe has
  bytes, and the port accepts bytes again and again. Spurious wakes are allowed
  and never assumed.
* FilterWheel: the scheduler runs a motor whose tick is due. `ComesToRest` starts
  when requests and power cuts stop.
* DewHeater: the ticks of a heater are due after a bounded delay, and run (the
  scheduler run shows under which condition). `SensorServed` assumes that the
  power stays and that the wire keeps a sensor.
* Scheduler: the loop runs for ever. `ServedInRange` assumes that a motor stops again
  and again (its moves are finite), and that no task is late when the count of
  overflows wraps.

## 5. Disagreements found

1. `dew_heater_dewpoint`: a dew point that is not known is compared with NAN by `==`, which
   never holds; the integral term of the PID becomes NaN and stays so, and an
   undefined level is written (`DewHeater.cpp:351`, against the range of 192).
2. `scheduler_wrap`: `operator-` of the time does not wrap as the comparisons do. When the
   count of overflows goes from 255 to 0 (12.7 days) a task that is late is chosen
   and never run, and blocks those behind it (`utime.h:124`, against the comments
   at `utime.h:120` and `Scheduler.cpp:18`).
3. `requests_torn`: a tick frees the buffer of the packet and then applies it; saving
   a member yields, the next packet is received into the same buffer, and the
   members that follow get its bytes (`ScheduledIndiProtocol.cpp:48`, against
   `BinSerialReadBuffer.cpp:190` and 193). `ExactUntilSaved` is what remains true.

Two more are stated in the modules and have no run of their own:

* `PublishedIsLatest` of DriverImages: `announced` keeps an image whose definition did
  not change, with the vector it owns, while the list takes the new vector. A
  later ISGetProperties publishes the values of before the restart
  (`allinone.cpp:394`, against `IndiDeviceMutator.h:19`). `SharedIsLatest` excludes it.
* `KillReturns` of DriverThread: when `select` fails the thread sets `done` and
  broadcasts without the mutex; the broadcast can fall between the main loop's
  test of `done` and its wait (`allinone.cpp:899`, against the comment at 867).
  `KillReturnsIfSelectWorks` excludes it.

## 6. The proofs

TLAPS proves, for every value of the constants allowed by the assumptions that
the modules name (checked by TLC in the runs):

* **DirtyListProofs**. `DirtyIsListed` is not inductive: popping the head is right only if
  the list has the shape the code believes it has. The inductive invariant adds
  `AllChained`: for each client there is a number k and an injective sequence q of k
  vectors that the three arrays describe. `ListedOnChain` shows that the
  membership test of `dirtied` (a successor, or being the tail) is exact on a
  chain; one lemma per operation shows how it changes q. From it follow
  `NothingForgotten`, `ListsStayChains`, and `Refinement`: every step implements a step of
  NotifPending or a stutter. Assumption: there are vectors and fewer than VECNONE.
* **DriverProofs**, threads and images. `ThreadsUseTheirProtocol` needs to know who holds the
  mutex at each place, that `done` is false while a thread is active, and that threads
  are started in order; with these it is inductive. It holds whether or not `select`
  may fail, for any number of connections.
  `TablesAgree`, `UpdatesLand` and `SharedIsLatest` are inductive together with the types: the
  tables know an image by its uid and by its name or not at all (`Agree`), a uid that
  was told, or was before the device started the same firmware again, has a live vector
  and one image of its definition (`Lands`), which is what the pseudo BUSY needs. An identifier
  is free when one is needed, because there are more than uids (`FreeId`).
* **ControllerProofs**, the dew heaters and the scheduler. `NoBlindHeat` and `StoredOnce` are inductive with the types, for any
  number of heaters and slots (the run has one heater). `UpdatePwmSafe` follows
  every branch of the power modes; `First` gives the searches for a slot their
  result. `KeptWhileRoom` follows from the invariant, one step at a time.
  The time: `SinceIs` reduces the difference over both counters to that of each, from
  which follows where the code's operations agree with it. `LessIsBefore`, for both comparisons: unless the counts of
  overflows are half a turn apart. `PlusIsLater`: for durations below a turn of the
  microseconds. `MinusIsExact`: up to half of such a turn, and only if the counts have
  not wrapped, since they are subtracted as they are (`scheduler_wrap` shows what
  follows). `NeverEarly` is inductive with the types, because `WaitEnds`: after the wait it is
  the time of the task, or later. Assumptions: both ranges are even, and `Immediate` is
  less than a turn.
* **MotorProofs**, the motor, the wheel and the focuser. Arithmetic of positions that wrap
  around: `PhaseOfStep` (the coils turn with the position because the number of
  positions is a multiple of the phases), `TickSteps` (a motor turned off is at its
  target; else it moves by one position at most), `SetTargetKeeps`.
  The wheel: every handler ends in `onProgress` or leaves a wheel at rest as
  it is. So `OnProgressKeeps` carries the argument: from a wheel whose saved
  position, if it is off, is its own (`Ready`), it makes one that is `Good`. `Good` is
  inductive and contains `OffIsArrived`, `SavedIsReal` and `ShownIsReal`; `SavedIsReal` is
  strengthened by "a wheel that is on has nothing saved", because a tick may move
  the wheel without `onProgress`. A boot from a torn position is `Good` too, as
  what `Good` compares is the position that the wheel believes in. `NeverMisled` follows from `SavedIsReal` for a cut that does not
  come in the middle of a save. `CoilsFollow` follows from `SamePhase`: the positions of
  a calibration are multiples of the phases. The assumption on the backlash
  says that no intermediate target passes the last position: in the code it is at
  most 10000, and positions are far from 2^32.
  `MotorsTypeOK` bounds the speed of both by what fits in the type of the acceleration:
  it is gained by one level a step, falls back to an acceleration that was lowered in
  motion, and is cut to the distance that is left (`SpeedType`).
  The focuser: `RestIsKnown` is inductive with the types; `PlaceKept` also needs that
  the base of the phases is always 0, since it is not saved.
* **IndiLinkProofs**. `CurrentOrComing` says that a driver that is up has each vector as it is,
  unless it will be told. It is not inductive: what will be told may be in the answer, in
  the packet being written, on the line, in the dirty list, or all at once when the
  news of a restart is on the way. The inductive invariant adds that a vector with
  news is in the list, for `Covered` (there is news, or what the driver will have read
  is the value) rests on it; all of it is claimed as long as not `lost`. `After` is a recursive function over the packets on the way, so
  its properties (what the next packet, or one more, makes of it) are proved
  through `Arithmetic`.
* **RequestsProofs**. The invariant follows a request from the driver to its callback: what was
  received is the beginning of a packet that was sent, as far as no byte was lost or became
  another that may stand there (`Reception`); the request at work is then one that a
  client asked; a value that was read before anything came over it is the one that the
  first pass saw, so the one asked; a vector that is not at work has one member on
  and is told or news (`Quiet`). From it follow `ReadsWhatWasAsked`, `OneSwitchIsOn` and
  `WhatChangedIsTold` for any vectors and any number of packets (the run has three).
  `ReadsAsSent` says that the reader inverts the encoding. `OneIsOn` rests on lemmas about
  counting the members that are on (`Counted`, `AllOfThem`, `ActiveOneIs`).
* **EepromProofs**. `StoredAtRest`, `DamageIsLocal` and `WearIsCounted` follow from one invariant. Its core,
  `ReadyInv`, says that there are places, apart from each other (`Apart`), such that the
  cells hold a record at each and zeros between (`Holds`), whatever part of the
  operation was done, and that all values but the one being written, and the
  counter, are in them. Why `findPos` then finds a record: after k turns of its loop the scan
  has not passed it, is outside of records or at the head of one, and is at cell k or
  beyond (`Scanned`, `TurnKeeps`, `FindPosIs`). A write of one item is legal in every prefix
  (`LegalKeeps`, `JobIs`); a full rewrite is valid only when its last byte of the marker is
  written (`RewrittenIs`), and until then the EEPROM is that of an earlier time, or nothing
  reads it (`StaleInv`). The counter: `wear[a] + highest <= Count + Level(a)`, as the level of
  an item follows its writes until a boot or a turn sets all levels back. Assumptions:
  every firmware has the counter and fits in the EEPROM, and the limit of a rewrite
  can be counted.
* **Arithmetic**. A set of numbers has a first one; induction and recursion stated with sets
  in place of an operator as parameter, which is the form the provers can use; and
  the facts about remainders that the prover lacks (`SmallMultiple`, `Congruent`, `Division`).

Only model-checked: liveness (out of the prover's reach), and `UrgentInTime` of Scheduler. It
compares times that may be more than half a range apart, where the comparison is
not transitive; that they are not rests on how late tasks can get, which the
specification leaves to its constants.

## 7. Not modelled

What the device writes byte by byte (announces, updates), text and float members,
the XML writer (unused), the sensors' bus protocols and their floating-point
conversions, capabilities and debug output. The values of settings and the
arithmetic of the PID. The duration of one-wire and DHT transfers.

In Requests: the BUSY flag of a vector itself (it is in IndiLink); packets that
have more items than the vector has members, which only noise can make, and which are
refused here while the reader would follow a null pointer past the last one; a uid garbled into one beyond the list of 100
vectors, whose missing bound check is the FIXME of `BinSerialReadBuffer.cpp:159` (the other
uids are in the model); vectors of more than 127 members.

In the EEPROM store, a full rewrite that is cut loses everything and a value that
is cut is a mix of two: the states are in the models (EepromStored, FilterWheel, Focuser),
no property forbids them, as the code has no means against them: a wheel whose power is
cut while its position is being invalidated may believe in a torn one. What the hazards of `PROJECT.json` leave
without a property has its reason there.

## 8. Plan

1. Done: dirty lists, link, images, threads, motor, wheel and focuser, requests and
   switches, EEPROM store, dew heaters, scheduler and time, with proofs of every
   safety invariant that a run checks.
2. Next: a bound on how late a task gets, from the durations of the steps, and
   `UrgentInTime` under it.
3. Later: two heaters in the dew heater run.
