------------------------------- MODULE Requests -------------------------------
(***************************************************************************)
(* How the device reads a request.  Bytes are received into one buffer,    *)
(* incomingPacket.  A tick frees the buffer and then applies the packet    *)
(* from it: a first pass notes where the value of each member is, a second *)
(* one goes back there and reads the values one by one.  A member that has *)
(* a place in the EEPROM is saved as soon as it is read, and so does the   *)
(* callback of some vectors; each byte saved yields to the scheduler,      *)
(* which receives bytes.                                                   *)
(*                                                                         *)
(* A packet carries no checksum: a byte that becomes another one that may  *)
(* stand there is taken for what the driver sent.                          *)
(*                                                                         *)
(* Vectors are numbers or texts (a value is one byte here, whatever it is) *)
(* or switches of which one is on.  Mode and Config are two such switches  *)
(* of a dew heater: Config saves the mode, or loads it again.              *)
(***************************************************************************)
EXTENDS Integers, Sequences, FiniteSetsExt

CONSTANTS NMembers,   \* number of members of each vector, by uid
          Stored,     \* vectors whose members are in the EEPROM
          Exclusive,  \* switch vectors: one member is on
          Mode,       \* powerMode
          Config,     \* configOperationVec: idle, save, reload
          Asked,      \* what clients ask for: [vec, members, values], some
                      \* members of a vector, in their order, and a value
                      \* for each of them
          BufSize,    \* NOTIF_PACKET_MAX_SIZE
          Noise,      \* bytes that another byte may become on the line
          MaxEvents   \* bound: packets sent, and bytes lost or garbled

Vectors == DOMAIN NMembers

\* The members of Config.
Idle   == 1
Save   == 2
Reload == 3

PACKET_REQUEST   == 248
PACKET_RESTARTED == 250
PACKET_END       == 255
IsStart(b) == b \in 248 .. 254
Data       == 0 .. 127
Garbled    == 128      \* a byte that is neither data nor control
Bytes      == Data \cup {Garbled} \cup 248 .. 255

ASSUME RequestAssumption ==
    /\ \A v \in Vectors : NMembers[v] \in 1 .. 127 /\ v \in Data
    /\ Stored \subseteq Vectors /\ Exclusive \subseteq Vectors
    /\ Stored \cap Exclusive = {} /\ {Mode, Config} \subseteq Exclusive /\ Mode # Config
    /\ NMembers[Config] = 3
    /\ \A r \in Asked :
          /\ r.vec \in Vectors
          /\ r.members \in Seq(1 .. 127) /\ r.values \in Seq(Data)
          /\ Len(r.values) = Len(r.members)
          /\ \A i, j \in 1 .. Len(r.members) : i < j => r.members[i] < r.members[j]
          /\ 2 * Len(r.members) + 3 < BufSize
    /\ Noise \subseteq Bytes
    /\ MaxEvents \in Nat /\ BufSize \in Nat /\ BufSize > 3

\* Variant: prevMem is not moved on.
Skip_FromFirst(r, i) == r.members[i] - 1

\* How many members are left out before item i.
Skip(r, i) == r.members[i] - (IF i = 1 THEN 0 ELSE r.members[i - 1]) - 1

\* reqNewSomething: an item is the number of members to skip and a value.
Encoded(r) ==
    <<PACKET_REQUEST, r.vec>>
    \o [k \in 1 .. 2 * Len(r.members) |->
           IF k % 2 = 1 THEN Skip(r, (k + 1) \div 2) ELSE r.values[k \div 2]]
    \o <<PACKET_END>>

\* What the driver may send.
Packets == {Encoded(r) : r \in Asked} \cup {<<PACKET_RESTARTED, PACKET_END>>}

\* "nothing": no answer, no request at work.
None       == [kind |-> "NONE"]
BusyAck(v) == [kind |-> "BUSYACK", vec |-> v]
Restarted  == [kind |-> "RESTARTED"]

VARIABLES
    line,    \* bytes on their way from the driver
    buf,     \* incomingPacket
    size,    \* incomingPacketSize
    ready,   \* incomingPacketReady
    wrong,   \* (history) a byte of the packet in buf was lost, or became one
             \* that cannot be told from what was sent
    value,   \* value[v][i]: member i of v; a switch is 1 (on) or 0
    active,  \* activeOne of the switch vectors
    saved,   \* the saved mode, 0 when there is none
    news,    \* news[v]: v is dirty
    ack,     \* the answer, in ackPacket
    job,     \* the request that is being applied
    events,  \* how many of them happened
    shown    \* what the driver has of v: the "true" value, an "old" one, "BUSY"

bufVars == <<buf, size, ready, wrong>>
vars == <<line, bufVars, value, active, saved, news, ack, job, events, shown>>

Jobs == [vec : Vectors, n : Nat, members : Seq(Nat), sent : Seq(Data), end : Nat,
         k : Nat, changed : SUBSET Nat, phase : {"members", "callback"},
         call : BOOLEAN, yields : BOOLEAN, torn : BOOLEAN, wrong : BOOLEAN]

TypeOK ==
    /\ line \in Seq(Bytes)
    /\ buf \in [0 .. BufSize - 1 -> Bytes]
    /\ size \in 0 .. BufSize /\ ready \in BOOLEAN
    /\ IF ready THEN size > 1 ELSE size < BufSize
    /\ wrong \in BOOLEAN
    /\ \A v \in Vectors : value[v] \in [1 .. NMembers[v] -> Data]
    /\ \A v \in Exclusive : active[v] \in 1 .. NMembers[v]
    /\ saved \in 0 .. NMembers[Mode]
    /\ news \in [Vectors -> BOOLEAN]
    /\ ack \in {None, Restarted} \cup {BusyAck(v) : v \in Vectors}
    /\ \/ job = None
       \/ /\ job \in Jobs /\ job.k \in 1 .. job.n + 1
          /\ \A i \in 1 .. job.n : job.members[i] \in 1 .. NMembers[job.vec]
    /\ events \in 0 .. MaxEvents
    /\ shown \in [Vectors -> {"true", "old", "BUSY"}]

-----------------------------------------------------------------------------
(* Switch vectors.                                                         *)

\* Variant: the first is chosen when none is on, even if just turned off.
ActiveOne_First(on, last, n) ==
    IF on = {} THEN 1 ELSE IF last \in on THEN last ELSE Min(on)

\* refreshActiveOne(last), for the members that are on of n: the one that
\* stays on.  When none is, that is the first, or the second if the first
\* was just turned off and there is a second.
ActiveOne(on, last, n) ==
    IF on = {} THEN IF last = 1 /\ n > 1 THEN 2 ELSE 1
    ELSE IF last \in on THEN last ELSE Min(on)

On(x) == {i \in DOMAIN x : x[i] = 1}
Only(x, one) == [i \in DOMAIN x |-> IF i = one THEN 1 ELSE 0]

\* The driver is behind when a value changes that it had.
Behind(new) ==
    [v \in Vectors |-> IF new[v] # value[v] /\ shown[v] = "true" THEN "old" ELSE shown[v]]

\* The switch vectors whose member S[v] is not on yet.
Moved(S) == {v \in DOMAIN S : value[v][S[v]] = 0}

\* setValue(true) on member S[v] of each switch vector v of S.
SetOn(S) ==
    /\ value' = [v \in Vectors |-> IF v \in Moved(S) THEN Only(value[v], S[v]) ELSE value[v]]
    /\ active' = [v \in Exclusive |-> IF v \in Moved(S) THEN S[v] ELSE active[v]]
    /\ shown' = Behind(value')

-----------------------------------------------------------------------------
Init ==
    /\ line = << >>
    /\ buf = [i \in 0 .. BufSize - 1 |-> 0] /\ size = 0 /\ ready = FALSE /\ wrong = FALSE
    /\ value = [v \in Vectors |->
                   IF v \in Exclusive THEN Only([i \in 1 .. NMembers[v] |-> 0], 1)
                   ELSE [i \in 1 .. NMembers[v] |-> 0]]
    /\ active = [v \in Exclusive |-> 1]
    /\ saved = 0
    /\ news = [v \in Vectors |-> TRUE]
    /\ ack = None /\ job = None /\ events = 0
    /\ shown = [v \in Vectors |-> "old"]

(* The driver and the line.                                                *)

\* A packet is written to the port (bounds: one at a time is on the line, and
\* MaxEvents).
Send ==
    /\ line = << >> /\ events < MaxEvents
    /\ line' \in Packets /\ events' = events + 1
    /\ UNCHANGED <<bufVars, value, active, saved, news, ack, job, shown>>

\* The driver stops in the middle of a packet.
Cut ==
    /\ line # << >> /\ line' = << >>
    /\ UNCHANGED <<bufVars, value, active, saved, news, ack, job, events, shown>>

\* What the first n bytes of b are; nobody reads the others any more (they
\* are 0 here, whatever they are).
Left(b, n) == [i \in DOMAIN b |-> IF i < n THEN b[i] ELSE 0]

\* A byte never arrives.
Lose ==
    /\ line # << >> /\ line' = Tail(line)
    /\ events < MaxEvents /\ events' = events + 1
    /\ wrong' = TRUE
    /\ UNCHANGED <<buf, size, ready, value, active, saved, news, ack, job, shown>>

\* IndiDevice::list is as long as this.  A uid beyond it is read from other
\* memory and is left out: the uid of a request does not become one.
ListSize == 100
InList(b) == (size = 1 /\ buf[0] = PACKET_REQUEST) => b < ListSize \/ IsStart(b)

\* Scheduler::yield calls idle, which reads while no packet is complete:
\* between two ticks, and whenever a byte of the EEPROM was written.  A byte
\* b arrives, as it was sent or not.
Receive ==
    /\ line # << >> /\ ~ready
    /\ job # None => job.yields
    /\ \E b \in {Head(line)} \cup Noise :
       LET next == IF IsStart(b) THEN 1 ELSE IF size = 0 THEN 0 ELSE size + 1
           last == [buf EXCEPT ![size] = b]
           new  == IF IsStart(b) THEN [last EXCEPT ![0] = b] ELSE last
       IN  /\ InList(b)
           /\ IF b = Head(line) THEN UNCHANGED events
              ELSE events < MaxEvents /\ events' = events + 1
           /\ ready' = (b = PACKET_END /\ size > 0)
           /\ size' = IF next >= BufSize /\ ~ready' THEN 0 ELSE next
           /\ buf' = IF job = None THEN Left(new, size') ELSE new
           /\ wrong' = IF IsStart(b) THEN b # Head(line)
                       ELSE wrong \/ b \notin {Head(line), Garbled}
    /\ line' = Tail(line)
    /\ job' = IF job = None THEN None ELSE [job EXCEPT !.torn = TRUE]
    /\ UNCHANGED <<value, active, saved, news, ack, shown>>

-----------------------------------------------------------------------------
(* The tick: the packet is read and applied.                               *)

\* The items of the request in buf: a number of members to skip, a value.
NItems        == (size - 3) \div 2
IsValue(v, b) == b \in IF v \in Exclusive THEN {0, 1} ELSE Data

\* The member of item j: so many after the one of the item before.
ItemMember(j) ==
    LET at[i \in 0 .. NItems] == IF i = 0 THEN 0 ELSE at[i - 1] + buf[2 * i] + 1
    IN  at[j]

\* offsets[j]: where the value of item j is.
ValueAt(j) == 2 * j + 1

\* Variant: the members are not counted.
WellFormed_AnyMember ==
    /\ buf[0] = PACKET_REQUEST /\ size >= 3 /\ size % 2 = 1
    /\ buf[1] \in Vectors
    /\ \A i \in 2 .. size - 2 : buf[i] \in Data
    /\ \A j \in 1 .. NItems : IsValue(buf[1], buf[2 * j + 1])

\* The first pass comes to the end of the packet.
WellFormed ==
    /\ buf[0] = PACKET_REQUEST /\ size >= 3 /\ size % 2 = 1
    /\ buf[1] \in Vectors
    /\ \A i \in 2 .. size - 2 : buf[i] \in Data
    /\ ItemMember(NItems) <= NMembers[buf[1]]
    /\ \A j \in 1 .. NItems : IsValue(buf[1], buf[2 * j + 1])

\* Variant: what was buffered is dropped, and nothing is announced.
ResetProtocol_Quiet ==
    /\ buf' = Left(buf, 0) /\ size' = 0 /\ ready' = FALSE /\ UNCHANGED <<wrong, news>>

\* IndiProtocol::reset: what was received is dropped, everything is news.
ResetProtocol ==
    /\ buf' = Left(buf, 0) /\ size' = 0 /\ ready' = FALSE /\ UNCHANGED wrong
    /\ news' = [v \in Vectors |-> TRUE]

\* tick frees the buffer, then reads the packet that is in it.
Begin ==
    /\ ready /\ ack = None /\ job = None
    /\ IF WellFormed
       THEN LET j == 1 .. NItems IN
            /\ job' = [vec |-> buf[1], n |-> NItems, end |-> size - 1,
                       members |-> [i \in j |-> ItemMember(i)],
                       sent |-> [i \in j |-> buf[2 * i + 1]],
                       k |-> 1, changed |-> {}, phase |-> "members",
                       call |-> FALSE, yields |-> FALSE, torn |-> FALSE,
                       wrong |-> wrong]
            /\ ack' = BusyAck(buf[1])
            /\ size' = 0 /\ ready' = FALSE /\ UNCHANGED <<buf, wrong, news>>
       ELSE /\ ResetProtocol
            /\ ack' = IF buf[0] = PACKET_RESTARTED THEN Restarted ELSE None
            /\ UNCHANGED job
    /\ UNCHANGED <<line, value, active, saved, events, shown>>

\* fail(): what was written stays, and the answer is sent nevertheless.
Fail == job' = None /\ ResetProtocol

\* doUpdate: one member is read from the buffer, and saved if it changed.
Apply ==
    /\ job # None /\ job.phase = "members" /\ job.k <= job.n
    /\ LET v == job.vec
           i == job.members[job.k]
           b == buf[ValueAt(job.k)]
       IN  IF ~IsValue(v, b) THEN Fail /\ UNCHANGED <<value, shown>>
           ELSE /\ value' = [value EXCEPT ![v][i] = b]
                /\ shown' = Behind(value')
                /\ job' = [job EXCEPT !.k = @ + 1,
                                      !.changed = IF value[v][i] # b THEN @ \cup {job.k} ELSE @,
                                      !.yields = value[v][i] # b /\ v \in Stored]
                /\ UNCHANGED <<bufVars, news>>
    /\ UNCHANGED <<line, active, saved, ack, events>>

\* The end of doUpdate: the vector is news if a value changed, and a switch
\* vector keeps one member on.  The callback is called if its value, or the
\* member that is on, is another one; that of Config may start to save.
Applied ==
    /\ job # None /\ job.phase = "members" /\ job.k > job.n
    /\ LET v   == job.vec
           one == ActiveOne(On(value[v]), job.members[1], NMembers[v])
           sw  == v \in Exclusive /\ job.changed # {}
       IN  /\ value' = IF sw THEN [value EXCEPT ![v] = Only(@, one)] ELSE value
           /\ active' = IF sw THEN [active EXCEPT ![v] = one] ELSE active
           /\ news' = [news EXCEPT ![v] = @ \/ job.changed # {}]
           /\ job' = [job EXCEPT !.phase = "callback",
                                 !.call = IF v \in Exclusive THEN active' # active
                                          ELSE job.changed # {},
                                 !.yields = v = Config /\ active' # active /\ active'[v] = Save]
    /\ shown' = Behind(value')
    /\ saved' = IF job'.yields /\ job.vec = Config THEN active[Mode] ELSE saved
    /\ UNCHANGED <<line, bufVars, ack, events>>

\* What the callback sets: the operation is idle again, the saved mode is on.
CallbackSets ==
    IF job.vec # Config \/ ~job.call THEN << >>
    ELSE IF active[Config] = Reload /\ saved # 0
    THEN [v \in {Config, Mode} |-> IF v = Config THEN Idle ELSE saved]
    ELSE [v \in {Config} |-> Idle]

\* Variant: the vector is not sent when no value changed.
Resent_OnChange(v) == v = job.vec /\ job.changed # {}

\* The vector of a request is sent in any case, or the BUSY of the answer
\* would stay.
Resent(v) == v = job.vec

\* The end of the callback, and of the packet.
End ==
    /\ job # None /\ job.phase = "callback"
    /\ SetOn(CallbackSets)
    /\ IF buf[job.end] = PACKET_END
       THEN /\ job' = None
            /\ news' = [v \in Vectors |-> news[v] \/ v \in Moved(CallbackSets) \/ Resent(v)]
            /\ buf' = Left(buf, size) /\ UNCHANGED <<size, ready, wrong>>
       ELSE Fail
    /\ UNCHANGED <<line, saved, ack, events>>

\* The heater finds its sensor, and loads the mode that was saved for it.
Scan ==
    /\ job = None /\ saved # 0
    /\ LET S == [v \in {Mode} |-> saved]
       IN  SetOn(S) /\ news' = [v \in Vectors |-> news[v] \/ v \in Moved(S)]
    /\ UNCHANGED <<line, bufVars, saved, ack, job, events>>

\* fillBuffer: the answer first, then what is dirty.
SendAck ==
    /\ job = None /\ ack # None
    /\ ack' = None
    /\ shown' = [v \in Vectors |-> IF ack = BusyAck(v) THEN "BUSY" ELSE shown[v]]
    /\ UNCHANGED <<line, bufVars, value, active, saved, news, job, events>>

SendNews(v) ==
    /\ job = None /\ ack = None /\ news[v]
    /\ news' = [news EXCEPT ![v] = FALSE]
    /\ shown' = [shown EXCEPT ![v] = "true"]
    /\ UNCHANGED <<line, bufVars, value, active, saved, ack, job, events>>

-----------------------------------------------------------------------------
Device == \/ Receive \/ Begin \/ Apply \/ Applied \/ End \/ Scan \/ SendAck
          \/ \E v \in Vectors : SendNews(v)
Driver == Send \/ Cut \/ Lose
Next == Device \/ Driver
Spec == Init /\ [][Next]_vars

\* The protocol task runs again and again (see Scheduler), and the list of
\* dirty vectors comes to each of them (see DirtyList).
Fairness ==
    /\ WF_vars(Begin) /\ WF_vars(Apply) /\ WF_vars(Applied) /\ WF_vars(End)
    /\ WF_vars(SendAck)
    /\ \A v \in Vectors : SF_vars(SendNews(v))
FairSpec == Spec /\ Fairness

-----------------------------------------------------------------------------
Got(j) == value[job.vec][job.members[j]]

\* The request that is applied may be r, as far as the items J tell.
Is(r, J) ==
    /\ r.vec = job.vec /\ r.members = job.members
    /\ \A j \in J : Got(j) = r.values[j]

\* The items applied, and those that were before anything else was received
\* over the packet: up to and with the first one that was saved.
Done  == 1 .. job.k - 1
Exact == {j \in Done : ~job.torn \/ \A i \in job.changed : j <= i}

(* The first pass and the second agree, whatever was received: what is     *)
(* read from the buffer after the first member was saved may be another    *)
(* packet's, but not what is read until then, and not when nothing is      *)
(* received meanwhile.  And it is what a client asked for, whatever was    *)
(* cut, garbled or lost before, unless a byte of this very packet was lost *)
(* or became another one that may stand there.                             *)
ExactUntilSaved ==
    (job # None /\ job.phase = "members") =>
        /\ \A j \in Exact : Got(j) = job.sent[j]
        /\ job.wrong \/ \E r \in Asked : Is(r, Exact)

(* Every value applied from a packet that came as it was sent is what a    *)
(* client asked for.                                                       *)
AppliedAsSent ==
    (job # None /\ job.phase = "members" /\ ~job.wrong) => \E r \in Asked : Is(r, Done)

\* What a request wants of the member that is on, if it can be told: the
\* only member that it turns on, named first or among all the members; not
\* the one that it turns off first, when it turns none on (unless it is the
\* only one).
SentOn == {job.members[j] : j \in {i \in 1 .. job.n : job.sent[i] = 1}}
AsWanted(one) ==
    /\ \A i \in SentOn :
          (SentOn = {i} /\ (i = job.members[1] \/ job.n = NMembers[job.vec])) => one = i
    /\ (SentOn = {} /\ job.n > 0 /\ NMembers[job.vec] > 1) => one # job.members[1]

(* One member of a switch vector is on, whatever subset of them a request  *)
(* sets, a callback sets back or a failed request leaves; and it is the    *)
(* one that the request, as it was received, wanted.                       *)
OneIsOn ==
    /\ job = None => \A v \in Exclusive : On(value[v]) = {active[v]}
    /\ (job # None /\ job.phase = "callback" /\ job.vec \in Exclusive) =>
           AsWanted(active[job.vec])

(* Between two ticks the driver has the true value of a vector, or it is   *)
(* dirty: a request that fails half-way has written values that nobody was *)
(* told of, and its pseudo BUSY is sent all the same.                      *)
ToldOrDue ==
    job = None => \A v \in Vectors : news[v] \/ (shown[v] = "true" /\ ack # BusyAck(v))

(* After the last packet the driver has the true value of every vector, for *)
(* ever, and shows none BUSY, whatever requests, cuts and noise came before: *)
(* none of them leaves the reader stuck, an answer unsent or a value untold.  *)
Settles == <>[](\A v \in Vectors : shown[v] = "true")
=============================================================================
