------------------------------- MODULE IndiLink -------------------------------
(***************************************************************************)
(* The micro-controller and the INDI driver, joined by one serial line.    *)
(*                                                                         *)
(* The device owns vectors whose values and BUSY flags change on their own *)
(* and on request; it streams announces and updates to the driver.  The    *)
(* driver keeps a copy of every vector and sends the requests of its       *)
(* clients (what it publishes to them is in DriverImages).  Both ends may  *)
(* be restarted at any time, and a packet to the device may be garbled: it *)
(* then vanishes, or does not parse, or asks for something else.           *)
(*                                                                         *)
(* Packets are atomic here: a byte stream cut by a reset is a packet that  *)
(* never arrives, because the receiver drops it at the next start byte     *)
(* (IndiProtocol::received).  The list of dirty vectors is the queue that  *)
(* DirtyList implements.  A value is known by its version number.          *)
(***************************************************************************)
EXTENDS Naturals, Sequences, SequencesExt

CONSTANTS NVec,        \* number of vectors, uids 0 .. NVec - 1
          Capacity,    \* bound: packets in flight in each direction
          MaxEvents    \* bound: changes, requests, disconnections and faults

ASSUME LinkAssumption == NVec \in Nat /\ MaxEvents \in Nat

Vectors == 0 .. NVec - 1
\* "nothing here": an empty buffer, an unknown vector, a missing image.
None == [kind |-> "NONE"]

Announce(v, x)  == [kind |-> "ANNOUNCE", vec |-> v, ver |-> x.ver, busy |-> x.busy]
Update(v, x)    == [kind |-> "UPDATE",   vec |-> v, ver |-> x.ver, busy |-> x.busy]
BusyAck(v)      == [kind |-> "BUSYACK",  vec |-> v]
Request(v)      == [kind |-> "REQUEST",  vec |-> v]
Restarted       == [kind |-> "RESTARTED"]
Bad             == [kind |-> "BAD"]

VARIABLES
    cur,      \* cur[v]: version and BUSY flag of the vector in the device
    dev,      \* the device's IndiProtocol
    toHost,   \* packets on the line, device to driver
    toDev,    \* packets on the line, driver to device
    up,       \* the driver is connected
    host,     \* the driver's CustomIndiProtocol
    vec,      \* vec[v]: the driver's IndiDevice::list, None before an announce
    lost,     \* history: the last packet that would have made the device start
              \* again was garbled, and the device has not started again since
    events    \* what the environment did so far

devVars  == <<cur, dev>>
hostVars == <<up, host, vec>>
vars     == <<cur, dev, toHost, toDev, up, host, vec, lost, events>>

Snapshot == [ver : Nat, busy : BOOLEAN]
HostPacket == [kind : {"ANNOUNCE", "UPDATE"}, vec : Vectors,
               ver : Nat, busy : BOOLEAN]
              \cup [kind : {"BUSYACK"}, vec : Vectors] \cup {Restarted}
DevPacket == [kind : {"REQUEST"}, vec : Vectors] \cup {Restarted, Bad}

DevState == [dirty : [Vectors -> SUBSET {"ANNOUNCED", "VALUE"}],
             queue : Seq(Vectors), welcomed : BOOLEAN,
             ack : HostPacket \cup {None}, out : HostPacket \cup {None},
             incoming : DevPacket \cup {None}]

TypeOK ==
    /\ cur \in [Vectors -> Snapshot]
    /\ dev \in DevState
    /\ toHost \in Seq(HostPacket) /\ toDev \in Seq(DevPacket)
    /\ up \in BOOLEAN
    /\ host \in [welcomed : BOOLEAN, request : DevPacket \cup {None},
                 out : DevPacket \cup {None}]
    /\ vec \in [Vectors -> Snapshot \cup {None}]
    /\ lost \in BOOLEAN
    /\ events \in 0 .. MaxEvents

-----------------------------------------------------------------------------
(* The device: notification bookkeeping (see DirtyList).                   *)

Notify(d, v, which) ==
    [d EXCEPT !.dirty[v] = @ \cup {which},
              !.queue = IF v \in Range(@) THEN @ ELSE Append(@, v)]

SetDirty(d, v) == IF d.dirty[v] = {} THEN Notify(d, v, "VALUE") ELSE d

\* IndiProtocol::reset: forget all that is buffered, announce everything.
\* A packet half written stays half written.
ResetDev(d) ==
    [dirty    |-> [v \in Vectors |-> {"ANNOUNCED", "VALUE"}],
     queue    |-> [i \in 1 .. NVec |-> i - 1],
     welcomed |-> FALSE,
     ack |-> None, out |-> None, incoming |-> None]

InitDev == ResetDev(None)

InitHost == [welcomed |-> FALSE, request |-> None, out |-> None]

Init ==
    /\ cur = [v \in Vectors |-> [ver |-> 0, busy |-> FALSE]]
    /\ dev = InitDev
    /\ toHost = << >> /\ toDev = << >>
    /\ up = FALSE
    /\ host = InitHost
    /\ vec = [v \in Vectors |-> None]
    /\ lost = FALSE
    /\ events = 0

-----------------------------------------------------------------------------
\* What a task of the device may read and write.
Device == [cur |-> cur, dev |-> dev, toDev |-> toDev, lost |-> lost]

\* The device starts again, and answers ack.
StartAgain(s, ack) == [s EXCEPT !.dev = [ResetDev(@) EXCEPT !.ack = ack], !.lost = FALSE]

Event == events < MaxEvents /\ events' = events + 1

(* The device: one tick of ScheduledIndiProtocol.                          *)

\* IndiVector::set(VECTOR_BUSY, b), with the notification it implies.
SetBusy(s, v, b) ==
    IF s.cur[v].busy = b THEN s
    ELSE [s EXCEPT !.cur[v].busy = b, !.dev = Notify(@, v, "VALUE")]

SetValue(s, v) ==
    [s EXCEPT !.cur[v].ver = @ + 1, !.dev = Notify(@, v, "VALUE")]

\* A request that fails half-way: while its first values are saved, the next
\* packet is received over it (see Requests).  Both are dropped.
HalfWay(s, v) ==
    IF s.toDev = << >> THEN {}
    ELSE {[StartAgain(SetValue(s, v), BusyAck(v)) EXCEPT !.toDev = Tail(@)]}

\* Variant: nothing is sent after the pseudo BUSY unless a value changed.
AfterRequest_NoResend(s, v) ==
    LET written == {SetBusy(SetValue(s, v), v, b) : b \in BOOLEAN}
    IN  HalfWay(s, v) \cup {[t EXCEPT !.dev.ack = BusyAck(v)] : t \in written \cup {s}}

\* A request: either it changes nothing, or the new value is written and
\* the callback may start an operation (BUSY) or end one.  A vector that is
\* not busy at the end is sent once more, so that the pseudo BUSY of the
\* answer does not stay on the client's side.
AfterRequest(s, v) ==
    LET written == {SetBusy(SetValue(s, v), v, b) : b \in BOOLEAN}
        end(t) == IF t.cur[v].busy THEN t.dev ELSE SetDirty(t.dev, v)
    IN  HalfWay(s, v)
        \cup {[t EXCEPT !.dev = [end(t) EXCEPT !.ack = BusyAck(v)]] : t \in written \cup {s}}

\* Variant: the device answers RESTARTED without starting again.
AfterIncoming_NoReset(s) ==
    LET p == s.dev.incoming
        t == [s EXCEPT !.dev.incoming = None]
    IN  IF p = None \/ s.dev.ack # None THEN {s}
        ELSE CASE p.kind = "REQUEST"   -> AfterRequest(t, p.vec)
               [] p.kind = "RESTARTED" -> {[t EXCEPT !.dev.ack = Restarted]}
               [] p.kind = "BAD"       -> {StartAgain(t, None)}

\* internalReadAndApply and the reset that follows a malformed packet.
AfterIncoming(s) ==
    LET p == s.dev.incoming
        t == [s EXCEPT !.dev.incoming = None]
    IN  IF p = None \/ s.dev.ack # None THEN {s}
        ELSE CASE p.kind = "REQUEST"   -> AfterRequest(t, p.vec)
               [] p.kind = "RESTARTED" -> {StartAgain(t, Restarted)}
               [] p.kind = "BAD"       -> {StartAgain(t, None)}

\* IndiProtocol::fillBuffer: the answer first, then the welcome, then the
\* first dirty vector with its strongest news.
FillBuffer(s) ==
    LET d == s.dev
        v == Head(d.queue)
    IN  IF d.ack # None
        THEN [d EXCEPT !.out = d.ack, !.ack = None]
        ELSE IF ~d.welcomed
        THEN [d EXCEPT !.out = Restarted, !.welcomed = TRUE]
        ELSE IF d.queue = << >> THEN d
        ELSE [d EXCEPT !.out = IF "ANNOUNCED" \in d.dirty[v]
                               THEN Announce(v, s.cur[v]) ELSE Update(v, s.cur[v]),
                       !.dirty[v] = {},
                       !.queue = Tail(@)]

\* room: the serial buffer has space for a new packet; done: the last byte
\* of the packet in writeBuffer fits in this tick.
Tick ==
    \E s \in AfterIncoming(Device), room, done \in BOOLEAN :
        LET d == IF s.dev.out = None /\ room THEN FillBuffer(s) ELSE s.dev
            sent == done /\ d.out # None /\ Len(toHost) < Capacity
        IN  /\ cur' = s.cur
            /\ dev' = IF sent THEN [d EXCEPT !.out = None] ELSE d
            /\ toHost' = IF sent THEN Append(toHost, d.out) ELSE toHost
            /\ toDev' = s.toDev /\ lost' = s.lost
            /\ UNCHANGED <<hostVars, events>>

\* ScheduledIndiProtocol::idle: bytes are read while no packet is ready.
Receive ==
    /\ dev.incoming = None /\ toDev # << >>
    /\ dev' = [dev EXCEPT !.incoming = Head(toDev)]
    /\ toDev' = Tail(toDev)
    /\ UNCHANGED <<cur, toHost, hostVars, lost, events>>

\* The hardware tasks change a value, start or end an operation.
Work ==
    /\ Event
    /\ \E v \in Vectors :
          \E n \in {SetValue(Device, v), SetBusy(Device, v, ~cur[v].busy)} :
             cur' = n.cur /\ dev' = n.dev
    /\ UNCHANGED <<toHost, toDev, hostVars, lost>>

\* The device is powered off and on: memory is lost, values may differ.
Reboot ==
    /\ Event
    /\ \E v \in Vectors, new \in 0 .. 1 :
          cur' = [w \in Vectors |->
                [ver |-> cur[w].ver + (IF w = v THEN new ELSE 0), busy |-> FALSE]]
    /\ dev' = InitDev
    /\ toDev' = << >> /\ lost' = FALSE
    /\ UNCHANGED <<toHost, hostVars>>

-----------------------------------------------------------------------------
(* The driver: the background thread, under the mutex.                     *)

\* fillBuffer on this side: no answer is ever ready and no vector is
\* registered in the driver's own device.  The request is copied first and
\* the welcome, when it is still due, is built in the same buffer.
HostFill ==
    /\ up /\ host.out = None
    /\ ~host.welcomed \/ host.request # None
    /\ host' = [welcomed |-> TRUE, request |-> None,
                out |-> IF host.welcomed THEN host.request ELSE Restarted]
    /\ UNCHANGED <<devVars, toHost, toDev, up, vec, lost, events>>

\* The last byte of the packet in writeBuffer is written.
HostWrite ==
    /\ up /\ host.out # None /\ Len(toDev) < Capacity
    /\ toDev' = Append(toDev, host.out)
    /\ host' = [host EXCEPT !.out = None]
    /\ UNCHANGED <<devVars, toHost, up, vec, lost, events>>

\* What a packet makes of the listed vector: a definition replaces it, an
\* update of an unknown vector is refused, and the pseudo BUSY answer, which
\* carries no value, only raises the flag.
Apply(x, p) ==
    IF p.kind = "ANNOUNCE" \/ (p.kind = "UPDATE" /\ x # None)
    THEN [ver |-> p.ver, busy |-> p.busy]
    ELSE IF p.kind = "BUSYACK" /\ x # None THEN [x EXCEPT !.busy = TRUE] ELSE x

\* Variant: packets are read before the welcome was put in the buffer.
HostRead_BeforeWelcome ==
    /\ up /\ toHost # << >>
    /\ LET p == Head(toHost)
       IN  vec' = [v \in Vectors |-> IF p # Restarted /\ p.vec = v
                                     THEN Apply(vec[v], p) ELSE vec[v]]
    /\ toHost' = Tail(toHost)
    /\ UNCHANGED <<devVars, toDev, up, host, lost, events>>

\* One packet is complete and applied.  The loop of backgroundProcessor has
\* called canWrite, hence fillBuffer, before it ever reads.
HostRead ==
    /\ up /\ host.welcomed /\ toHost # << >>
    /\ LET p == Head(toHost)
       IN  vec' = [v \in Vectors |-> IF p # Restarted /\ p.vec = v
                                     THEN Apply(vec[v], p) ELSE vec[v]]
    /\ toHost' = Tail(toHost)
    /\ UNCHANGED <<devVars, toDev, up, host, lost, events>>

(* The driver: calls from the INDI side, under the same mutex.             *)

\* ISNewNumber, ISNewText, ISNewSwitch: one request at a time, the others
\* are refused.
NewRequest(v) ==
    /\ up /\ vec[v] # None /\ host.request = None
    /\ Event
    /\ host' = [host EXCEPT !.request = Request(v)]
    /\ UNCHANGED <<devVars, toHost, toDev, up, vec, lost>>

\* Handshake: both directions of the port are flushed (the packets that
\* already left it are not), a new protocol and an empty device are made.
Connect ==
    /\ ~up
    /\ \E i \in 0 .. Len(toHost), j \in 0 .. Len(toDev) :
          /\ toHost' = SubSeq(toHost, i + 1, Len(toHost))
          /\ toDev' = SubSeq(toDev, 1, j)
    /\ up' = TRUE
    /\ host' = InitHost
    /\ UNCHANGED <<devVars, vec, lost, events>>

\* Disconnect: the vectors are deleted, the packet being written is cut.
Disconnect ==
    /\ up
    /\ Event
    /\ up' = FALSE
    /\ host' = InitHost
    /\ vec' = [v \in Vectors |-> None]
    /\ lost' = FALSE
    /\ UNCHANGED <<devVars, toHost, toDev>>

(* The line.                                                               *)

\* Nobody reads the port: what the device sends is lost.
Unread ==
    /\ ~up /\ toHost # << >>
    /\ toHost' = Tail(toHost)
    /\ UNCHANGED <<devVars, toDev, hostVars, lost, events>>

\* A packet that makes the device start again has not been handled yet.
RestartComing ==
    \/ ~host.welcomed
    \/ \E p \in {host.out, dev.incoming} \cup Range(toDev) :
          p.kind \in {"RESTARTED", "BAD"}

\* A packet to the device is garbled.  One without its start or its end is
\* dropped, without a trace (IndiProtocol::received); another does not parse,
\* or is a request for something else, as there is no checksum.
Noise ==
    /\ Event
    /\ \E i \in 1 .. Len(toDev) :
          /\ toDev[i] # Bad
          /\ \/ toDev' = RemoveAt(toDev, i)
             \/ \E p \in IF toDev[i] = Restarted THEN {Bad} ELSE DevPacket :
                   toDev' = [toDev EXCEPT ![i] = p]
    /\ UNCHANGED <<devVars, toHost, hostVars>>
    /\ lost' = (lost \/ (RestartComing /\ ~RestartComing'))

-----------------------------------------------------------------------------
Link == Tick \/ Receive \/ HostFill \/ HostWrite \/ HostRead
Environment == \/ Work \/ Reboot \/ Connect \/ Disconnect \/ Noise \/ Unread
               \/ \E v \in Vectors : NewRequest(v)

Next == Link \/ Environment
Spec == Init /\ [][Next]_vars

(* The scheduler runs the protocol task again and again, and the serial    *)
(* port accepts bytes; the background thread is woken by select.           *)
Fairness ==
    /\ WF_vars(Tick /\ toHost' # toHost)
    /\ WF_vars(Tick /\ dev.incoming # None /\ dev'.incoming = None)
    /\ WF_vars(Receive)
    /\ WF_vars(HostFill) /\ WF_vars(HostWrite) /\ WF_vars(HostRead)
FairSpec == Spec /\ Fairness

-----------------------------------------------------------------------------
\* What the packet p makes of the driver's vector v, which is x.
Reads(x, p, v) == IF p \in {None, Restarted} THEN x ELSE IF p.vec = v THEN Apply(x, p) ELSE x

\* What it will be once the packets of q are applied.
After(x, q, v) ==
    LET after[i \in 0 .. Len(q)] == IF i = 0 THEN x ELSE Reads(after[i - 1], q[i], v)
    IN  after[Len(q)]

\* What it will be once everything on its way is applied.
Settled(v) == Reads(Reads(After(vec[v], toHost, v), dev.out, v), dev.ack, v)

(* No change is ever lost between the device and a connected driver: for   *)
(* every vector, either news are still to be sent, or the device is about  *)
(* to announce everything, or the packets already on their way leave the   *)
(* driver with the current value AND the current BUSY flag.  In particular *)
(* the pseudo BUSY answer to a request is never the last word about a      *)
(* vector that is not busy.  (A driver whose RESTARTED vanishes on the line *)
(* asks no more: it has what it is sent afterwards until it connects again, *)
(* or something else makes the device start again.)                        *)
CurrentOrComing ==
    up /\ ~lost => \A v \in Vectors :
              \/ v \in Range(dev.queue)
              \/ RestartComing
              \/ Settled(v) = cur[v]

(* A request that was accepted is handed to the port before anything else  *)
(* takes its place: fillBuffer copies it without returning, and the        *)
(* welcome that may follow would overwrite it.                             *)
RequestNotOverwritten ==
    [][host.request # None /\ up' => \/ host'.request = host.request
                                     \/ host'.out = host.request]_vars

(* When nothing changes any more, a connected driver (whose RESTARTED did  *)
(* not vanish) ends up with the device's values and BUSY flags, for ever.  *)
Converges ==
    <>[][~Environment]_vars =>
        <>[](up /\ ~lost => \A v \in Vectors : vec[v] = cur[v])
=============================================================================
