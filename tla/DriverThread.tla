----------------------------- MODULE DriverThread -----------------------------
(***************************************************************************)
(* The two kinds of threads of the INDI driver: the INDI main loop, which  *)
(* connects, disconnects and hands over the requests of the clients, and   *)
(* the background thread that each connection starts to serve the serial   *)
(* port.  They share SimpleDevice's flags and its protocol object under    *)
(* sharingMutex; a pipe wakes the background thread out of its select, and *)
(* doneCond tells the main loop that it ended.                             *)
(*                                                                         *)
(* sharingMutex is recursive: the background thread ends its own           *)
(* connection (killBackgroundProcessor) when the port is closed.           *)
(*                                                                         *)
(* Connecting, disconnecting and setConnected are INDI::DefaultDevice's    *)
(* (its connected flag has no lock); what they call is SimpleDevice's.     *)
(***************************************************************************)
EXTENDS Naturals

CONSTANTS MaxConnections,  \* bound: number of successful Handshakes
          SelectMayFail    \* select may return -1 (a signal, say)

ASSUME ConstantsAssumption ==
    MaxConnections \in Nat /\ SelectMayFail \in BOOLEAN

Threads == 1 .. MaxConnections    \* the n-th Handshake starts thread n
Free    == 0                      \* values of mutex that are not a thread
Main    == MaxConnections + 1

VARIABLES
    mutex,      \* who holds sharingMutex
    connected,  \* DefaultDevice's CONNECTION property
    flags,      \* backgroundProcessorStarted (started),
                \* terminateBackgroundProcessorThread (terminate),
                \* backgroundProcessorThreadDone (done)
    proto,      \* currentIndiProtocol: what the pointer leads to (state), the
                \* thread it was made for (of), a queued request, and whether
                \* writeBuffer has bytes left (out)
    pipe,       \* bytes in protocolPipe
    main,       \* where the main loop is (at), for which operation (op), and
                \* whether doneCond was signalled since it waits (woken)
    thread      \* thread[t]: where background thread t is (at), and what its
                \* select reported (ready)

vars == <<mutex, connected, flags, proto, pipe, main, thread>>

MainPlaces == {"idle", "lock", "kill", "check", "wait", "waiting", "killed",
               "setOn", "setOff", "handler"}
\* Where a thread may still touch the protocol or the pipe.
Active == {"born", "top", "select", "relock", "serve"}
ThreadPlaces == Active \cup {"none", "disconnected", "finish", "broadcast", "ended"}

Flags == [started : BOOLEAN, terminate : BOOLEAN, done : BOOLEAN]
Protocol == [state : {"null", "live", "deleted"}, of : Threads \cup {0},
             request : BOOLEAN, out : BOOLEAN]
MainState == [at : MainPlaces, op : {"connect", "disconnect"}, woken : BOOLEAN]
ThreadState == [at : ThreadPlaces, ready : SUBSET {"pipe", "read", "write"}]

TypeOK ==
    /\ mutex \in Threads \cup {Free, Main}
    /\ connected \in BOOLEAN
    /\ flags \in Flags
    /\ proto \in Protocol
    /\ proto.state # "live" => ~proto.request /\ ~proto.out
    /\ pipe \in BOOLEAN
    /\ main \in MainState
    /\ thread \in [Threads -> ThreadState]

Init ==
    /\ mutex = Free
    /\ connected = FALSE
    /\ flags = [started |-> FALSE, terminate |-> FALSE, done |-> FALSE]
    /\ proto = [state |-> "null", of |-> 0, request |-> FALSE, out |-> FALSE]
    /\ pipe = FALSE
    /\ main = [at |-> "idle", op |-> "connect", woken |-> FALSE]
    /\ thread = [t \in Threads |-> [at |-> "none", ready |-> {}]]

-----------------------------------------------------------------------------
\* Variant: the request of the old connection stays queued.
Deleted_KeepRequest(p) == [p EXCEPT !.state = "deleted", !.out = FALSE]

\* The protocol object and its device are deleted; the pointer stays.
Deleted(p) == [p EXCEPT !.state = "deleted", !.request = FALSE, !.out = FALSE]

\* pthread_cond_broadcast(&doneCond): wakes the main loop if it waits.
Broadcast == main' = [main EXCEPT !.woken = @ \/ main.at = "waiting"]

Goto(place) == main' = [main EXCEPT !.at = place]

(* The main loop: connecting and disconnecting.                            *)

\* A client operates the CONNECTION switch.
ConnectCalled ==
    /\ main.at = "idle" /\ ~connected
    /\ main' = [main EXCEPT !.at = "lock", !.op = "connect"]
    /\ UNCHANGED <<mutex, connected, flags, proto, pipe, thread>>

DisconnectCalled ==
    /\ main.at = "idle" /\ connected
    /\ main' = [main EXCEPT !.at = "lock", !.op = "disconnect"]
    /\ UNCHANGED <<mutex, connected, flags, proto, pipe, thread>>

\* beforeDisconnect and Handshake take the mutex, then kill.
Locked ==
    /\ main.at = "lock" /\ mutex = Free
    /\ mutex' = Main
    /\ Goto("kill")
    /\ UNCHANGED <<connected, flags, proto, pipe, thread>>

Kill ==
    /\ main.at = "kill"
    /\ IF flags.started
       THEN Goto("check") /\ flags' = [flags EXCEPT !.terminate = TRUE]
       ELSE Goto("killed") /\ UNCHANGED flags
    /\ UNCHANGED <<mutex, connected, proto, pipe, thread>>

\* Variant: the thread is told to stop but not woken.
KillCheck_NoWake ==
    /\ main.at = "check"
    /\ IF flags.done
       THEN /\ Goto("killed")
            /\ flags' = [flags EXCEPT !.started = FALSE]
            /\ proto' = Deleted(proto)
            /\ pipe' = FALSE
       ELSE Goto("wait") /\ UNCHANGED <<flags, proto, pipe>>
    /\ UNCHANGED <<mutex, connected, thread>>

\* The loop of killBackgroundProcessor, and what follows it.
KillCheck ==
    /\ main.at = "check"
    /\ IF flags.done
       THEN /\ Goto("killed")
            /\ flags' = [flags EXCEPT !.started = FALSE]
            /\ proto' = Deleted(proto)
            /\ pipe' = FALSE
       ELSE Goto("wait") /\ pipe' = TRUE /\ UNCHANGED <<flags, proto>>
    /\ UNCHANGED <<mutex, connected, thread>>

\* pthread_cond_wait: the mutex is released and the wait starts at once...
KillWait ==
    /\ main.at = "wait"
    /\ main' = [main EXCEPT !.at = "waiting", !.woken = FALSE]
    /\ mutex' = Free
    /\ UNCHANGED <<connected, flags, proto, pipe, thread>>

\* ... and ends with the mutex, after a broadcast or for no reason.
Awake ==
    /\ main.at = "waiting" /\ mutex = Free
    /\ mutex' = Main
    /\ main' = [main EXCEPT !.at = "check", !.woken = FALSE]
    /\ UNCHANGED <<connected, flags, proto, pipe, thread>>

\* Variant: done is left as the previous connection set it.
Start_KeepDone ==
    /\ main.at = "killed" /\ main.op = "connect"
    /\ \E t \in Threads :
          /\ thread[t].at = "none" /\ \A s \in 1 .. t - 1 : thread[s].at # "none"
          /\ thread' = [thread EXCEPT ![t].at = "born"]
          /\ proto' = [state |-> "live", of |-> t, request |-> FALSE, out |-> FALSE]
    /\ flags' = [flags EXCEPT !.started = TRUE, !.terminate = FALSE]
    /\ pipe' = FALSE
    /\ mutex' = Free
    /\ Goto("setOn")
    /\ UNCHANGED connected

\* The rest of Handshake: a new pipe, protocol and thread, fresh flags.
Start ==
    /\ main.at = "killed" /\ main.op = "connect"
    /\ \E t \in Threads :
          /\ thread[t].at = "none" /\ \A s \in 1 .. t - 1 : thread[s].at # "none"
          /\ thread' = [thread EXCEPT ![t].at = "born"]
          /\ proto' = [state |-> "live", of |-> t, request |-> FALSE, out |-> FALSE]
    /\ flags' = [started |-> TRUE, terminate |-> FALSE, done |-> FALSE]
    /\ pipe' = FALSE
    /\ mutex' = Free
    /\ Goto("setOn")
    /\ UNCHANGED connected

\* The end of a disconnection, or of a Handshake that got no pipe.
Unlocked ==
    /\ main.at = "killed"
    /\ mutex' = Free
    /\ Goto("setOff")
    /\ UNCHANGED <<connected, flags, proto, pipe, thread>>

\* DefaultDevice tells the clients the outcome; no lock is held any more.
SetConnected ==
    /\ main.at \in {"setOn", "setOff"}
    /\ connected' = (main.at = "setOn")
    /\ Goto("idle")
    /\ UNCHANGED <<mutex, flags, proto, pipe, thread>>

(* The main loop: calls of the clients.                                    *)

HandlerLocked ==
    /\ main.at = "idle" /\ mutex = Free
    /\ mutex' = Main
    /\ Goto("handler")
    /\ UNCHANGED <<connected, flags, proto, pipe, thread>>

\* Variant: the request is queued and the thread left to find it.
NewRequest_NoWake ==
    /\ main.at = "handler"
    /\ proto.state = "live" /\ ~proto.request
    /\ proto' = [proto EXCEPT !.request = TRUE]
    /\ mutex' = Free
    /\ Goto("idle")
    /\ UNCHANGED <<connected, flags, pipe, thread>>

\* ISNewNumber, ISNewText, ISNewSwitch: the request is queued and the
\* thread woken.
NewRequest ==
    /\ main.at = "handler"
    /\ proto.state = "live" /\ ~proto.request
    /\ proto' = [proto EXCEPT !.request = TRUE]
    /\ pipe' = TRUE
    /\ mutex' = Free
    /\ Goto("idle")
    /\ UNCHANGED <<connected, flags, thread>>

\* ISGetProperties, a request that is refused, or a null protocol.  (Calls
\* on a deleted protocol are undefined; they end up here, and
\* HandlersSeeNoDeleted is about them.)
HandlerDone ==
    /\ main.at = "handler"
    /\ mutex' = Free
    /\ Goto("idle")
    /\ UNCHANGED <<connected, flags, proto, pipe, thread>>

-----------------------------------------------------------------------------
(* The background thread.                                                  *)

\* checkBackgroundProcessorThreadEnd succeeds.
Told(t) ==
    /\ flags.terminate
    /\ flags' = [flags EXCEPT !.done = TRUE]
    /\ Broadcast
    /\ thread' = [thread EXCEPT ![t].at = "finish"]

ThreadLocked(t) ==
    /\ mutex = Free
    /\ \/ thread[t].at = "born"   /\ thread' = [thread EXCEPT ![t].at = "top"]
       \/ thread[t].at = "relock" /\ thread' = [thread EXCEPT ![t].at = "serve"]
    /\ mutex' = t
    /\ UNCHANGED <<connected, flags, proto, pipe, main>>

\* The top of the loop: canWrite calls fillBuffer, which takes the request
\* (or the welcome, or nothing) when the last packet is written.
Top(t) ==
    /\ thread[t].at = "top"
    /\ proto' = IF proto.out THEN proto
                ELSE [proto EXCEPT !.out = proto.request, !.request = FALSE]
    /\ \/ Told(t) /\ UNCHANGED mutex
       \/ /\ ~flags.terminate
          /\ mutex' = Free
          /\ thread' = [thread EXCEPT ![t].at = "select"]
          /\ UNCHANGED <<flags, main>>
    /\ UNCHANGED <<connected, pipe>>

\* select returns: the pipe has bytes, the port has bytes (or is closed),
\* the port accepts bytes and there are some to write.
Select(t) ==
    /\ thread[t].at = "select"
    /\ \E ready \in SUBSET {"pipe", "read", "write"} \ {{}} :
          /\ "pipe" \in ready <=> pipe
          /\ "write" \in ready => proto.out
          /\ thread' = [thread EXCEPT ![t] = [at |-> "relock", ready |-> ready]]
    /\ UNCHANGED <<mutex, connected, flags, proto, pipe, main>>

\* select returns -1: the loop is left without the mutex.
SelectFails(t) ==
    /\ SelectMayFail
    /\ thread[t].at = "select"
    /\ thread' = [thread EXCEPT ![t].at = "finish"]
    /\ UNCHANGED <<mutex, connected, flags, proto, pipe, main>>

\* After select, nothing fails: the pipe is drained, a byte is read and
\* applied, a byte is written (or lost, when the port would block).
Serve(t) ==
    /\ thread[t].at = "serve" /\ ~flags.terminate
    /\ pipe' = (pipe /\ "pipe" \notin thread[t].ready)
    /\ \E more \in BOOLEAN :
          proto' = [proto EXCEPT !.out = @ /\ ("write" \in thread[t].ready => more)]
    /\ thread' = [thread EXCEPT ![t] = [at |-> "top", ready |-> {}]]
    /\ UNCHANGED <<mutex, connected, flags, main>>

\* After select, the thread finds that it must stop.
Stop(t) ==
    /\ thread[t].at = "serve"
    /\ Told(t)
    /\ UNCHANGED <<mutex, connected, proto, pipe>>

\* The port is closed or fails: the thread ends its own connection.  Its
\* call of killBackgroundProcessor finds done set, and does not wait.
PortLost(t) ==
    /\ thread[t].at = "serve" /\ ~flags.terminate
    /\ thread[t].ready \cap {"read", "write"} # {}
    /\ flags' = [flags EXCEPT !.done = TRUE,
                              !.terminate = @ \/ flags.started, !.started = FALSE]
    /\ proto' = IF flags.started THEN Deleted(proto) ELSE proto
    /\ pipe' = FALSE
    /\ thread' = [thread EXCEPT ![t].at = "disconnected"]
    /\ UNCHANGED <<mutex, connected, main>>

\* write returns 0: the loop is left with the mutex.
WriteNothing(t) ==
    /\ thread[t].at = "serve" /\ ~flags.terminate
    /\ "write" \in thread[t].ready
    /\ pipe' = (pipe /\ "pipe" \notin thread[t].ready)
    /\ thread' = [thread EXCEPT ![t].at = "finish"]
    /\ UNCHANGED <<mutex, connected, flags, proto, main>>

\* setConnected(false, IPS_ALERT, ...).
SetDisconnected(t) ==
    /\ thread[t].at = "disconnected"
    /\ connected' = FALSE
    /\ thread' = [thread EXCEPT ![t].at = "finish"]
    /\ UNCHANGED <<mutex, flags, proto, pipe, main>>

\* After the loop: done is set...
Finish(t) ==
    /\ thread[t].at = "finish"
    /\ flags' = [flags EXCEPT !.done = TRUE]
    /\ thread' = [thread EXCEPT ![t].at = "broadcast"]
    /\ UNCHANGED <<mutex, connected, proto, pipe, main>>

\* ... then told, and the mutex is released if it is held.
End(t) ==
    /\ thread[t].at = "broadcast"
    /\ Broadcast
    /\ mutex' = IF mutex = t THEN Free ELSE mutex
    /\ thread' = [thread EXCEPT ![t].at = "ended"]
    /\ UNCHANGED <<connected, flags, proto, pipe>>

-----------------------------------------------------------------------------
Killing == Kill \/ KillCheck \/ KillWait
Handlers == HandlerLocked \/ NewRequest \/ HandlerDone
MainNext == \/ ConnectCalled \/ DisconnectCalled \/ Locked \/ Killing \/ Awake
            \/ Start \/ Unlocked \/ SetConnected \/ Handlers
Running(t) == Top(t) \/ Serve(t) \/ Stop(t) \/ SetDisconnected(t) \/ Finish(t) \/ End(t)
ThreadNext(t) == \/ ThreadLocked(t) \/ Running(t) \/ Select(t) \/ SelectFails(t)
                 \/ PortLost(t) \/ WriteNothing(t)

Next == MainNext \/ \E t \in Threads : ThreadNext(t)
Spec == Init /\ [][Next]_vars

(* Each thread is scheduled; a thread that wants the mutex gets it; select *)
(* returns when the pipe has bytes, and when the port accepts bytes, which *)
(* it does in the end.  A spurious wake of the main loop is never due.     *)
Fairness ==
    /\ WF_vars(Killing) /\ WF_vars(Start \/ Unlocked) /\ WF_vars(SetConnected)
    /\ WF_vars(NewRequest \/ HandlerDone)
    /\ SF_vars(Locked) /\ SF_vars(main.woken /\ Awake)
    /\ \A t \in Threads :
          /\ SF_vars(ThreadLocked(t))
          /\ WF_vars(Running(t))
          /\ WF_vars(pipe /\ Select(t))
          /\ SF_vars(Select(t) /\ "write" \in thread'[t].ready)
          /\ SF_vars(Serve(t) /\ proto.out /\ ~proto'.out)
FairSpec == Spec /\ Fairness

-----------------------------------------------------------------------------
(* A background thread, from its creation to its last use of shared state, *)
(* works on the protocol, device and pipe that were made for it: they are  *)
(* never deleted or replaced under it, whoever ends the connection.        *)
ThreadsUseTheirProtocol ==
    \A t \in Threads :
        thread[t].at \in Active => proto.state = "live" /\ proto.of = t

(* killBackgroundProcessor returns: the thread of the previous connection  *)
(* is woken out of its select, sees that it must stop, and its end reaches *)
(* the main loop.  (Otherwise the whole driver stops answering.)  This is   *)
(* so as long as no thread leaves its loop without the mutex, which only   *)
(* a failure of select makes it do.                                        *)
KillReturnsIfSelectWorks ==
    [](\A t \in Threads : thread[t].at = "finish" => mutex = t)
        => (main.at = "check" ~> main.at = "killed")

(* The same without that condition.                                        *)
KillReturns == main.at = "check" ~> main.at = "killed"

(* A request that was accepted reaches the port or dies with its           *)
(* connection: the thread does not sleep in its select with a request to   *)
(* write.  (A thread that gave up after a write of 0 bytes never will.)    *)
RequestServed ==
    (proto.request /\ \E t \in Threads : thread[t].at \in Active)
        ~> (~proto.request \/ \A t \in Threads : thread[t].at \notin Active)

(* What the handlers test for null is either null or a live protocol.      *)
HandlersSeeNoDeleted == main.at = "handler" => proto.state # "deleted"
=============================================================================
