------------------------------ MODULE DriverProofs ------------------------------
(***************************************************************************)
(* Proofs about the driver: its threads, for any number of connections and *)
(* whether select may fail or not; and its images, for any firmwares: any  *)
(* number of vectors, of which any may keep, lose or change their name,    *)
(* kind and uid when the firmware changes.                                 *)
(***************************************************************************)
EXTENDS DriverThread, DriverImages, FiniteSetTheorems, SequenceTheorems, TLAPS

(* Why a thread keeps its protocol: the mutex is held where the code says  *)
(* so; while a thread is active the connection is started and not done, so *)
(* that nobody deletes its protocol; and a thread that is still to set     *)
(* done (finish) is the one the protocol was made for, so that it cannot   *)
(* set it for the thread of a later connection.                            *)
Held ==
    /\ mutex = Main <=> main.at \in {"kill", "check", "wait", "killed", "handler"}
    /\ \A t \in Threads :
          /\ thread[t].at \in {"top", "serve", "disconnected"} => mutex = t
          /\ mutex = t => thread[t].at \in {"top", "serve", "disconnected",
                                            "finish", "broadcast"}

Owned ==
    \A t \in Threads :
        thread[t].at \in Active \cup {"disconnected", "finish"} => proto.of = t

NotDone ==
    /\ \A t \in Threads :
          thread[t].at \in Active => flags.started /\ ~flags.done
    /\ \A t \in Threads :
          thread[t].at = "finish" => mutex = t \/ (flags.started /\ ~flags.done)
    /\ main.at = "killed" => ~flags.started

Safe == Held /\ Owned /\ NotDone /\ ThreadsUseTheirProtocol

IInv == TypeOK /\ Safe

(* The main loop, the free mutex and the threads are told apart.           *)
LEMMA Holders == Free # Main /\ \A t \in Threads : t # Free /\ t # Main
  BY ConstantsAssumption DEF Free, Main, Threads

LEMMA InitIInv == Init => IInv
<1> SUFFICES ASSUME Init PROVE IInv
  OBVIOUS
<1> USE DEF Active
<1>1. TypeOK
  BY DEF Init, TypeOK, MainPlaces, ThreadPlaces, Flags, Protocol, MainState, ThreadState
<1>2. Held
  BY Holders DEF Init, Held
<1>3. Owned /\ NotDone /\ ThreadsUseTheirProtocol
  BY DEF Init, Owned, NotDone, ThreadsUseTheirProtocol
<1> QED
  BY <1>1, <1>2, <1>3 DEF IInv, Safe

(* What a step does to the records, told once for all steps.               *)
LEMMA MainMoves ==
    ASSUME TypeOK, NEW place \in MainPlaces, main' = [main EXCEPT !.at = place]
    PROVE  main' \in MainState /\ main'.at = place
  BY DEF TypeOK, MainState

LEMMA Broadcasts ==
    ASSUME TypeOK, Broadcast
    PROVE  main' \in MainState /\ main'.at = main.at
  BY DEF TypeOK, MainState, Broadcast

LEMMA ThreadMoves ==
    ASSUME TypeOK, NEW t \in Threads, NEW place \in ThreadPlaces,
           thread' = [thread EXCEPT ![t].at = place]
    PROVE  /\ thread' \in [Threads -> ThreadState]
           /\ thread'[t].at = place
           /\ \A s \in Threads : s # t => thread'[s] = thread[s]
  BY DEF TypeOK, ThreadState

LEMMA ThreadSelects ==
    ASSUME TypeOK, NEW t \in Threads, NEW place \in ThreadPlaces,
           NEW ready \in SUBSET {"pipe", "read", "write"},
           thread' = [thread EXCEPT ![t] = [at |-> place, ready |-> ready]]
    PROVE  /\ thread' \in [Threads -> ThreadState]
           /\ thread'[t].at = place
           /\ \A s \in Threads : s # t => thread'[s] = thread[s]
  BY DEF TypeOK, ThreadState

LEMMA Dones ==
    ASSUME TypeOK, flags' = [flags EXCEPT !.done = TRUE]
    PROVE  flags' \in Flags /\ flags'.started = flags.started /\ flags'.done
  BY DEF TypeOK, Flags

LEMMA Deletes ==
    ASSUME TypeOK, proto' = Deleted(proto)
    PROVE  /\ proto' \in Protocol /\ proto'.of = proto.of
           /\ ~proto'.request /\ ~proto'.out
  BY DEF TypeOK, Protocol, Deleted

(* The main loop.  Only KillCheck, which found done set, and Start, which  *)
(* found the connection not started, touch what the threads rely on.       *)
LEMMA MainInv == IInv /\ MainNext => IInv'
<1> SUFFICES ASSUME IInv, MainNext PROVE IInv'
  OBVIOUS
<1> USE Holders DEF IInv, Safe
<1>0. TypeOK
  OBVIOUS
<1>1. CASE ConnectCalled
  <2>1. main' \in MainState /\ main'.at = "lock"
    BY <1>0, <1>1 DEF ConnectCalled, TypeOK, MainState, MainPlaces
  <2>2. TypeOK'
    BY <1>1, <2>1 DEF ConnectCalled, TypeOK
  <2> QED
    BY <1>1, <2>1, <2>2 DEF ConnectCalled, Held, Owned, NotDone, ThreadsUseTheirProtocol
<1>2. CASE DisconnectCalled
  <2>1. main' \in MainState /\ main'.at = "lock"
    BY <1>0, <1>2 DEF DisconnectCalled, TypeOK, MainState, MainPlaces
  <2>2. TypeOK'
    BY <1>2, <2>1 DEF DisconnectCalled, TypeOK
  <2> QED
    BY <1>2, <2>1, <2>2 DEF DisconnectCalled, Held, Owned, NotDone, ThreadsUseTheirProtocol
<1>3. CASE Locked
  <2>1. main' \in MainState /\ main'.at = "kill"
    BY <1>0, <1>3, MainMoves DEF Locked, Goto, MainPlaces
  <2>2. TypeOK'
    BY <1>3, <2>1 DEF Locked, TypeOK
  <2> QED
    BY <1>3, <2>1, <2>2 DEF Locked, Held, Owned, NotDone, ThreadsUseTheirProtocol
<1>4. CASE Kill
  <2>1. main' \in MainState
    BY <1>0, <1>4, MainMoves DEF Kill, Goto, MainPlaces
  <2>2. main'.at = IF flags.started THEN "check" ELSE "killed"
    BY <1>0, <1>4, MainMoves DEF Kill, Goto, MainPlaces
  <2>3. flags' \in Flags /\ flags'.started = flags.started /\ flags'.done = flags.done
    BY <1>0, <1>4 DEF Kill, TypeOK, Flags
  <2>4. TypeOK'
    BY <1>4, <2>1, <2>3 DEF Kill, TypeOK
  <2> QED
    BY <1>4, <2>2, <2>3, <2>4 DEF Kill, Held, Owned, NotDone, ThreadsUseTheirProtocol
<1>5. CASE KillCheck
  <2>1. CASE flags.done
    <3>1. \A t \in Threads : thread[t].at \notin Active \cup {"finish"}
      BY <1>5, <2>1 DEF KillCheck, NotDone, Held
    <3>2. main' \in MainState /\ main'.at = "killed"
      BY <1>0, <1>5, <2>1, MainMoves DEF KillCheck, Goto, MainPlaces
    <3>3. flags' \in Flags /\ ~flags'.started
      BY <1>0, <1>5, <2>1 DEF KillCheck, TypeOK, Flags
    <3>4. /\ proto' \in Protocol /\ proto'.of = proto.of
          /\ ~proto'.request /\ ~proto'.out
      BY <1>0, <1>5, <2>1, Deletes DEF KillCheck
    <3>5. TypeOK'
      BY <1>5, <2>1, <3>2, <3>3, <3>4 DEF KillCheck, TypeOK
    <3> QED
      BY <1>5, <2>1, <3>1, <3>2, <3>3, <3>4, <3>5 DEF KillCheck, Held, Owned, NotDone, ThreadsUseTheirProtocol
  <2>2. CASE ~flags.done
    <3>1. main' \in MainState /\ main'.at = "wait"
      BY <1>0, <1>5, <2>2, MainMoves DEF KillCheck, Goto, MainPlaces
    <3>2. TypeOK'
      BY <1>5, <2>2, <3>1 DEF KillCheck, TypeOK
    <3> QED
      BY <1>5, <2>2, <3>1, <3>2 DEF KillCheck, Held, Owned, NotDone, ThreadsUseTheirProtocol
  <2> QED
    BY <2>1, <2>2
<1>6. CASE KillWait
  <2>1. main' \in MainState /\ main'.at = "waiting"
    BY <1>0, <1>6 DEF KillWait, TypeOK, MainState, MainPlaces
  <2>2. TypeOK'
    BY <1>6, <2>1 DEF KillWait, TypeOK
  <2> QED
    BY <1>6, <2>1, <2>2 DEF KillWait, Held, Owned, NotDone, ThreadsUseTheirProtocol
<1>7. CASE Awake
  <2>1. main' \in MainState /\ main'.at = "check"
    BY <1>0, <1>7 DEF Awake, TypeOK, MainState, MainPlaces
  <2>2. TypeOK'
    BY <1>7, <2>1 DEF Awake, TypeOK
  <2> QED
    BY <1>7, <2>1, <2>2 DEF Awake, Held, Owned, NotDone, ThreadsUseTheirProtocol
<1>8. CASE Start
  <2>1. PICK t \in Threads :
          /\ thread[t].at = "none"
          /\ thread' = [thread EXCEPT ![t].at = "born"]
          /\ proto' = [state |-> "live", of |-> t, request |-> FALSE, out |-> FALSE]
    BY <1>8 DEF Start
  <2>2. \A s \in Threads : thread[s].at \notin Active \cup {"disconnected", "finish"}
    BY <1>8 DEF Start, NotDone, Held
  <2>3. /\ thread' \in [Threads -> ThreadState]
        /\ thread'[t].at = "born"
        /\ \A s \in Threads : s # t => thread'[s] = thread[s]
    BY <1>0, <2>1, ThreadMoves DEF ThreadPlaces, Active
  <2>4. main' \in MainState /\ main'.at = "setOn"
    BY <1>0, <1>8, MainMoves DEF Start, Goto, MainPlaces
  <2>5. proto' \in Protocol /\ proto'.state = "live" /\ proto'.of = t
    BY <2>1 DEF Protocol
  <2>6. flags' \in Flags /\ flags'.started /\ ~flags'.done
    BY <1>8 DEF Start, Flags
  <2>7. TypeOK'
    BY <1>8, <2>3, <2>4, <2>5, <2>6 DEF Start, TypeOK
  <2>8. Held'
    BY <1>8, <2>3, <2>4 DEF Start, Held
  <2>9. (Owned /\ NotDone /\ ThreadsUseTheirProtocol)'
    BY <1>8, <2>2, <2>3, <2>4, <2>5, <2>6 DEF Start, Owned, NotDone, ThreadsUseTheirProtocol
  <2> QED
    BY <2>7, <2>8, <2>9
<1>9. CASE Unlocked
  <2>1. main' \in MainState /\ main'.at = "setOff"
    BY <1>0, <1>9, MainMoves DEF Unlocked, Goto, MainPlaces
  <2>2. TypeOK'
    BY <1>9, <2>1 DEF Unlocked, TypeOK
  <2> QED
    BY <1>9, <2>1, <2>2 DEF Unlocked, Held, Owned, NotDone, ThreadsUseTheirProtocol
<1>10. CASE SetConnected
  <2>1. main' \in MainState /\ main'.at = "idle"
    BY <1>0, <1>10, MainMoves DEF SetConnected, Goto, MainPlaces
  <2>2. TypeOK'
    BY <1>10, <2>1 DEF SetConnected, TypeOK
  <2> QED
    BY <1>10, <2>1, <2>2 DEF SetConnected, Held, Owned, NotDone, ThreadsUseTheirProtocol
<1>11. CASE HandlerLocked
  <2>1. main' \in MainState /\ main'.at = "handler"
    BY <1>0, <1>11, MainMoves DEF HandlerLocked, Goto, MainPlaces
  <2>2. TypeOK'
    BY <1>11, <2>1 DEF HandlerLocked, TypeOK
  <2> QED
    BY <1>11, <2>1, <2>2 DEF HandlerLocked, Held, Owned, NotDone, ThreadsUseTheirProtocol
<1>12. CASE NewRequest
  <2>1. main' \in MainState /\ main'.at = "idle"
    BY <1>0, <1>12, MainMoves DEF NewRequest, Goto, MainPlaces
  <2>2. proto' \in Protocol /\ proto'.state = "live" /\ proto'.of = proto.of
    BY <1>0, <1>12 DEF NewRequest, TypeOK, Protocol
  <2>3. TypeOK'
    BY <1>12, <2>1, <2>2 DEF NewRequest, TypeOK
  <2> QED
    BY <1>12, <2>1, <2>2, <2>3 DEF NewRequest, Held, Owned, NotDone, ThreadsUseTheirProtocol
<1>13. CASE HandlerDone
  <2>1. main' \in MainState /\ main'.at = "idle"
    BY <1>0, <1>13, MainMoves DEF HandlerDone, Goto, MainPlaces
  <2>2. TypeOK'
    BY <1>13, <2>1 DEF HandlerDone, TypeOK
  <2> QED
    BY <1>13, <2>1, <2>2 DEF HandlerDone, Held, Owned, NotDone, ThreadsUseTheirProtocol
<1> QED
  BY <1>1, <1>2, <1>3, <1>4, <1>5, <1>6, <1>7, <1>8, <1>9, <1>10, <1>11, <1>12, <1>13
  DEF MainNext, Killing, Handlers

(* A background thread.  Whatever it sets done or deletes is its own.      *)
LEMMA ThreadInv == ASSUME NEW t \in Threads, IInv, ThreadNext(t) PROVE IInv'
<1> USE Holders DEF IInv, Safe, Active
<1>0. TypeOK
  OBVIOUS
<1>00. ASSUME proto.of = t
       PROVE  \A s \in Threads : s # t =>
                 thread[s].at \notin Active \cup {"disconnected", "finish"}
  BY <1>00 DEF Owned
<1>1. CASE ThreadLocked(t)
  <2>1. /\ thread' \in [Threads -> ThreadState]
        /\ thread'[t].at \in {"top", "serve"}
        /\ \A s \in Threads : s # t => thread'[s] = thread[s]
    BY <1>0, <1>1, ThreadMoves DEF ThreadLocked, ThreadPlaces
  <2>2. TypeOK'
    BY <1>1, <2>1 DEF ThreadLocked, TypeOK
  <2> QED
    BY <1>1, <2>1, <2>2 DEF ThreadLocked, Held, Owned, NotDone, ThreadsUseTheirProtocol
<1>2. CASE Top(t)
  <2>1. /\ proto' \in Protocol /\ proto'.of = proto.of
        /\ proto'.state = proto.state /\ proto.state = "live"
    BY <1>0, <1>2 DEF Top, TypeOK, Protocol, ThreadsUseTheirProtocol
  <2>2. CASE Told(t)
    <3>1. flags' \in Flags /\ flags'.started = flags.started /\ flags'.done
      BY <1>0, <2>2, Dones DEF Told
    <3>2. main' \in MainState /\ main'.at = main.at
      BY <1>0, <2>2, Broadcasts DEF Told
    <3>3. /\ thread' \in [Threads -> ThreadState]
          /\ thread'[t].at = "finish"
          /\ \A s \in Threads : s # t => thread'[s] = thread[s]
      BY <1>0, <2>2, ThreadMoves DEF Told, ThreadPlaces
    <3>4. mutex' = mutex /\ mutex = t /\ proto.of = t
      BY <1>2, <2>2 DEF Top, Told, Held, Owned, TypeOK, Flags
    <3>5. TypeOK'
      BY <1>2, <2>1, <3>1, <3>2, <3>3, <3>4 DEF Top, TypeOK
    <3> QED
      BY <1>2, <1>00, <2>1, <3>1, <3>2, <3>3, <3>4, <3>5 DEF Top, Held, Owned, NotDone, ThreadsUseTheirProtocol
  <2>3. CASE ~Told(t)
    <3>1. /\ mutex' = Free
          /\ thread' = [thread EXCEPT ![t].at = "select"]
          /\ UNCHANGED <<flags, main>>
      BY <1>2, <2>3 DEF Top
    <3>2. /\ thread' \in [Threads -> ThreadState]
          /\ thread'[t].at = "select"
          /\ \A s \in Threads : s # t => thread'[s] = thread[s]
      BY <1>0, <3>1, ThreadMoves DEF ThreadPlaces
    <3>3. TypeOK'
      BY <1>2, <2>1, <3>1, <3>2 DEF Top, TypeOK
    <3> QED
      BY <1>2, <2>1, <3>1, <3>2, <3>3 DEF Top, Held, Owned, NotDone, ThreadsUseTheirProtocol
  <2> QED
    BY <2>2, <2>3
<1>3. CASE Select(t)
  <2>1. /\ thread' \in [Threads -> ThreadState]
        /\ thread'[t].at = "relock"
        /\ \A s \in Threads : s # t => thread'[s] = thread[s]
    BY <1>0, <1>3, ThreadSelects DEF Select, ThreadPlaces
  <2>2. TypeOK'
    BY <1>3, <2>1 DEF Select, TypeOK
  <2> QED
    BY <1>3, <2>1, <2>2 DEF Select, Held, Owned, NotDone, ThreadsUseTheirProtocol
<1>4. CASE SelectFails(t)
  <2>1. /\ thread' \in [Threads -> ThreadState]
        /\ thread'[t].at = "finish"
        /\ \A s \in Threads : s # t => thread'[s] = thread[s]
    BY <1>0, <1>4, ThreadMoves DEF SelectFails, ThreadPlaces
  <2>2. TypeOK'
    BY <1>4, <2>1 DEF SelectFails, TypeOK
  <2> QED
    BY <1>4, <2>1, <2>2 DEF SelectFails, Held, Owned, NotDone, ThreadsUseTheirProtocol
<1>5. CASE Serve(t)
  <2>1. /\ thread' \in [Threads -> ThreadState]
        /\ thread'[t].at = "top"
        /\ \A s \in Threads : s # t => thread'[s] = thread[s]
    <3>1. thread' = [thread EXCEPT ![t] = [at |-> "top", ready |-> {}]]
      BY <1>5 DEF Serve
    <3>2. "top" \in ThreadPlaces /\ {} \in SUBSET {"pipe", "read", "write"}
      BY DEF ThreadPlaces
    <3> QED
      BY <1>0, <3>1, <3>2, ThreadSelects
  <2>2. /\ proto' \in Protocol /\ proto'.of = proto.of
        /\ proto'.state = proto.state /\ proto.state = "live"
    BY <1>0, <1>5 DEF Serve, TypeOK, Protocol, ThreadsUseTheirProtocol
  <2>3. TypeOK'
    BY <1>5, <2>1, <2>2 DEF Serve, TypeOK
  <2> QED
    BY <1>5, <2>1, <2>2, <2>3 DEF Serve, Held, Owned, NotDone, ThreadsUseTheirProtocol
<1>6. CASE Stop(t)
  <2>1. /\ thread' \in [Threads -> ThreadState]
        /\ thread'[t].at = "finish"
        /\ \A s \in Threads : s # t => thread'[s] = thread[s]
    BY <1>0, <1>6, ThreadMoves DEF Stop, Told, ThreadPlaces
  <2>2. flags' \in Flags /\ flags'.started = flags.started /\ flags'.done
    BY <1>0, <1>6, Dones DEF Stop, Told
  <2>3. main' \in MainState /\ main'.at = main.at
    BY <1>0, <1>6, Broadcasts DEF Stop, Told
  <2>4. mutex = t /\ proto.of = t
    BY <1>6 DEF Stop, Held, Owned
  <2>5. TypeOK'
    BY <1>6, <2>1, <2>2, <2>3 DEF Stop, TypeOK
  <2> QED
    BY <1>6, <1>00, <2>1, <2>2, <2>3, <2>4, <2>5 DEF Stop, Held, Owned, NotDone, ThreadsUseTheirProtocol
<1>7. CASE PortLost(t)
  <2>1. /\ thread' \in [Threads -> ThreadState]
        /\ thread'[t].at = "disconnected"
        /\ \A s \in Threads : s # t => thread'[s] = thread[s]
    BY <1>0, <1>7, ThreadMoves DEF PortLost, ThreadPlaces
  <2>2. flags' \in Flags /\ ~flags'.started
    BY <1>0, <1>7 DEF PortLost, TypeOK, Flags
  <2>3. flags.started /\ mutex = t /\ proto.of = t
    BY <1>7 DEF PortLost, Held, Owned, NotDone
  <2>4. /\ proto' \in Protocol /\ proto'.of = proto.of
        /\ ~proto'.request /\ ~proto'.out
    BY <1>0, <1>7, <2>3, Deletes DEF PortLost
  <2>5. TypeOK'
    BY <1>7, <2>1, <2>2, <2>4 DEF PortLost, TypeOK
  <2> QED
    BY <1>7, <1>00, <2>1, <2>2, <2>3, <2>4, <2>5 DEF PortLost, Held, Owned, NotDone, ThreadsUseTheirProtocol
<1>8. CASE WriteNothing(t)
  <2>1. /\ thread' \in [Threads -> ThreadState]
        /\ thread'[t].at = "finish"
        /\ \A s \in Threads : s # t => thread'[s] = thread[s]
    BY <1>0, <1>8, ThreadMoves DEF WriteNothing, ThreadPlaces
  <2>2. TypeOK'
    BY <1>8, <2>1 DEF WriteNothing, TypeOK
  <2> QED
    BY <1>8, <2>1, <2>2 DEF WriteNothing, Held, Owned, NotDone, ThreadsUseTheirProtocol
<1>9. CASE SetDisconnected(t)
  <2>1. /\ thread' \in [Threads -> ThreadState]
        /\ thread'[t].at = "finish"
        /\ \A s \in Threads : s # t => thread'[s] = thread[s]
    BY <1>0, <1>9, ThreadMoves DEF SetDisconnected, ThreadPlaces
  <2>2. TypeOK'
    BY <1>9, <2>1 DEF SetDisconnected, TypeOK
  <2> QED
    BY <1>9, <2>1, <2>2 DEF SetDisconnected, Held, Owned, NotDone, ThreadsUseTheirProtocol
<1>10. CASE Finish(t)
  <2>1. /\ thread' \in [Threads -> ThreadState]
        /\ thread'[t].at = "broadcast"
        /\ \A s \in Threads : s # t => thread'[s] = thread[s]
    BY <1>0, <1>10, ThreadMoves DEF Finish, ThreadPlaces
  <2>2. flags' \in Flags /\ flags'.started = flags.started /\ flags'.done
    BY <1>0, <1>10, Dones DEF Finish
  <2>3. proto.of = t
    BY <1>10 DEF Finish, Owned
  <2>4. TypeOK'
    BY <1>10, <2>1, <2>2 DEF Finish, TypeOK
  <2> QED
    BY <1>10, <1>00, <2>1, <2>2, <2>3, <2>4 DEF Finish, Held, Owned, NotDone, ThreadsUseTheirProtocol
<1>11. CASE End(t)
  <2>1. /\ thread' \in [Threads -> ThreadState]
        /\ thread'[t].at = "ended"
        /\ \A s \in Threads : s # t => thread'[s] = thread[s]
    BY <1>0, <1>11, ThreadMoves DEF End, ThreadPlaces
  <2>2. main' \in MainState /\ main'.at = main.at
    BY <1>0, <1>11, Broadcasts DEF End
  <2>3. TypeOK'
    BY <1>11, <2>1, <2>2 DEF End, TypeOK
  <2> QED
    BY <1>11, <2>1, <2>2, <2>3 DEF End, Held, Owned, NotDone, ThreadsUseTheirProtocol
<1> QED
  BY <1>1, <1>2, <1>3, <1>4, <1>5, <1>6, <1>7, <1>8, <1>9, <1>10, <1>11
  DEF ThreadNext, Running

THEOREM Invariance == Spec => []IInv
<1>1. IInv /\ [Next]_vars => IInv'
  <2> SUFFICES ASSUME IInv, [Next]_vars PROVE IInv'
    OBVIOUS
  <2>1. CASE UNCHANGED vars
    BY <2>1 DEF vars, IInv, Safe, TypeOK, Held, Owned, NotDone, ThreadsUseTheirProtocol
  <2> QED
    BY <2>1, MainInv, ThreadInv DEF Next
<1> QED
  BY InitIInv, <1>1, PTL DEF Spec

(* The flags, the mutex and the places of the threads keep their types,    *)
(* and a deleted protocol holds no request (SimpleDevice, simpledevice.h). *)
THEOREM TypeCorrect == Spec => []TypeOK
  BY Invariance, PTL DEF IInv

(* No background thread is ever left with a protocol, device or pipe that  *)
(* was deleted or replaced (killBackgroundProcessor waits for done, and    *)
(* Handshake kills before it makes new ones), even when its select fails.  *)
THEOREM ProtocolsOutliveThreads == Spec => []ThreadsUseTheirProtocol
  BY Invariance, PTL DEF IInv, Safe

-----------------------------------------------------------------------------
(* The images.                                                             *)

\* The tables t, which know an image by its uid and by its name or, if there
\* is none, not at all.
Agree(t) ==
    \A i \in Ids :
        /\ \A u \in Uids : i \in t.byUid[u] <=> t.images[i] # Nil /\ t.images[i].uid = u
        /\ \A n \in Names : i \in t.byName[n] <=> t.images[i] # Nil /\ t.images[i].def.name = n

Singles(t) == /\ \A u \in Uids : Single(t.byUid[u])
              /\ \A n \in Names : Single(t.byName[n])

\* An image that owns a vector of the list is found by its uid.
OwnsListed(t) == \A u \in Uids : t.list[u].is = "image" => t.list[u].id \in t.byUid[u]

Sound(t) == t \in Tables /\ Agree(t) /\ Singles(t) /\ OwnsListed(t)

\* Uid u, with definition d: the list has a live vector, and an image of that
\* definition publishes it.  If it owns the vector of the list, what it has,
\* and the clients see (s), is the value x.
Lands(t, u, d) ==
    /\ t.list[u].is \in {"image", "listed"}
    /\ t.list[u].is = "image" => t.list[u].id \in t.byUid[u]
    /\ \E i \in t.byUid[u] : t.images[i].def = d

Latest(t, u, x, s) ==
    t.list[u].is = "image" => t.images[t.list[u].id].value = x /\ s = {x}

\* The list is that of the firmware that runs, as far as it goes.
Steady == \A u \in 0 .. Len(fw) - 1 : tables.list[u] = Nil \/ Lands(tables, u, Def(u))

ImagesIInv ==
    /\ fw \in Layouts /\ told \in 0 .. Len(fw) /\ value \in [Uids -> Values]
    /\ shown \in [Names -> SUBSET Values] /\ \A n \in Names : Single(shown[n])
    /\ Sound(tables)
    /\ asked \subseteq Uids /\ changed \in BOOLEAN
    /\ \A u \in 0 .. told - 1 : /\ Lands(tables, u, Def(u))
                                /\ Latest(tables, u, value[u], shown[Def(u).name])
    /\ ~changed => Steady

-----------------------------------------------------------------------------
(* There are finitely many uids, and more identifiers than uids.           *)
LEMMA MoreIds ==
    /\ IsFiniteSet(Uids) /\ IsFiniteSet(Ids)
    /\ Cardinality(Uids) < Cardinality(Ids)
<1> DEFINE f == [l \in Layouts |-> 0 .. Len(l) - 1]
           T == {f[l] : l \in Layouts}
<1>1. IsFiniteSet(T)
  <2>1. f \in Surjection(Layouts, T)
    <3>1. f \in [Layouts -> T]
      OBVIOUS
    <3>2. \A x \in T : \E l \in Layouts : f[l] = x
      OBVIOUS
    <3> HIDE DEF f, T
    <3> QED  BY <3>1, <3>2 DEF Surjection
  <2> HIDE DEF f, T
  <2> QED  BY <2>1, LayoutsAssumption, FS_Surjection
<1>2. \A x \in T : IsFiniteSet(x)
  <2> SUFFICES ASSUME NEW l \in Layouts PROVE IsFiniteSet(0 .. Len(l) - 1)
    OBVIOUS
  <2>1. Len(l) \in Nat
    BY LayoutsAssumption, LenProperties
  <2>2. 0 \in Int /\ Len(l) - 1 \in Int
    BY <2>1
  <2> QED  BY <2>2, FS_Interval
<1>3. Uids = UNION T
  BY DEF Uids
<1> HIDE DEF T
<1>4. IsFiniteSet(Uids)
  BY <1>1, <1>2, <1>3, FS_UNION
<1>5. Cardinality(Uids) \in Nat
  BY <1>4, FS_CardinalityType
<1> DEFINE c == Cardinality(Uids)
<1> HIDE DEF c
<1>6. 0 \in Int /\ c \in Int /\ c \in Nat
  BY <1>5 DEF c
<1>7. IsFiniteSet(0 .. c) /\ Cardinality(0 .. c) = IF 0 > c THEN 0 ELSE c - 0 + 1
  BY <1>6, FS_Interval
<1>8. Cardinality(0 .. c) = c + 1
  BY <1>6, <1>7
<1> QED  BY <1>4, <1>6, <1>7, <1>8 DEF Ids, c

(* The definitions of a firmware, and the names of its vectors.            *)
LEMMA DefType ==
    ASSUME fw \in Layouts, NEW u \in 0 .. Len(fw) - 1
    PROVE  u \in Uids /\ Def(u) \in Defs /\ Def(u).name \in Names
<1>1. fw \in Seq(Defs) /\ Len(fw) \in Nat
  BY LayoutsAssumption, LenProperties
<1>2. u + 1 \in 1 .. Len(fw)
  BY <1>1
<1>3. Def(u) \in Defs
  BY <1>1, <1>2, ElementOfSeq DEF Def
<1>4. u \in Uids
  BY DEF Uids
<1> QED  BY <1>3, <1>4 DEF Names

LEMMA DefNames ==
    ASSUME fw \in Layouts, NEW u \in 0 .. Len(fw) - 1, NEW w \in 0 .. Len(fw) - 1,
           Def(u).name = Def(w).name
    PROVE  u = w
<1>1. Len(fw) \in Nat
  BY LayoutsAssumption, LenProperties
<1>2. u + 1 \in 1 .. Len(fw) /\ w + 1 \in 1 .. Len(fw)
  BY <1>1
<1>3. u + 1 = w + 1
  BY <1>2, LayoutsAssumption DEF Def
<1> QED  BY <1>1, <1>3

(* What an entry of the list is.                                           *)
LEMMA EntryForms ==
    /\ Nil.is = "nil" /\ Freed.is = "freed"
    /\ \A i : ImageVector(i).is = "image" /\ ImageVector(i).id = i
    /\ \A x : OnlyListed(x).is = "listed"
    /\ \A e \in Entry : e.is = "image" => e.id \in Ids /\ e = ImageVector(e.id)
    /\ \A e \in Entry : e.is = "listed" => e.value \in Values
    /\ \A e \in Entry : e.is = "nil" => e = Nil
    /\ Nil \in Entry /\ Freed \in Entry
    /\ \A i \in Ids : ImageVector(i) \in Entry
    /\ \A x \in Values : OnlyListed(x) \in Entry
<1>1. Nil.is = "nil" /\ Freed.is = "freed"
  BY DEF Nil, Freed
<1>2. \A i : ImageVector(i).is = "image" /\ ImageVector(i).id = i
  BY DEF ImageVector
<1>3. \A x : OnlyListed(x).is = "listed"
  BY DEF OnlyListed
<1>4. /\ Nil \in Entry /\ Freed \in Entry
      /\ \A i \in Ids : ImageVector(i) \in Entry
      /\ \A x \in Values : OnlyListed(x) \in Entry
  BY Zenon DEF Entry
<1>5. ASSUME NEW e \in Entry, e.is = "image" PROVE e.id \in Ids /\ e = ImageVector(e.id)
  <2>1. e \notin {Nil, Freed} /\ \A x : e # OnlyListed(x)
    BY <1>1, <1>3, <1>5
  <2>2. PICK i \in Ids : e = ImageVector(i)
    BY <2>1, Zenon DEF Entry
  <2> QED  BY <1>2, <2>2
<1>6. ASSUME NEW e \in Entry, e.is = "listed" PROVE e.value \in Values
  <2>1. e \notin {Nil, Freed} /\ \A x : e # ImageVector(x)
    BY <1>1, <1>2, <1>6
  <2>2. PICK x \in Values : e = OnlyListed(x)
    BY <2>1, Zenon DEF Entry
  <2> QED  BY <2>2 DEF OnlyListed
<1>7. ASSUME NEW e \in Entry, e.is = "nil" PROVE e = Nil
  <2>1. e # Freed /\ \A x : e # ImageVector(x) /\ e # OnlyListed(x)
    BY <1>1, <1>2, <1>3, <1>7
  <2> QED  BY <2>1, Zenon DEF Entry
<1> QED  BY <1>1, <1>2, <1>3, <1>4, <1>5, <1>6, <1>7

LEMMA ImageIsNotNil == Nil \notin Image
  BY DEF Nil, Image

LEMMA NewImage ==
    ASSUME NEW u \in Uids, NEW d \in Defs, NEW x \in Values
    PROVE  LET m == [uid |-> u, def |-> d, value |-> x]
           IN  m \in Image /\ m.uid = u /\ m.def = d /\ m.value = x /\ m # Nil
<1> DEFINE m == [uid |-> u, def |-> d, value |-> x]
<1>1. m \in Image /\ m.uid = u /\ m.def = d /\ m.value = x
  BY Zenon DEF Image
<1> QED  BY <1>1, ImageIsNotNil

LEMMA ImageFields ==
    ASSUME NEW t \in Tables, NEW i \in Ids, t.images[i] # Nil
    PROVE  /\ t.images[i] \in Image
           /\ t.images[i].uid \in Uids /\ t.images[i].def \in Defs
           /\ t.images[i].def.name \in Names /\ t.images[i].value \in Values
<1>1. t.images[i] \in Image
  BY Zenon DEF Tables
<1>2. t.images[i].uid \in Uids /\ t.images[i].def \in Defs /\ t.images[i].value \in Values
  BY <1>1, Zenon DEF Image
<1> QED  BY <1>1, <1>2 DEF Names

-----------------------------------------------------------------------------
(* destroy: the images of S are gone, with their entries and their vectors.*)
LEMMA DestroyKeeps ==
    ASSUME NEW t, Sound(t), NEW S \in SUBSET Ids
    PROVE  LET r == Destroy(t, S)
           IN  /\ Sound(r)
               /\ \A i \in Ids : r.images[i] = IF i \in S THEN Nil ELSE t.images[i]
               /\ \A u \in Uids : /\ r.byUid[u] = t.byUid[u] \ S
                                  /\ \/ r.list[u] = t.list[u]
                                     \/ \E i \in S : t.list[u] = ImageVector(i)
               /\ \A n \in Names : r.byName[n] = t.byName[n] \ S
<1> DEFINE dead == {i \in S : t.images[i] # Nil}
           l == [u \in Uids |-> IF t.list[u] \in {ImageVector(i) : i \in dead}
                                THEN Freed ELSE t.list[u]]
           m == [i \in Ids |-> IF i \in dead THEN Nil ELSE t.images[i]]
           bu == [u \in Uids |-> IF \E i \in dead : t.images[i].uid = u
                                 THEN {} ELSE t.byUid[u]]
           bn == [n \in Names |-> IF \E i \in dead : t.images[i].def.name = n
                                  THEN {} ELSE t.byName[n]]
           r == [list |-> l, images |-> m, byUid |-> bu, byName |-> bn]
<1>1. Destroy(t, S) = r
  BY Zenon DEF Destroy
<1>2. /\ t.list \in [Uids -> Entry] /\ t.images \in [Ids -> Image \cup {Nil}]
      /\ t.byUid \in [Uids -> SUBSET Ids] /\ t.byName \in [Names -> SUBSET Ids]
  BY Zenon DEF Sound, Tables
<1>3. /\ l \in [Uids -> Entry] /\ m \in [Ids -> Image \cup {Nil}]
      /\ bu \in [Uids -> SUBSET Ids] /\ bn \in [Names -> SUBSET Ids]
  BY <1>2, EntryForms
<1>4. \A i \in Ids : m[i] = IF i \in S THEN Nil ELSE t.images[i]
  OBVIOUS
<1>5. \A u \in Uids : l[u] = t.list[u] \/ \E i \in S : t.list[u] = ImageVector(i)
  OBVIOUS
<1>11. ASSUME NEW u \in Uids, l[u].is = "image"
       PROVE  l[u] = t.list[u] /\ t.list[u].id \notin S
  <2>1. l[u] = t.list[u] /\ t.list[u] \notin {ImageVector(i) : i \in dead}
    BY <1>11, EntryForms
  <2>2. t.list[u].id \in Ids /\ t.list[u] = ImageVector(t.list[u].id)
    BY <1>2, <1>11, <2>1, EntryForms
  <2>3. t.list[u].id \in t.byUid[u]
    BY <1>11, <2>1 DEF Sound, OwnsListed
  <2>4. t.images[t.list[u].id] # Nil
    BY <2>2, <2>3 DEF Sound, Agree
  <2> QED  BY <2>1, <2>2, <2>4
<1>6. \A u \in Uids : bu[u] = t.byUid[u] \ S
  <2> SUFFICES ASSUME NEW u \in Uids PROVE bu[u] = t.byUid[u] \ S
    OBVIOUS
  <2>1. CASE \E i \in dead : t.images[i].uid = u
    <3>1. PICK i \in dead : t.images[i].uid = u
      BY <2>1
    <3>2. i \in t.byUid[u]
      BY <3>1 DEF Sound, Agree
    <3>3. t.byUid[u] = {i}
      BY <3>2 DEF Sound, Singles, Single
    <3> QED  BY <2>1, <3>1, <3>3
  <2>2. CASE ~\E i \in dead : t.images[i].uid = u
    <3>1. \A i \in S : i \notin t.byUid[u]
      BY <2>2 DEF Sound, Agree
    <3> QED  BY <2>2, <3>1
  <2> QED  BY <2>1, <2>2
<1>7. \A n \in Names : bn[n] = t.byName[n] \ S
  <2> SUFFICES ASSUME NEW n \in Names PROVE bn[n] = t.byName[n] \ S
    OBVIOUS
  <2>1. CASE \E i \in dead : t.images[i].def.name = n
    <3>1. PICK i \in dead : t.images[i].def.name = n
      BY <2>1
    <3>2. i \in t.byName[n]
      BY <3>1 DEF Sound, Agree
    <3>3. t.byName[n] = {i}
      BY <3>2 DEF Sound, Singles, Single
    <3> QED  BY <2>1, <3>1, <3>3
  <2>2. CASE ~\E i \in dead : t.images[i].def.name = n
    <3>1. \A i \in S : i \notin t.byName[n]
      BY <2>2 DEF Sound, Agree
    <3> QED  BY <2>2, <3>1
  <2> QED  BY <2>1, <2>2
<1> HIDE DEF l, m, bu, bn
<1>8. r \in Tables /\ r.list = l /\ r.images = m /\ r.byUid = bu /\ r.byName = bn
  BY <1>3, Zenon DEF Tables
<1> HIDE DEF r
<1>9. Agree(r)
  BY <1>4, <1>6, <1>7, <1>8 DEF Sound, Agree
<1>10. Singles(r)
  BY <1>6, <1>7, <1>8 DEF Sound, Singles, Single
<1>12. OwnsListed(r)
  BY <1>6, <1>8, <1>11 DEF Sound, OwnsListed
<1> QED  BY <1>1, <1>4, <1>5, <1>6, <1>7, <1>8, <1>9, <1>10, <1>12 DEF Sound

(* There is always an identifier, that is memory, for one more image.      *)
LEMMA FreeId ==
    ASSUME NEW t, Sound(t)
    PROVE  \E i \in Ids : t.images[i] = Nil
<1> SUFFICES ASSUME \A i \in Ids : t.images[i] # Nil PROVE FALSE
  OBVIOUS
<1> DEFINE f == [i \in Ids |-> t.images[i].uid]
<1>1. f \in [Ids -> Uids]
  BY ImageFields DEF Sound
<1>2. PICK i \in Ids, j \in Ids : i # j /\ f[i] = f[j]
  <2> HIDE DEF f
  <2> QED  BY <1>1, MoreIds, FS_PigeonHole
<1>3. f[i] \in Uids /\ t.images[i].uid = f[i] /\ t.images[j].uid = f[i]
  BY <1>1, <1>2
<1>4. i \in t.byUid[f[i]] /\ j \in t.byUid[f[i]]
  BY <1>3 DEF Sound, Agree
<1> QED  BY <1>2, <1>3, <1>4 DEF Sound, Singles, Single

-----------------------------------------------------------------------------
(* announced: the tables stay sound, the vector that is announced lands,   *)
(* and nothing changes for a vector with another uid and another name.     *)
LEMMA AnnouncedKeeps ==
    ASSUME NEW t, Sound(t), NEW u \in Uids, NEW d \in Defs, NEW x \in Values
    PROVE  LET r == Announced(t, u, d, x)
           IN  /\ Sound(r) /\ Lands(r, u, d)
               /\ Latest(r, u, x, {x})
               /\ \A w \in Uids \ {u}, e \in Defs : \A y, s :
                     (e.name # d.name /\ Lands(t, w, e) /\ Latest(t, w, y, s))
                        => Lands(r, w, e) /\ Latest(r, w, y, s)
               /\ \A w \in Uids \ {u} : t.list[w] = Nil => r.list[w] = Nil
<1> DEFINE l == [t EXCEPT !.list[u] = OnlyListed(x)]
           c1 == Destroy(l, t.byUid[u])
           c == Destroy(c1, c1.byName[d.name])
           new == CHOOSE i \in Ids : c.images[i] = Nil
           m == [uid |-> u, def |-> d, value |-> x]
           z == [c EXCEPT !.images[new] = m, !.list[u] = ImageVector(new),
                          !.byUid[u] = {new}, !.byName[d.name] = {new}]
           same == \E i \in t.byUid[u] : t.images[i].def = d
<1>1. Announced(t, u, d, x) = IF same THEN l ELSE z
  <2>1. l.byUid[u] = t.byUid[u]
    BY Zenon DEF Sound, Tables
  <2> QED  BY <2>1, Zenon DEF Announced
<1>2. d.name \in Names
  BY DEF Names
<1>3. /\ t.list \in [Uids -> Entry] /\ t.images \in [Ids -> Image \cup {Nil}]
      /\ t.byUid \in [Uids -> SUBSET Ids] /\ t.byName \in [Names -> SUBSET Ids]
  BY Zenon DEF Sound, Tables
<1> DEFINE ll == [t.list EXCEPT ![u] = OnlyListed(x)]
<1>4. /\ ll \in [Uids -> Entry] /\ ll[u] = OnlyListed(x)
      /\ \A w \in Uids \ {u} : ll[w] = t.list[w]
  BY <1>3, EntryForms
<1>5. l = [t EXCEPT !.list = ll]
  BY Zenon
<1> HIDE DEF ll, l
<1>6. /\ l \in Tables /\ l.list = ll /\ l.images = t.images
      /\ l.byUid = t.byUid /\ l.byName = t.byName
  BY <1>3, <1>4, <1>5, Zenon DEF Sound, Tables
<1>7. Sound(l)
  <2>1. OwnsListed(l)
    BY <1>4, <1>6, EntryForms DEF Sound, OwnsListed
  <2> QED  BY <1>6, <2>1 DEF Sound, Agree, Singles
<1>8. CASE same
  <2>1. Lands(l, u, d)
    BY <1>4, <1>6, <1>8, EntryForms DEF Lands
  <2>2. Latest(l, u, x, {x})
    BY <1>4, <1>6, EntryForms DEF Latest
  <2>3. \A w \in Uids \ {u}, e \in Defs : \A y, s :
           Lands(t, w, e) /\ Latest(t, w, y, s) => Lands(l, w, e) /\ Latest(l, w, y, s)
    BY <1>4, <1>6 DEF Lands, Latest
  <2>4. \A w \in Uids \ {u} : t.list[w] = Nil => l.list[w] = Nil
    BY <1>4, <1>6
  <2> QED  BY <1>1, <1>7, <1>8, <2>1, <2>2, <2>3, <2>4
<1>9. CASE ~same
  <2> DEFINE A == t.byUid[u]
             B == c1.byName[d.name]
  <2>1. A \in SUBSET Ids
    BY <1>3
  <2> HIDE DEF c1
  <2>2. /\ Sound(c1)
        /\ \A i \in Ids : c1.images[i] = IF i \in A THEN Nil ELSE t.images[i]
        /\ \A w \in Uids : /\ c1.byUid[w] = t.byUid[w] \ A
                           /\ c1.list[w] = ll[w] \/ \E i \in A : ll[w] = ImageVector(i)
        /\ \A n \in Names : c1.byName[n] = t.byName[n] \ A
    BY <1>6, <1>7, <2>1, DestroyKeeps DEF c1
  <2>3. B \in SUBSET Ids
    <3>1. c1.byName \in [Names -> SUBSET Ids]
      BY <2>2, Zenon DEF Sound, Tables
    <3> QED  BY <1>2, <3>1
  <2> HIDE DEF A, B, c
  <2>4. /\ Sound(c)
        /\ \A i \in Ids : c.images[i] = IF i \in B THEN Nil ELSE c1.images[i]
        /\ \A w \in Uids : /\ c.byUid[w] = c1.byUid[w] \ B
                           /\ c.list[w] = c1.list[w] \/ \E i \in B : c1.list[w] = ImageVector(i)
        /\ \A n \in Names : c.byName[n] = c1.byName[n] \ B
    BY <2>2, <2>3, DestroyKeeps DEF c, B
  <2>5. new \in Ids /\ c.images[new] = Nil
    BY <2>4, FreeId
  <2>6. m \in Image /\ m.uid = u /\ m.def = d /\ m.value = x /\ m # Nil
    BY NewImage
  <2>7. /\ c.list \in [Uids -> Entry] /\ c.images \in [Ids -> Image \cup {Nil}]
        /\ c.byUid \in [Uids -> SUBSET Ids] /\ c.byName \in [Names -> SUBSET Ids]
    BY <2>4, Zenon DEF Sound, Tables
  <2> HIDE DEF new, m
  <2> DEFINE zl == [c.list EXCEPT ![u] = ImageVector(new)]
             zm == [c.images EXCEPT ![new] = m]
             zu == [c.byUid EXCEPT ![u] = {new}]
             zn == [c.byName EXCEPT ![d.name] = {new}]
  <2>8. z = [c EXCEPT !.images = zm, !.list = zl, !.byUid = zu, !.byName = zn]
    BY <2>4, Zenon DEF Sound, Tables
  <2>9. /\ zl \in [Uids -> Entry] /\ zl[u] = ImageVector(new)
        /\ \A w \in Uids \ {u} : zl[w] = c.list[w]
    BY <2>5, <2>7, EntryForms
  <2>10. /\ zm \in [Ids -> Image \cup {Nil}] /\ zm[new] = m
         /\ \A i \in Ids \ {new} : zm[i] = c.images[i]
    BY <2>5, <2>6, <2>7
  <2>11. /\ zu \in [Uids -> SUBSET Ids] /\ zu[u] = {new}
         /\ \A w \in Uids \ {u} : zu[w] = c.byUid[w]
    BY <2>5, <2>7
  <2>12. /\ zn \in [Names -> SUBSET Ids] /\ zn[d.name] = {new}
         /\ \A n \in Names \ {d.name} : zn[n] = c.byName[n]
    BY <1>2, <2>5, <2>7
  <2> HIDE DEF zl, zm, zu, zn, z
  <2>13. z \in Tables /\ z.list = zl /\ z.images = zm /\ z.byUid = zu /\ z.byName = zn
    BY <2>4, <2>8, <2>9, <2>10, <2>11, <2>12, Zenon DEF Sound, Tables
  <2>14. /\ \A i \in Ids : i \in c.byUid[u] => FALSE
         /\ \A i \in Ids : i \in c.byName[d.name] => FALSE
    BY <1>2, <2>2, <2>4 DEF A, B
  <2>15. /\ \A w \in Uids : new \notin c.byUid[w]
         /\ \A n \in Names : new \notin c.byName[n]
    BY <2>4, <2>5 DEF Sound, Agree
  <2>16. Agree(z)
    <3> SUFFICES ASSUME NEW i \in Ids
                 PROVE  /\ \A w \in Uids : i \in zu[w] <=> zm[i] # Nil /\ zm[i].uid = w
                        /\ \A n \in Names : i \in zn[n] <=> zm[i] # Nil /\ zm[i].def.name = n
      BY <2>13 DEF Agree
    <3>1. CASE i = new
      BY <2>6, <2>10, <2>11, <2>12, <2>15, <3>1
    <3>2. CASE i # new
      <4>1. zm[i] = c.images[i]
        BY <2>10, <3>2
      <4>2. \A w \in Uids : i \in zu[w] <=> i \in c.byUid[w]
        BY <2>11, <2>14, <3>2
      <4>3. \A n \in Names : i \in zn[n] <=> i \in c.byName[n]
        BY <2>12, <2>14, <3>2
      <4> QED  BY <2>4, <4>1, <4>2, <4>3 DEF Sound, Agree
    <3> QED  BY <3>1, <3>2
  <2>17. Singles(z)
    BY <2>4, <2>11, <2>12, <2>13 DEF Sound, Singles, Single
  <2>18. Lands(z, u, d) /\ Latest(z, u, x, {x})
    BY <2>6, <2>9, <2>10, <2>11, <2>13, EntryForms DEF Lands, Latest
  <2>19. ASSUME NEW w \in Uids \ {u}, NEW e \in Defs, NEW y, NEW s,
                e.name # d.name, Lands(t, w, e), Latest(t, w, y, s)
         PROVE  Lands(z, w, e) /\ Latest(z, w, y, s)
    <3>1. PICK k \in t.byUid[w] : t.images[k].def = e
      BY <2>19 DEF Lands
    <3>2. k \in Ids /\ t.images[k] # Nil /\ t.images[k].uid = w /\ t.byUid[w] = {k}
      BY <1>3, <3>1 DEF Sound, Agree, Singles, Single
    <3>3. k \notin A
      BY <3>2 DEF Sound, Agree, A
    <3>4. c1.images[k] = t.images[k]
      BY <2>2, <3>2, <3>3
    <3>5. k \notin B
      BY <1>2, <2>2, <2>19, <3>1, <3>2, <3>4 DEF Sound, Agree, B
    <3>6. c.images[k] = t.images[k] /\ k # new
      BY <2>4, <2>5, <3>2, <3>4, <3>5
    <3>7. zm[k] = t.images[k] /\ zu[w] = {k}
      BY <2>2, <2>4, <2>10, <2>11, <3>2, <3>3, <3>5, <3>6
    <3>8. zl[w] = t.list[w]
      <4>1. \A i : t.list[w] = ImageVector(i) => i = k
        BY <2>19, <3>2, EntryForms DEF Lands
      <4>2. ll[w] = t.list[w]
        BY <1>4
      <4>3. c1.list[w] = t.list[w]
        BY <2>2, <3>3, <4>1, <4>2
      <4>4. c.list[w] = t.list[w]
        BY <2>4, <3>5, <4>1, <4>3
      <4> QED  BY <2>9, <4>4
    <3>9. t.list[w].is = "image" => t.list[w].id = k
      BY <2>19, <3>2 DEF Lands
    <3>10. Lands(z, w, e)
      BY <2>13, <2>19, <3>1, <3>7, <3>8, <3>9 DEF Lands
    <3>11. Latest(z, w, y, s)
      BY <2>13, <2>19, <3>7, <3>8, <3>9 DEF Latest
    <3> QED  BY <3>10, <3>11
  <2>20. Announced(t, u, d, x) = z
    BY <1>1, <1>9
  <2>21. ASSUME NEW w \in Uids \ {u}, t.list[w] = Nil
         PROVE  z.list[w] = Nil
    <3>1. \A i : Nil # ImageVector(i)
      BY EntryForms
    <3> QED  BY <1>4, <2>2, <2>4, <2>9, <2>13, <2>21, <3>1
  <2>22. OwnsListed(z)
    BY <2>4, <2>9, <2>11, <2>13, EntryForms DEF Sound, OwnsListed
  <2> QED  BY <2>13, <2>16, <2>17, <2>18, <2>19, <2>20, <2>21, <2>22 DEF Sound
<1> QED  BY <1>8, <1>9

(* updated, where the update lands.                                        *)
LEMMA UpdatedKeeps ==
    ASSUME NEW t, Sound(t), NEW u \in Uids, NEW d \in Defs, NEW x \in Values, Lands(t, u, d)
    PROVE  LET r == Updated(t, u, x)
           IN  /\ Sound(r) /\ Lands(r, u, d)
               /\ Latest(r, u, x, {x})
               /\ \A w \in Uids \ {u}, e \in Defs : \A y, s :
                     Lands(t, w, e) /\ Latest(t, w, y, s)
                        => Lands(r, w, e) /\ Latest(r, w, y, s)
               /\ \A w \in Uids \ {u} : t.list[w] = Nil => r.list[w] = Nil
<1>1. /\ t.list \in [Uids -> Entry] /\ t.images \in [Ids -> Image \cup {Nil}]
      /\ t.byUid \in [Uids -> SUBSET Ids] /\ t.byName \in [Names -> SUBSET Ids]
  BY Zenon DEF Sound, Tables
<1>2. CASE t.list[u].is = "image"
  <2> DEFINE k == t.list[u].id
             m == [t.images[k] EXCEPT !.value = x]
             zm == [t.images EXCEPT ![k] = m]
             r == [t EXCEPT !.images = zm]
  <2>1. k \in Ids /\ k \in t.byUid[u]
    BY <1>1, <1>2, EntryForms DEF Lands
  <2>2. t.images[k] # Nil /\ t.images[k] \in Image /\ t.images[k].uid = u
    BY <2>1, ImageFields DEF Sound, Agree
  <2>3. /\ m \in Image /\ m.uid = u /\ m.def = t.images[k].def /\ m.value = x
    BY <2>2, Zenon DEF Image
  <2>4. Updated(t, u, x) = r
    BY <1>2, Zenon DEF Updated
  <2> HIDE DEF k, m
  <2>5. /\ zm \in [Ids -> Image \cup {Nil}] /\ zm[k] = m
        /\ \A i \in Ids \ {k} : zm[i] = t.images[i]
    BY <1>1, <2>1, <2>3
  <2> HIDE DEF zm
  <2>6. /\ r \in Tables /\ r.images = zm /\ r.list = t.list
        /\ r.byUid = t.byUid /\ r.byName = t.byName
    BY <2>5, Zenon DEF Sound, Tables
  <2> HIDE DEF r
  <2>7. \A i \in Ids : /\ zm[i] = Nil <=> t.images[i] = Nil
                       /\ zm[i].uid = t.images[i].uid /\ zm[i].def = t.images[i].def
    BY <2>2, <2>3, <2>5, ImageIsNotNil
  <2>8. Sound(r)
    BY <2>6, <2>7 DEF Sound, Agree, Singles, OwnsListed
  <2>9. \A w \in Uids, e \in Defs : Lands(t, w, e) => Lands(r, w, e)
    BY <1>1, <2>6, <2>7 DEF Lands
  <2>10. Latest(r, u, x, {x})
    BY <2>3, <2>5, <2>6 DEF Latest, k
  <2>11. ASSUME NEW w \in Uids \ {u}, NEW e \in Defs, NEW y, NEW s,
                Lands(t, w, e), Latest(t, w, y, s)
         PROVE  Latest(r, w, y, s)
    <3>1. t.list[w].is = "image" => t.list[w].id \in Ids \ {k}
      BY <1>1, <2>2, <2>11 DEF Lands, Sound, Agree
    <3> QED  BY <2>5, <2>6, <2>11, <3>1 DEF Latest
  <2> QED  BY <2>4, <2>6, <2>8, <2>9, <2>10, <2>11
<1>3. CASE t.list[u].is # "image"
  <2> DEFINE zl == [t.list EXCEPT ![u] = OnlyListed(x)]
             r == [t EXCEPT !.list = zl]
  <2>1. Updated(t, u, x) = r
    <3>1. t.list[u].is = "listed"
      BY <1>3 DEF Lands
    <3> QED  BY <1>3, <3>1, Zenon DEF Updated
  <2>2. /\ zl \in [Uids -> Entry] /\ zl[u] = OnlyListed(x)
        /\ \A w \in Uids \ {u} : zl[w] = t.list[w]
    BY <1>1, EntryForms
  <2> HIDE DEF zl
  <2>3. /\ r \in Tables /\ r.images = t.images /\ r.list = zl
        /\ r.byUid = t.byUid /\ r.byName = t.byName
    BY <2>2, Zenon DEF Sound, Tables
  <2> HIDE DEF r
  <2>4. Sound(r)
    BY <2>2, <2>3, EntryForms DEF Sound, Agree, Singles, OwnsListed
  <2>5. Lands(r, u, d) /\ Latest(r, u, x, {x})
    BY <2>2, <2>3, EntryForms DEF Lands, Latest
  <2>6. \A w \in Uids \ {u}, e \in Defs : \A y, s :
           Lands(t, w, e) /\ Latest(t, w, y, s) => Lands(r, w, e) /\ Latest(r, w, y, s)
    BY <2>2, <2>3 DEF Lands, Latest
  <2> QED  BY <2>1, <2>2, <2>3, <2>4, <2>5, <2>6
<1> QED  BY <1>2, <1>3

-----------------------------------------------------------------------------
(* The tables of a new protocol.                                           *)
LEMMA EmptyIsSound == Sound(Empty)
<1> DEFINE l == [u \in Uids |-> Nil]
           m == [i \in Ids |-> Nil]
           bu == [u \in Uids |-> {}]
           bn == [n \in Names |-> {}]
           r == [list |-> l, images |-> m, byUid |-> bu, byName |-> bn]
<1>1. Empty = r
  BY DEF Empty
<1>2. /\ l \in [Uids -> Entry] /\ m \in [Ids -> Image \cup {Nil}]
      /\ bu \in [Uids -> SUBSET Ids] /\ bn \in [Names -> SUBSET Ids]
  BY EntryForms
<1>3. /\ \A u \in Uids : l[u] = Nil
      /\ \A i \in Ids : m[i] = Nil
      /\ \A u \in Uids : bu[u] = {}
      /\ \A n \in Names : bn[n] = {}
  OBVIOUS
<1> HIDE DEF l, m, bu, bn
<1>4. r \in Tables /\ r.list = l /\ r.images = m /\ r.byUid = bu /\ r.byName = bn
  BY <1>2, Zenon DEF Tables
<1> HIDE DEF r
<1>5. Agree(r) /\ Singles(r) /\ OwnsListed(r)
  <2>1. \A u \in Uids : r.list[u] = Nil
    BY <1>3, <1>4
  <2>2. OwnsListed(r)
    BY <2>1, EntryForms DEF OwnsListed
  <2> QED  BY <1>3, <1>4, <2>2 DEF Agree, Singles, Single
<1> QED  BY <1>1, <1>4, <1>5 DEF Sound

LEMMA EmptyIsSteady == ASSUME fw \in Layouts, tables = Empty PROVE Steady
<1> SUFFICES ASSUME NEW u \in 0 .. Len(fw) - 1 PROVE tables.list[u] = Nil
  BY DEF Steady
<1>1. u \in Uids
  BY DefType
<1> QED  BY <1>1 DEF Empty

LEMMA InitImagesIInv == ImagesInit => ImagesIInv
<1> SUFFICES ASSUME ImagesInit PROVE ImagesIInv
  OBVIOUS
<1>1. Sound(tables)
  BY EmptyIsSound DEF ImagesInit
<1>2. value \in [Uids -> Values]
  <2>1. 0 \in Values
    BY LayoutsAssumption DEF Values
  <2> QED  BY <2>1 DEF ImagesInit
<1>3. fw \in Layouts /\ told \in 0 .. Len(fw)
  <2>1. Len(fw) \in Nat
    BY LayoutsAssumption, LenProperties DEF ImagesInit
  <2> QED  BY <2>1 DEF ImagesInit
<1>4. shown \in [Names -> SUBSET Values] /\ \A n \in Names : Single(shown[n])
  BY DEF ImagesInit, Single
<1>5. \A u \in 0 .. told - 1 : FALSE
  BY DEF ImagesInit
<1>6. Steady
  BY EmptyIsSteady DEF ImagesInit
<1>7. asked \subseteq Uids /\ changed \in BOOLEAN
  BY DEF ImagesInit
<1> QED  BY <1>1, <1>2, <1>3, <1>4, <1>5, <1>6, <1>7 DEF ImagesIInv

(* The vectors announced so far have uids, and are named in the firmware.  *)
LEMMA ToldNames ==
    ASSUME ImagesIInv, NEW u \in 0 .. told - 1
    PROVE  u \in 0 .. Len(fw) - 1 /\ u \in Uids /\ Def(u) \in Defs /\ Def(u).name \in Names
<1>1. Len(fw) \in Nat
  BY LayoutsAssumption, LenProperties DEF ImagesIInv
<1>2. u \in 0 .. Len(fw) - 1
  BY <1>1 DEF ImagesIInv
<1> QED  BY <1>2, DefType DEF ImagesIInv

LEMMA AnnounceInv == ImagesIInv /\ Announce => ImagesIInv'
<1> SUFFICES ASSUME ImagesIInv, Announce PROVE ImagesIInv'
  OBVIOUS
<1> DEFINE d == Def(told)
           x == value[told]
<1>1. Len(fw) \in Nat /\ told \in Nat /\ told \in 0 .. Len(fw) - 1 /\ told' = told + 1
  BY LayoutsAssumption, LenProperties DEF ImagesIInv, Announce
<1>2. told \in Uids /\ d \in Defs /\ d.name \in Names
  BY <1>1, DefType DEF ImagesIInv
<1>3. x \in Values
  BY <1>2 DEF ImagesIInv
<1>4. /\ tables' = Announced(tables, told, d, x)
      /\ shown' = [shown EXCEPT ![d.name] = {x}]
      /\ UNCHANGED <<fw, value, asked>>
      /\ changed' = (changed /\ told' < Len(fw))
  BY DEF Announce
<1>5. \A u : Def(u)' = Def(u)
  BY <1>4 DEF Def
<1> HIDE DEF d, x
<1>6. /\ Sound(tables') /\ Lands(tables', told, d) /\ Latest(tables', told, x, {x})
      /\ \A w \in Uids \ {told}, e \in Defs : \A y, s :
            (e.name # d.name /\ Lands(tables, w, e) /\ Latest(tables, w, y, s))
               => Lands(tables', w, e) /\ Latest(tables', w, y, s)
      /\ \A w \in Uids \ {told} : tables.list[w] = Nil => tables'.list[w] = Nil
  BY <1>2, <1>3, <1>4, AnnouncedKeeps DEF ImagesIInv
<1>7. /\ shown' \in [Names -> SUBSET Values] /\ shown'[d.name] = {x}
      /\ \A n \in Names \ {d.name} : shown'[n] = shown[n]
  BY <1>2, <1>3, <1>4 DEF ImagesIInv
<1>8. \A n \in Names : Single(shown'[n])
  BY <1>7 DEF ImagesIInv, Single
<1>9. fw' \in Layouts /\ told' \in 0 .. Len(fw') /\ value' \in [Uids -> Values]
  BY <1>1, <1>4 DEF ImagesIInv
<1>10. ASSUME NEW u \in 0 .. told' - 1
       PROVE  /\ Lands(tables', u, Def(u)')
              /\ Latest(tables', u, value'[u], shown'[Def(u)'.name])
  <2>1. CASE u = told
    BY <1>4, <1>5, <1>6, <1>7, <2>1 DEF d, x
  <2>2. CASE u # told
    <3>1. u \in 0 .. told - 1
      BY <1>1, <2>2
    <3>2. /\ u \in 0 .. Len(fw) - 1 /\ u \in Uids \ {told}
          /\ Def(u) \in Defs /\ Def(u).name \in Names
      BY <2>2, <3>1, ToldNames
    <3>3. Def(u).name # d.name
      BY <1>1, <2>2, <3>2, DefNames DEF ImagesIInv, d
    <3>4. Lands(tables, u, Def(u)) /\ Latest(tables, u, value[u], shown[Def(u).name])
      BY <3>1 DEF ImagesIInv
    <3>5. Lands(tables', u, Def(u)) /\ Latest(tables', u, value[u], shown[Def(u).name])
      BY <1>6, <3>2, <3>3, <3>4
    <3> QED  BY <1>4, <1>5, <1>7, <3>2, <3>3, <3>5
  <2> QED  BY <2>1, <2>2
<1>11. asked' \subseteq Uids /\ changed' \in BOOLEAN
  BY <1>4 DEF ImagesIInv
<1>12. ASSUME ~changed' PROVE Steady'
  <2>1. CASE told' = Len(fw)
    BY <1>4, <1>10, <2>1 DEF Steady
  <2>2. CASE told' # Len(fw)
    <3>1. ~changed
      BY <1>1, <1>4, <1>12, <2>2 DEF ImagesIInv
    <3> SUFFICES ASSUME NEW u \in 0 .. Len(fw) - 1, u # told
                 PROVE  tables'.list[u] = Nil \/ Lands(tables', u, Def(u))
      BY <1>4, <1>5, <1>6 DEF Steady, d
    <3>2. u \in Uids \ {told} /\ Def(u) \in Defs
      BY DefType DEF ImagesIInv
    <3>3. CASE tables.list[u] = Nil
      BY <1>6, <3>2, <3>3
    <3>4. CASE Lands(tables, u, Def(u))
      <4>1. Def(u).name # d.name
        BY <1>1, DefNames DEF ImagesIInv, d
      <4> DEFINE y == tables.images[tables.list[u].id].value
      <4>2. Latest(tables, u, y, {y})
        BY DEF Latest
      <4> QED  BY <1>6, <3>2, <3>4, <4>1, <4>2
    <3> QED  BY <3>1, <3>3, <3>4 DEF ImagesIInv, Steady
  <2> QED  BY <2>1, <2>2
<1> QED  BY <1>6, <1>7, <1>8, <1>9, <1>10, <1>11, <1>12 DEF ImagesIInv

LEMMA UpdateInv == ASSUME NEW u \in Uids, ImagesIInv, Update(u) PROVE ImagesIInv'
<1>1. PICK x \in Values :
         /\ value' = [value EXCEPT ![u] = x]
         /\ tables' = Updated(tables, u, x)
         /\ shown' = [n \in Names |->
               IF \E i \in tables.byUid[u] : tables.images[i].def.name = n
               THEN {x} ELSE shown[n]]
  BY Zenon DEF Update, Published
<1>2. UNCHANGED <<fw, told, asked, changed>> /\ u < told
  BY DEF Update
<1>3. u \in 0 .. told - 1
  <2>1. Len(fw) \in Nat /\ \A l \in Layouts : Len(l) \in Nat
    BY LayoutsAssumption, LenProperties DEF ImagesIInv
  <2>2. u \in Nat
    BY <2>1 DEF Uids
  <2>3. told \in Nat
    BY <2>1 DEF ImagesIInv
  <2> QED  BY <1>2, <2>2, <2>3
<1>4. Def(u) \in Defs /\ Def(u).name \in Names /\ u \in 0 .. Len(fw) - 1
  BY <1>3, ToldNames
<1>5. Sound(tables) /\ Lands(tables, u, Def(u))
  BY <1>3 DEF ImagesIInv
<1>6. /\ Sound(tables') /\ Lands(tables', u, Def(u)) /\ Latest(tables', u, x, {x})
      /\ \A w \in Uids \ {u}, e \in Defs : \A y, s :
            Lands(tables, w, e) /\ Latest(tables, w, y, s)
               => Lands(tables', w, e) /\ Latest(tables', w, y, s)
      /\ \A w \in Uids \ {u} : tables.list[w] = Nil => tables'.list[w] = Nil
  BY <1>1, <1>4, <1>5, UpdatedKeeps
<1>7. \A n : (\E i \in tables.byUid[u] : tables.images[i].def.name = n) <=> n = Def(u).name
  <2>1. PICK k \in tables.byUid[u] : tables.images[k].def = Def(u)
    BY <1>5 DEF Lands
  <2>2. tables.byUid[u] = {k}
    BY <1>5, <2>1 DEF Sound, Singles, Single
  <2> QED  BY <2>1, <2>2
<1>8. /\ shown' \in [Names -> SUBSET Values] /\ shown'[Def(u).name] = {x}
      /\ \A n \in Names \ {Def(u).name} : shown'[n] = shown[n]
  BY <1>1, <1>4, <1>7 DEF ImagesIInv
<1>9. \A n \in Names : Single(shown'[n])
  BY <1>8 DEF ImagesIInv, Single
<1>10. /\ value' \in [Uids -> Values] /\ value'[u] = x
       /\ \A w \in Uids \ {u} : value'[w] = value[w]
  BY <1>1 DEF ImagesIInv
<1>11. \A w : Def(w)' = Def(w)
  BY <1>2 DEF Def
<1>12. ASSUME NEW w \in 0 .. told' - 1
       PROVE  /\ Lands(tables', w, Def(w)')
              /\ Latest(tables', w, value'[w], shown'[Def(w)'.name])
  <2>1. CASE w = u
    BY <1>6, <1>8, <1>10, <1>11, <2>1
  <2>2. CASE w # u
    <3>1. /\ w \in 0 .. Len(fw) - 1 /\ w \in Uids \ {u} /\ Def(w) \in Defs
          /\ Def(w).name \in Names /\ w \in 0 .. told - 1
      BY <1>2, <2>2, ToldNames
    <3>2. Def(w).name # Def(u).name
      BY <1>4, <2>2, <3>1, DefNames DEF ImagesIInv
    <3>3. Lands(tables', w, Def(w)) /\ Latest(tables', w, value[w], shown[Def(w).name])
      BY <1>6, <3>1 DEF ImagesIInv
    <3> QED  BY <1>8, <1>10, <1>11, <3>1, <3>2, <3>3
  <2> QED  BY <2>1, <2>2
<1>13. fw' \in Layouts /\ told' \in 0 .. Len(fw')
  BY <1>2 DEF ImagesIInv
<1>14. asked' \subseteq Uids /\ changed' \in BOOLEAN
  BY <1>2 DEF ImagesIInv
<1>15. ASSUME ~changed' PROVE Steady'
  <2> SUFFICES ASSUME NEW w \in 0 .. Len(fw) - 1, w # u
               PROVE  tables'.list[w] = Nil \/ Lands(tables', w, Def(w))
    BY <1>2, <1>6, <1>11 DEF Steady
  <2>1. w \in Uids \ {u} /\ Def(w) \in Defs
    BY DefType DEF ImagesIInv
  <2>2. CASE tables.list[w] = Nil
    BY <1>6, <2>1, <2>2
  <2>3. CASE Lands(tables, w, Def(w))
    <3> DEFINE y == tables.images[tables.list[w].id].value
    <3>1. Latest(tables, w, y, {y})
      BY DEF Latest
    <3> QED  BY <1>6, <2>1, <2>3, <3>1
  <2> QED  BY <1>2, <1>15, <2>2, <2>3 DEF ImagesIInv, Steady
<1> QED  BY <1>6, <1>8, <1>9, <1>10, <1>12, <1>13, <1>14, <1>15 DEF ImagesIInv

(* A client's request: nothing but the uids it may be answered for.        *)
LEMMA RequestInv == ASSUME NEW n \in Names, ImagesIInv, Request(n) PROVE ImagesIInv'
<1>1. /\ asked' = asked \cup {tables.images[i].uid : i \in tables.byName[n]}
      /\ UNCHANGED <<fw, told, value, tables, shown, changed>>
  BY DEF Request
<1>2. ASSUME NEW i \in tables.byName[n] PROVE tables.images[i].uid \in Uids
  <2>1. i \in Ids
    <3>1. tables.byName \in [Names -> SUBSET Ids]
      BY Zenon DEF ImagesIInv, Sound, Tables
    <3> QED  BY <1>2, <3>1
  <2>2. tables.images[i] # Nil
    BY <1>2, <2>1 DEF ImagesIInv, Sound, Agree
  <2> QED  BY <2>1, <2>2, ImageFields DEF ImagesIInv, Sound
<1>3. asked' \subseteq Uids
  BY <1>1, <1>2 DEF ImagesIInv
<1> QED  BY <1>1, <1>3 DEF ImagesIInv, Steady, Def

(* A driver that starts anew.                                              *)
LEMMA AnewInv ==
    ASSUME ImagesIInv, tables' = Empty, told' = 0, UNCHANGED <<fw, value>>,
           asked' \subseteq Uids, changed' = FALSE,
           shown' \in [Names -> SUBSET Values], \A n \in Names : Single(shown'[n])
    PROVE  ImagesIInv'
<1>1. Len(fw') \in Nat
  BY LayoutsAssumption, LenProperties DEF ImagesIInv
<1>2. told' \in 0 .. Len(fw') /\ \A u \in 0 .. told' - 1 : FALSE
  BY <1>1
<1>3. Steady'
  <2> SUFFICES ASSUME NEW u \in 0 .. Len(fw) - 1 PROVE tables'.list[u] = Nil
    BY DEF Steady
  <2>1. u \in Uids
    BY DefType DEF ImagesIInv
  <2> QED  BY <2>1 DEF Empty
<1> QED  BY <1>2, <1>3, EmptyIsSound DEF ImagesIInv

(* The pseudo BUSY, wherever it lands: what it publishes under the name of *)
(* an announced vector is what that vector has.                            *)
LEMMA BusyInv == ASSUME NEW u \in Uids, ImagesIInv, Busy(u) PROVE ImagesIInv'
<1>1. /\ asked' \in {asked, asked \ {u}} /\ asked' \subseteq Uids
      /\ UNCHANGED <<fw, value>>
  BY DEF Busy, ImagesIInv
<1>2. CASE UNCHANGED <<told, tables, shown, changed>>
  BY <1>1, <1>2 DEF ImagesIInv, Steady, Def
<1>3. CASE Dies
  <2>1. shown' \in [Names -> SUBSET Values] /\ \A n \in Names : Single(shown'[n])
    BY <1>3 DEF Dies, Single
  <2> QED  BY <1>1, <1>3, <2>1, AnewInv DEF Dies
<1>4. CASE /\ tables.list[u].is \in {"image", "listed"} /\ tables.byUid[u] # {}
           /\ shown' = Published(u, Listed(u))
           /\ UNCHANGED <<told, tables, changed>>
  <2>1. /\ tables.list \in [Uids -> Entry] /\ tables.images \in [Ids -> Image \cup {Nil}]
        /\ tables.byUid \in [Uids -> SUBSET Ids] /\ tables.byName \in [Names -> SUBSET Ids]
        /\ tables \in Tables
    BY Zenon DEF ImagesIInv, Sound, Tables
  <2>2. PICK k \in Ids : tables.byUid[u] = {k}
    BY <1>4, <2>1 DEF ImagesIInv, Sound, Singles, Single
  <2>3. /\ tables.images[k] # Nil /\ tables.images[k].uid = u
        /\ tables.images[k].def.name \in Names
        /\ k \in tables.byName[tables.images[k].def.name]
    BY <2>1, <2>2, ImageFields DEF ImagesIInv, Sound, Agree
  <2> DEFINE n == tables.images[k].def.name
             x == Listed(u)
  <2>4. /\ shown'[n] = {x}
        /\ \A o \in Names \ {n} : shown'[o] = shown[o]
        /\ shown' = [o \in Names |-> shown'[o]]
    BY <1>4, <2>2, <2>3 DEF Published
  <2>5. tables.list[u].is = "image" => x = tables.images[k].value
    BY <2>2 DEF Listed, ImagesIInv, Sound, OwnsListed
  <2>6. x \in Values
    <3>1. CASE tables.list[u].is = "image"
      BY <2>1, <2>3, <2>5, <3>1, ImageFields
    <3>2. CASE tables.list[u].is = "listed"
      BY <2>1, <3>2, EntryForms DEF Listed
    <3> QED  BY <1>4, <3>1, <3>2
  <2> HIDE DEF n, x
  <2>7. \A o \in Names : shown'[o] \in SUBSET Values /\ Single(shown'[o])
    BY <2>4, <2>6 DEF ImagesIInv, Single
  <2>8. shown' \in [Names -> SUBSET Values] /\ \A o \in Names : Single(shown'[o])
    BY <2>4, <2>7
  <2>9. ASSUME NEW w \in 0 .. told - 1
        PROVE  Latest(tables, w, value[w], shown'[Def(w).name])
    <3>1. w \in Uids /\ Def(w).name \in Names
      BY ToldNames
    <3>2. Lands(tables, w, Def(w)) /\ Latest(tables, w, value[w], shown[Def(w).name])
      BY DEF ImagesIInv
    <3>3. CASE Def(w).name # n
      BY <2>4, <3>1, <3>2, <3>3 DEF Latest
    <3>4. CASE Def(w).name = n
      <4>1. PICK i \in tables.byUid[w] : tables.images[i].def = Def(w)
        BY <3>2 DEF Lands
      <4>2. i \in Ids /\ i \in tables.byName[n]
        BY <2>1, <3>1, <3>4, <4>1 DEF ImagesIInv, Sound, Agree
      <4>3. i = k
        BY <2>3, <4>2 DEF ImagesIInv, Sound, Singles, Single, n
      <4>4. w = u
        BY <2>3, <3>1, <4>1, <4>2, <4>3 DEF ImagesIInv, Sound, Agree
      <4>5. tables.list[u].is = "image" => tables.list[u].id = k
        BY <2>2 DEF ImagesIInv, Sound, OwnsListed
      <4> QED  BY <2>4, <2>5, <3>2, <3>4, <4>4, <4>5 DEF Latest
    <3> QED  BY <3>3, <3>4
  <2>10. \A w : Def(w)' = Def(w)
    BY <1>1 DEF Def
  <2>11. Steady' <=> Steady
    BY <1>1, <1>4, <2>10 DEF Steady
  <2> QED  BY <1>1, <1>4, <2>8, <2>9, <2>10, <2>11 DEF ImagesIInv
<1> QED  BY <1>2, <1>3, <1>4 DEF Busy

LEMMA AnnounceAllInv == ImagesIInv /\ AnnounceAll => ImagesIInv'
<1> SUFFICES ASSUME ImagesIInv, AnnounceAll PROVE ImagesIInv'
  OBVIOUS
<1>1. /\ shown' = [n \in Names |->
            IF tables.byName[n] = {} THEN shown[n]
            ELSE {tables.images[i].value : i \in tables.byName[n]}]
      /\ UNCHANGED <<fw, told, value, tables, asked, changed>>
  BY DEF AnnounceAll
<1>2. tables.byName \in [Names -> SUBSET Ids]
  BY Zenon DEF ImagesIInv, Sound, Tables
<1>3. ASSUME NEW n \in Names, NEW k \in tables.byName[n]
      PROVE  shown'[n] = {tables.images[k].value} /\ tables.images[k].value \in Values
  <2>1. tables.byName[n] = {k} /\ k \in Ids
    BY <1>2, <1>3 DEF ImagesIInv, Sound, Singles, Single
  <2>2. tables.images[k] # Nil
    BY <1>3, <2>1 DEF ImagesIInv, Sound, Agree
  <2>3. tables.images[k].value \in Values
    BY <2>1, <2>2, ImageFields DEF ImagesIInv, Sound
  <2> QED  BY <1>1, <2>1, <2>3
<1>4. \A n \in Names : tables.byName[n] = {} => shown'[n] = shown[n]
  BY <1>1
<1>5. \A n \in Names : shown'[n] \in SUBSET Values /\ Single(shown'[n])
  <2> SUFFICES ASSUME NEW n \in Names PROVE shown'[n] \in SUBSET Values /\ Single(shown'[n])
    OBVIOUS
  <2>1. CASE tables.byName[n] = {}
    BY <1>4, <2>1 DEF ImagesIInv
  <2>2. CASE tables.byName[n] # {}
    <3>1. PICK k \in tables.byName[n] : TRUE
      BY <2>2
    <3> QED  BY <1>3, <3>1 DEF Single
  <2> QED  BY <2>1, <2>2
<1>6. shown' \in [Names -> SUBSET Values]
  <2>1. shown' = [n \in Names |-> shown'[n]]
    BY <1>1
  <2> QED  BY <1>5, <2>1
<1>7. \A u : Def(u)' = Def(u)
  BY <1>1 DEF Def
<1>8. ASSUME NEW u \in 0 .. told - 1
      PROVE  Latest(tables, u, value[u], shown'[Def(u).name])
  <2>1. u \in Uids /\ Def(u).name \in Names
    BY ToldNames
  <2>2. Lands(tables, u, Def(u)) /\ Latest(tables, u, value[u], shown[Def(u).name])
    BY DEF ImagesIInv
  <2>3. SUFFICES ASSUME tables.list[u].is = "image"
                 PROVE  /\ tables.images[tables.list[u].id].value = value[u]
                        /\ shown'[Def(u).name] = {value[u]}
    BY DEF Latest
  <2> DEFINE k == tables.list[u].id
  <2>4. k \in tables.byUid[u] /\ tables.images[k].value = value[u]
    BY <2>2, <2>3 DEF Lands, Latest
  <2>5. tables.images[k].def = Def(u)
    BY <2>1, <2>2, <2>4 DEF Lands, ImagesIInv, Sound, Singles, Single
  <2>6. k \in Ids
    <3>1. tables.byUid \in [Uids -> SUBSET Ids]
      BY Zenon DEF ImagesIInv, Sound, Tables
    <3> QED  BY <2>1, <2>4, <3>1
  <2>7. k \in tables.byName[Def(u).name]
    BY <2>1, <2>4, <2>5, <2>6 DEF ImagesIInv, Sound, Agree
  <2> QED  BY <1>3, <2>1, <2>4, <2>7
<1>9. Steady' <=> Steady
  BY <1>1, <1>7 DEF Steady
<1> QED  BY <1>1, <1>5, <1>6, <1>7, <1>8, <1>9 DEF ImagesIInv

LEMMA RestartInv == ImagesIInv /\ Restart => ImagesIInv'
<1> SUFFICES ASSUME ImagesIInv, Restart PROVE ImagesIInv'
  OBVIOUS
<1>1. /\ told' = 0 /\ fw' \in Layouts /\ value' \in [Uids -> Values]
      /\ changed' = (changed \/ fw' # fw)
      /\ UNCHANGED <<tables, shown, asked>>
  BY DEF Restart
<1>2. Len(fw') \in Nat
  BY <1>1, LayoutsAssumption, LenProperties
<1>3. told' \in 0 .. Len(fw') /\ \A u \in 0 .. told' - 1 : FALSE
  BY <1>1, <1>2
<1>4. changed' \in BOOLEAN /\ (~changed' => ~changed /\ fw' = fw)
  BY <1>1 DEF ImagesIInv
<1>5. ~changed' => Steady'
  BY <1>1, <1>4 DEF ImagesIInv, Steady, Def
<1> QED  BY <1>1, <1>3, <1>4, <1>5 DEF ImagesIInv

LEMMA ReconnectInv == ImagesIInv /\ Reconnect => ImagesIInv'
<1> SUFFICES ASSUME ImagesIInv, Reconnect PROVE ImagesIInv'
  OBVIOUS
<1>1. /\ told' = 0 /\ tables' = Empty /\ UNCHANGED <<fw, value, asked>>
      /\ changed' = FALSE
      /\ shown' = [n \in Names |->
            IF \E i \in UNION Range(tables.byUid) : tables.images[i].def.name = n
            THEN {} ELSE shown[n]]
  BY Zenon DEF Reconnect
<1>2. shown' \in [Names -> SUBSET Values] /\ \A n \in Names : Single(shown'[n])
  BY <1>1 DEF ImagesIInv, Single
<1>3. asked' \subseteq Uids
  BY <1>1 DEF ImagesIInv
<1> QED  BY <1>1, <1>2, <1>3, AnewInv

LEMMA NextImagesIInv == ImagesIInv /\ [ImagesNext]_imageVars => ImagesIInv'
<1> SUFFICES ASSUME ImagesIInv, [ImagesNext]_imageVars PROVE ImagesIInv'
  OBVIOUS
<1>1. CASE UNCHANGED imageVars
  BY <1>1 DEF imageVars, ImagesIInv, Def, Steady
<1> QED  BY <1>1, AnnounceInv, AnnounceAllInv, RestartInv, ReconnectInv, UpdateInv,
        RequestInv, BusyInv DEF ImagesNext

-----------------------------------------------------------------------------
(* The invariant of the driver's tables.                                   *)
THEOREM ImagesInvariance == ImagesSpec => []ImagesIInv
<1>1. ImagesInit => ImagesIInv
  BY InitImagesIInv
<1>2. ImagesIInv /\ [ImagesNext]_imageVars => ImagesIInv'
  BY NextImagesIInv
<1> QED  BY <1>1, <1>2, PTL DEF ImagesSpec

(* The tables hold vectors, images and names, one image at most each.      *)
THEOREM ImagesTypeCorrect == ImagesSpec => []ImagesTypeOK
<1>1. ImagesIInv => ImagesTypeOK
  BY DEF ImagesIInv, ImagesTypeOK, Sound, Singles
<1> QED  BY <1>1, ImagesInvariance, PTL

(* announced and destroy keep propsByUid and propsByName together: no      *)
(* image is lost or found twice, whatever the firmwares.                   *)
THEOREM TheTablesAgree == ImagesSpec => []TablesAgree
<1>1. ImagesIInv => TablesAgree
  <2> SUFFICES ASSUME ImagesIInv PROVE TablesAgree
    OBVIOUS
  <2>1. /\ tables \in Tables /\ Agree(tables)
        /\ DOMAIN tables.byUid = Uids /\ DOMAIN tables.byName = Names
    BY Zenon DEF ImagesIInv, Sound, Tables
  <2>2. ASSUME NEW i \in Ids, tables.images[i] = Nil
        PROVE  \A S \in Range(tables.byUid) \cup Range(tables.byName) : i \notin S
    BY <2>1, <2>2 DEF Agree, Range
  <2>3. ASSUME NEW i \in Ids, tables.images[i] # Nil
        PROVE  /\ {u \in Uids : i \in tables.byUid[u]} = {tables.images[i].uid}
               /\ {n \in Names : i \in tables.byName[n]} = {tables.images[i].def.name}
    <3>1. tables.images[i].uid \in Uids /\ tables.images[i].def.name \in Names
      BY <2>1, <2>3, ImageFields
    <3> QED  BY <2>1, <2>3, <3>1 DEF Agree
  <2> QED  BY <2>2, <2>3 DEF TablesAgree
<1> QED  BY <1>1, ImagesInvariance, PTL

(* Every update of an announced vector, and every pseudo BUSY outside of a *)
(* change of firmware that finds a vector in the list, finds the live      *)
(* vector and the image of its own name and kind.                          *)
THEOREM EveryUpdateLands == ImagesSpec => []UpdatesLand
<1>1. ImagesIInv => UpdatesLand
  <2> SUFFICES ASSUME ImagesIInv, NEW u \in 0 .. Len(fw) - 1,
                      u < told \/ (~changed /\ tables.list[u] # Nil)
               PROVE  Lands(tables, u, Def(u))
    BY DEF UpdatesLand, Lands
  <2>1. Len(fw) \in Nat /\ told \in 0 .. Len(fw)
    BY LayoutsAssumption, LenProperties DEF ImagesIInv
  <2>2. u < told => u \in 0 .. told - 1
    BY <2>1
  <2> QED  BY <2>2 DEF ImagesIInv, Steady
<1> QED  BY <1>1, ImagesInvariance, PTL

(* What the clients see through an image that owns the listed vector is    *)
(* what the device sent last, published again or not.                      *)
THEOREM TheSharedIsLatest == ImagesSpec => []SharedIsLatest
<1>1. ImagesIInv => SharedIsLatest
  <2> SUFFICES ASSUME ImagesIInv, NEW u \in Uids, u < told, tables.list[u].is = "image"
               PROVE  shown[Def(u).name] = {value[u]}
    BY DEF SharedIsLatest
  <2>1. Len(fw) \in Nat /\ \A l \in Layouts : Len(l) \in Nat
    BY LayoutsAssumption, LenProperties DEF ImagesIInv
  <2>2. u \in 0 .. told - 1
    BY <2>1 DEF ImagesIInv, Uids
  <2> QED  BY <2>2 DEF ImagesIInv, Latest
<1> QED  BY <1>1, ImagesInvariance, PTL
=============================================================================
