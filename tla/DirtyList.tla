------------------------------ MODULE DirtyList ------------------------------
(***************************************************************************)
(* How the firmware remembers what each client has still to be told.       *)
(*                                                                         *)
(* Every vector keeps one bit per client and per kind of news              *)
(* (IndiVector::notifStatus, the bit is 0 when the client is behind), and  *)
(* every protocol instance keeps a singly linked list of vectors threaded  *)
(* through an array of uids (IndiProtocol::nextDirtyVector), with a head   *)
(* and a tail.  The list carries no flag "v is in the list": the code      *)
(* infers it from "v is the last one, or v has a successor".  The two      *)
(* structures are updated by different functions and must agree.           *)
(***************************************************************************)
EXTENDS Naturals

CONSTANTS Clients,       \* the protocol instances
          N,             \* IndiDevice::variableCount
          VECNONE        \* the uid that stands for "no vector"

\* uids are given from 0 up and stay below VECNONE (IndiDevice::add stops
\* at 254 vectors, VECNONE is 255).
ASSUME NAssumption == N \in Nat \ {0} /\ VECNONE \in Nat /\ N <= VECNONE

VECTOR_ANNOUNCED == 0
VECTOR_MUTATION  == 1
VECTOR_VALUE     == 2
Comm    == {VECTOR_ANNOUNCED, VECTOR_MUTATION, VECTOR_VALUE}
Vectors == 0 .. N - 1

VARIABLES
    dirty,               \* dirty[c][v]: the kinds whose bit is 0 for client c
    nextDirtyVector,     \* nextDirtyVector[c][v]: successor of v in c's list
    firstDirtyVector,    \* head of c's list
    lastDirtyVector      \* tail of c's list

vars == <<dirty, nextDirtyVector, firstDirtyVector, lastDirtyVector>>

TypeOK ==
    /\ dirty \in [Clients -> [Vectors -> SUBSET Comm]]
    /\ nextDirtyVector \in [Clients -> [Vectors -> Vectors \cup {VECNONE}]]
    /\ firstDirtyVector \in [Clients -> Vectors \cup {VECNONE}]
    /\ lastDirtyVector \in [Clients -> Vectors \cup {VECNONE}]

-----------------------------------------------------------------------------
\* Variant: the last vector is not terminated.
FullNext_NoEnd == [v \in Vectors |-> v + 1]

(* The list that IndiProtocol::reset builds: all the vectors, in order.    *)
FullNext == [v \in Vectors |-> IF v = N - 1 THEN VECNONE ELSE v + 1]

Init ==
    /\ dirty = [c \in Clients |-> [v \in Vectors |-> Comm]]
    /\ nextDirtyVector = [c \in Clients |-> FullNext]
    /\ firstDirtyVector = [c \in Clients |-> 0]
    /\ lastDirtyVector = [c \in Clients |-> N - 1]

\* Variant: the tail, which has no successor, does not count as listed.
Listed_NoTailTest(c, v) == nextDirtyVector[c][v] # VECNONE

(* The membership test of IndiProtocol::dirtied.                           *)
Listed(c, v) ==
    \/ lastDirtyVector[c] = v
    \/ nextDirtyVector[c][v] # VECNONE

\* Variant: a new vector is pushed in front of the list.
Dirtied_InFront(S, v) ==
    LET joining == {c \in S : ~Listed(c, v)}
        empty(c) == lastDirtyVector[c] = VECNONE
    IN  /\ nextDirtyVector' = [c \in Clients |->
              IF c \in joining
              THEN [nextDirtyVector[c] EXCEPT ![v] = firstDirtyVector[c]]
              ELSE nextDirtyVector[c]]
        /\ firstDirtyVector' = [c \in Clients |->
              IF c \in joining THEN v ELSE firstDirtyVector[c]]
        /\ lastDirtyVector' = [c \in Clients |->
              IF c \in joining /\ empty(c) THEN v ELSE lastDirtyVector[c]]

(* IndiProtocol::dirtied(v), executed by every client of S.                *)
Dirtied(S, v) ==
    LET joining == {c \in S : ~Listed(c, v)}
        empty(c) == lastDirtyVector[c] = VECNONE
    IN  /\ nextDirtyVector' = [c \in Clients |->
              IF c \in joining /\ ~empty(c)
              THEN [nextDirtyVector[c] EXCEPT ![lastDirtyVector[c]] = v]
              ELSE nextDirtyVector[c]]
        /\ firstDirtyVector' = [c \in Clients |->
              IF c \in joining /\ empty(c) THEN v ELSE firstDirtyVector[c]]
        /\ lastDirtyVector' = [c \in Clients |->
              IF c \in joining THEN v ELSE lastDirtyVector[c]]

(* A value, a flag or a definition of v changed: all clients are behind.   *)
NotifyUpdate(v, which) ==
    /\ dirty' = [c \in Clients |->
                    [dirty[c] EXCEPT ![v] = @ \cup {which}]]
    /\ Dirtied(Clients, v)

(* The end of a request of client c on v: the client must be told the      *)
(* value once more, unless v already has news of that kind or a stronger   *)
(* one for it (IndiVector::setDirty returns false).                        *)
SetDirty(c, v, which) ==
    /\ dirty[c][v] \cap {w \in Comm : w <= which} = {}
    /\ dirty' = [dirty EXCEPT ![c][v] = @ \cup {which}]
    /\ Dirtied({c}, v)

\* Variant: only the strongest news is marked as told.
PopDirty_Strongest(c) ==
    LET v == firstDirtyVector[c]
        n == nextDirtyVector[c][v]
        told == {w \in dirty[c][v] : \A x \in dirty[c][v] : w <= x}
    IN  /\ v # VECNONE
        /\ dirty' = [dirty EXCEPT ![c][v] = @ \ told]
        /\ firstDirtyVector' = [firstDirtyVector EXCEPT ![c] = n]
        /\ nextDirtyVector' = [nextDirtyVector EXCEPT ![c][v] = VECNONE]
        /\ lastDirtyVector' = IF n = VECNONE
                              THEN [lastDirtyVector EXCEPT ![c] = VECNONE]
                              ELSE lastDirtyVector

(* Client c takes the head of its list, with all its flags at once.        *)
PopDirty(c) ==
    LET v == firstDirtyVector[c]
        n == nextDirtyVector[c][v]
    IN  /\ v # VECNONE
        /\ dirty' = [dirty EXCEPT ![c][v] = {}]
        /\ firstDirtyVector' = [firstDirtyVector EXCEPT ![c] = n]
        /\ nextDirtyVector' = [nextDirtyVector EXCEPT ![c][v] = VECNONE]
        /\ lastDirtyVector' = IF n = VECNONE
                              THEN [lastDirtyVector EXCEPT ![c] = VECNONE]
                              ELSE lastDirtyVector

\* Variant: the list is rebuilt but the bits stay.
Reset_KeepBits(c) ==
    /\ nextDirtyVector' = [nextDirtyVector EXCEPT ![c] = FullNext]
    /\ firstDirtyVector' = [firstDirtyVector EXCEPT ![c] = 0]
    /\ lastDirtyVector' = [lastDirtyVector EXCEPT ![c] = N - 1]
    /\ UNCHANGED dirty

(* Client c starts again (its peer restarted, or sent garbage).            *)
Reset(c) ==
    /\ dirty' = [dirty EXCEPT ![c] = [v \in Vectors |-> Comm]]
    /\ nextDirtyVector' = [nextDirtyVector EXCEPT ![c] = FullNext]
    /\ firstDirtyVector' = [firstDirtyVector EXCEPT ![c] = 0]
    /\ lastDirtyVector' = [lastDirtyVector EXCEPT ![c] = N - 1]

Next ==
    \/ \E v \in Vectors, which \in Comm : NotifyUpdate(v, which)
    \/ \E c \in Clients, v \in Vectors : SetDirty(c, v, VECTOR_VALUE)
    \/ \E c \in Clients : PopDirty(c)
    \/ \E c \in Clients : Reset(c)

Spec == Init /\ [][Next]_vars

(* The protocol task is scheduled again after every tick and sends one     *)
(* packet whenever the serial port has room: each list keeps moving.       *)
FairSpec == Spec /\ \A c \in Clients : WF_vars(PopDirty(c))

-----------------------------------------------------------------------------
(* A vector with unsent news is in the list that will send them: the two   *)
(* structures agree, so no client misses a change for ever.                *)
DirtyIsListed ==
    \A c \in Clients, v \in Vectors : dirty[c][v] # {} => Listed(c, v)

(* Walking a list from its head meets exactly the vectors that the test of *)
(* IndiProtocol::dirtied calls listed, each once, and ends at the tail: no *)
(* vector is cut off, no cycle is ever closed.  q is the list walked.      *)
IsChain(c, k, q) ==
    /\ \A i, j \in 1 .. k : q[i] = q[j] => i = j
    /\ firstDirtyVector[c] = IF k = 0 THEN VECNONE ELSE q[1]
    /\ lastDirtyVector[c] = IF k = 0 THEN VECNONE ELSE q[k]
    /\ \A i \in 1 .. k :
          nextDirtyVector[c][q[i]] = IF i = k THEN VECNONE ELSE q[i + 1]
    /\ \A v \in Vectors :
          (\A i \in 1 .. k : q[i] # v) => nextDirtyVector[c][v] = VECNONE

ListsAreChains ==
    \A c \in Clients : \E k \in 0 .. N : \E q \in [1 .. k -> Vectors] :
        IsChain(c, k, q)

(* The vectors client c will be told about, as the abstract promise sees   *)
(* them, and the promise itself.                                           *)
Pending == [c \in Clients |-> {v \in Vectors : Listed(c, v)}]

Promise == INSTANCE NotifPending WITH pending <- Pending
PromiseKept == Promise!Spec

(* A listed vector is taken after a bounded number of other ones: a vector *)
(* that changes all the time does not starve the others.  Once it is taken *)
(* the client is up to date for it.  A client that is reset for ever may   *)
(* always be sent the beginning only, hence the hypothesis.                *)
ListedIsTaken ==
    \A c \in Clients, v \in Vectors :
        <>[][~Reset(c)]_vars =>
            [](Listed(c, v) => <>(dirty[c][v] = {}))
=============================================================================
