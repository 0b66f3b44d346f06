---------------------------- MODULE NotifPending ----------------------------
(***************************************************************************)
(* What the notification bookkeeping of the firmware promises to the code  *)
(* that uses it, without the linked list that implements it: for every     *)
(* client, a set of vectors that still have something to be told, and for  *)
(* every vector the kinds of news that are still to be told.  A change     *)
(* makes the vector pending for every client, and a pending vector leaves  *)
(* the set only by being taken, with all its news at once.                 *)
(***************************************************************************)
CONSTANTS Clients,     \* the protocol instances (one per serial port)
          Vectors,     \* uids of the registered vectors
          Comm         \* kinds of news

VARIABLES dirty,       \* dirty[c][v]: what client c was not told about v
          pending      \* pending[c]: vectors client c will be told about

vars == <<dirty, pending>>

Init == /\ dirty = [c \in Clients |-> [v \in Vectors |-> Comm]]
        /\ pending = [c \in Clients |-> Vectors]

\* A vector changes: every client has to be told.
Change(v, which) ==
    /\ dirty' = [c \in Clients |->
                    [dirty[c] EXCEPT ![v] = @ \cup {which}]]
    /\ pending' = [c \in Clients |-> pending[c] \cup {v}]

\* One client only has to be told (the end of one of its own requests).
Touch(c, v, which) ==
    /\ dirty' = [dirty EXCEPT ![c][v] = @ \cup {which}]
    /\ pending' = [pending EXCEPT ![c] = @ \cup {v}]

\* A client takes one pending vector, with everything it has to say.
Take(c, v) ==
    /\ v \in pending[c]
    /\ dirty' = [dirty EXCEPT ![c][v] = {}]
    /\ pending' = [pending EXCEPT ![c] = @ \ {v}]

\* A client starts again from nothing: it has to be told everything.
Forget(c) ==
    /\ dirty' = [dirty EXCEPT ![c] = [v \in Vectors |-> Comm]]
    /\ pending' = [pending EXCEPT ![c] = Vectors]

Next == \/ \E v \in Vectors, which \in Comm : Change(v, which)
        \/ \E c \in Clients, v \in Vectors, which \in Comm : Touch(c, v, which)
        \/ \E c \in Clients, v \in Vectors : Take(c, v)
        \/ \E c \in Clients : Forget(c)

Spec == Init /\ [][Next]_vars
=============================================================================
