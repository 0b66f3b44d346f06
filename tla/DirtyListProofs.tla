--------------------------- MODULE DirtyListProofs ---------------------------
(***************************************************************************)
(* What TLC checks of DirtyList on two vectors, proved for every           *)
(* number of vectors and of clients: the list and the bits always agree,   *)
(* the lists are never cut or closed, and the bookkeeping implements the   *)
(* promise of NotifPending.                                                *)
(*                                                                         *)
(* DirtyIsListed alone is not inductive.  Taking the head v of a list      *)
(* whose successor is VECNONE empties the list, which is right only if v   *)
(* was also the tail and nothing else hangs on the array; that needs the   *)
(* whole shape of the list, which Chained states with the sequence q of    *)
(* the vectors met when the list is walked.                                *)
(***************************************************************************)
EXTENDS DirtyList, FiniteSetTheorems, TLAPS

Chained(c) == \E k \in Nat : \E q \in [1 .. k -> Vectors] : IsChain(c, k, q)

AllChained == \A c \in Clients : Chained(c)

IInv == TypeOK /\ DirtyIsListed /\ AllChained

-----------------------------------------------------------------------------
(* A uid is never VECNONE: no vector looks like the end of a list.         *)
LEMMA UidIsNotNone == \A v \in Vectors : v # VECNONE /\ v \in Nat
BY NAssumption DEF Vectors

(* The membership test of IndiProtocol::dirtied is right on a chain: it    *)
(* holds of the vectors that are walked and of no other.                   *)
LEMMA ListedOnChain ==
    ASSUME TypeOK, NEW c \in Clients, NEW k \in Nat,
           NEW q \in [1 .. k -> Vectors], IsChain(c, k, q), NEW v \in Vectors
    PROVE  Listed(c, v) <=> \E i \in 1 .. k : q[i] = v
<1>1. ASSUME Listed(c, v) PROVE \E i \in 1 .. k : q[i] = v
  <2>1. CASE lastDirtyVector[c] = v
    <3>1. k # 0 /\ q[k] = v
      BY <2>1, UidIsNotNone DEF IsChain
    <3>2. QED BY <3>1
  <2>2. CASE nextDirtyVector[c][v] # VECNONE
    BY <2>2 DEF IsChain
  <2>3. QED BY <1>1, <2>1, <2>2 DEF Listed
<1>2. ASSUME NEW i \in 1 .. k, q[i] = v PROVE Listed(c, v)
  <2>1. CASE i = k
    BY <1>2, <2>1 DEF IsChain, Listed
  <2>2. CASE i # k
    <3>1. q[i + 1] \in Vectors BY <2>2
    <3>2. nextDirtyVector[c][v] = q[i + 1] BY <1>2, <2>2 DEF IsChain
    <3>3. QED BY <3>1, <3>2, UidIsNotNone DEF Listed
  <2>3. QED BY <2>1, <2>2
<1>3. QED BY <1>1, <1>2

(* A client whose list is not touched keeps it.                            *)
LEMMA SameList ==
    ASSUME NEW c \in Clients, Chained(c),
           nextDirtyVector'[c] = nextDirtyVector[c],
           firstDirtyVector'[c] = firstDirtyVector[c],
           lastDirtyVector'[c] = lastDirtyVector[c]
    PROVE  Chained(c)' /\ \A w \in Vectors : Listed(c, w)' <=> Listed(c, w)
<1>1. PICK k \in Nat : \E q \in [1 .. k -> Vectors] : IsChain(c, k, q)
  BY DEF Chained
<1>2. PICK q \in [1 .. k -> Vectors] : IsChain(c, k, q)
  BY <1>1
<1>3. IsChain(c, k, q)' BY <1>2 DEF IsChain
<1>4. Chained(c)' BY <1>3 DEF Chained
<1>5. QED BY <1>4 DEF Listed

(* An empty tail means an empty list, and only then.                       *)
LEMMA EmptyTail ==
    ASSUME TypeOK, NEW c \in Clients, Chained(c), lastDirtyVector[c] = VECNONE
    PROVE  /\ IsChain(c, 0, [i \in 1 .. 0 |-> 0])
           /\ \A v \in Vectors : ~Listed(c, v)
<1>0. PICK k \in Nat : \E q \in [1 .. k -> Vectors] : IsChain(c, k, q)
  BY DEF Chained
<1>1. PICK q \in [1 .. k -> Vectors] : IsChain(c, k, q)
  BY <1>0
<1>2. k = 0
  <2>1. SUFFICES ASSUME k # 0 PROVE FALSE
    OBVIOUS
  <2>2. q[k] \in Vectors BY <2>1
  <2>3. QED BY <1>1, <2>1, <2>2, UidIsNotNone DEF IsChain
<1>3. \A v \in Vectors : nextDirtyVector[c][v] = VECNONE
  BY <1>1, <1>2 DEF IsChain
<1>4. firstDirtyVector[c] = VECNONE
  BY <1>1, <1>2 DEF IsChain
<1>5. IsChain(c, 0, [i \in 1 .. 0 |-> 0])
  BY <1>3, <1>4 DEF IsChain
<1>6. QED BY <1>3, <1>5, UidIsNotNone DEF Listed

-----------------------------------------------------------------------------
(* IndiProtocol::dirtied keeps every list well formed and adds exactly the *)
(* vector it is given, to exactly the clients that run it.                 *)
LEMMA DirtiedAppends ==
    ASSUME TypeOK, AllChained, NEW S \in SUBSET Clients, NEW v \in Vectors,
           Dirtied(S, v), NEW c \in Clients
    PROVE  /\ Chained(c)'
           /\ \A w \in Vectors :
                 Listed(c, w)' <=> Listed(c, w) \/ (c \in S /\ w = v)
           /\ nextDirtyVector'[c] \in [Vectors -> Vectors \cup {VECNONE}]
           /\ firstDirtyVector'[c] \in Vectors \cup {VECNONE}
           /\ lastDirtyVector'[c] \in Vectors \cup {VECNONE}
<1>0. PICK k \in Nat : \E q \in [1 .. k -> Vectors] : IsChain(c, k, q)
  BY DEF AllChained, Chained
<1>1. PICK q \in [1 .. k -> Vectors] : IsChain(c, k, q)
  BY <1>0
<1>2. CASE ~(c \in S /\ ~Listed(c, v))
  <2>1. /\ nextDirtyVector'[c] = nextDirtyVector[c]
        /\ firstDirtyVector'[c] = firstDirtyVector[c]
        /\ lastDirtyVector'[c] = lastDirtyVector[c]
    BY <1>2 DEF Dirtied, Listed
  <2>2. IsChain(c, k, q)' BY <1>1, <2>1 DEF IsChain
  <2>3. \A w \in Vectors : Listed(c, w)' <=> Listed(c, w)
    BY <2>1 DEF Listed
  <2>4. QED BY <1>2, <2>1, <2>2, <2>3 DEF Chained, TypeOK
<1>3. CASE c \in S /\ ~Listed(c, v) /\ lastDirtyVector[c] = VECNONE
  <2>1. /\ nextDirtyVector'[c] = nextDirtyVector[c]
        /\ firstDirtyVector'[c] = v
        /\ lastDirtyVector'[c] = v
    BY <1>3 DEF Dirtied, Listed
  <2>2. \A w \in Vectors : nextDirtyVector[c][w] = VECNONE
    BY <1>3, EmptyTail DEF AllChained, Listed
  <2>3. IsChain(c, 1, [i \in 1 .. 1 |-> v])'
    BY <2>1, <2>2 DEF IsChain
  <2>4. \A w \in Vectors : Listed(c, w)' <=> w = v
    BY <2>1, <2>2 DEF Listed
  <2>5. \A w \in Vectors : ~Listed(c, w)
    BY <1>3, EmptyTail DEF AllChained
  <2>6. Chained(c)'
    <3>1. [i \in 1 .. 1 |-> v] \in [1 .. 1 -> Vectors] OBVIOUS
    <3>2. QED BY <2>3, <3>1 DEF Chained
  <2>7. QED BY <1>3, <2>1, <2>4, <2>5, <2>6 DEF TypeOK
<1>4. CASE c \in S /\ ~Listed(c, v) /\ lastDirtyVector[c] # VECNONE
  <2>1. k # 0 /\ lastDirtyVector[c] = q[k] /\ q[k] \in Vectors
    BY <1>1, <1>4 DEF IsChain
  <2>2. /\ nextDirtyVector'[c] = [nextDirtyVector[c] EXCEPT ![q[k]] = v]
        /\ firstDirtyVector'[c] = firstDirtyVector[c]
        /\ lastDirtyVector'[c] = v
    BY <1>4, <2>1 DEF Dirtied, Listed
  <2>3. nextDirtyVector[c] \in [Vectors -> Vectors \cup {VECNONE}]
    BY DEF TypeOK
  <2>4. \A i \in 1 .. k : q[i] # v
    BY <1>1, <1>4, ListedOnChain
  <2> DEFINE r == [i \in 1 .. k + 1 |-> IF i = k + 1 THEN v ELSE q[i]]
  <2>5. r \in [1 .. k + 1 -> Vectors]
    OBVIOUS
  <2>6. IsChain(c, k + 1, r)'
    <3>1. \A i, j \in 1 .. k + 1 : r[i] = r[j] => i = j
      <4>1. SUFFICES ASSUME NEW i \in 1 .. k + 1, NEW j \in 1 .. k + 1,
                            r[i] = r[j]
                     PROVE  i = j
        OBVIOUS
      <4>2. CASE i = k + 1 /\ j = k + 1 BY <4>2
      <4>3. CASE i # k + 1 /\ j = k + 1
        <5>1. i \in 1 .. k /\ q[i] = v BY <4>1, <4>3
        <5>2. QED BY <5>1, <2>4
      <4>4. CASE i = k + 1 /\ j # k + 1
        <5>1. j \in 1 .. k /\ q[j] = v BY <4>1, <4>4
        <5>2. QED BY <5>1, <2>4
      <4>5. CASE i # k + 1 /\ j # k + 1
        <5>1. i \in 1 .. k /\ j \in 1 .. k /\ q[i] = q[j] BY <4>1, <4>5
        <5>2. QED BY <5>1, <1>1 DEF IsChain
      <4>6. QED BY <4>2, <4>3, <4>4, <4>5
    <3>2. firstDirtyVector'[c] = r[1]
      BY <1>1, <2>1, <2>2 DEF IsChain
    <3>3. lastDirtyVector'[c] = r[k + 1]
      BY <2>2
    <3>4. \A i \in 1 .. k + 1 : nextDirtyVector'[c][r[i]]
                                  = IF i = k + 1 THEN VECNONE ELSE r[i + 1]
      <4>1. SUFFICES ASSUME NEW i \in 1 .. k + 1
                     PROVE  nextDirtyVector'[c][r[i]]
                              = IF i = k + 1 THEN VECNONE ELSE r[i + 1]
        OBVIOUS
      <4>2. CASE i = k + 1
        <5>1. r[i] = v /\ q[k] # v BY <4>2, <2>1, <2>4
        <5>2. nextDirtyVector[c][v] = VECNONE BY <1>4 DEF Listed
        <5>3. QED BY <4>2, <5>1, <5>2, <2>2, <2>3
      <4>3. CASE i = k
        <5>1. r[i] = q[k] /\ r[i + 1] = v BY <4>3, <2>1
        <5>2. QED BY <4>3, <5>1, <2>1, <2>2, <2>3
      <4>4. CASE i # k /\ i # k + 1
        <5>1. i \in 1 .. k /\ i + 1 \in 1 .. k BY <4>4
        <5>2. r[i] = q[i] /\ r[i + 1] = q[i + 1] BY <5>1
        <5>3. q[i] # q[k] BY <1>1, <4>4, <5>1 DEF IsChain
        <5>4. nextDirtyVector[c][q[i]] = q[i + 1]
          BY <1>1, <4>4, <5>1 DEF IsChain
        <5>5. QED BY <4>4, <5>1, <5>2, <5>3, <5>4, <2>2, <2>3
      <4>5. QED BY <4>2, <4>3, <4>4
    <3>5. \A w \in Vectors : (\A i \in 1 .. k + 1 : r[i] # w)
                                => nextDirtyVector'[c][w] = VECNONE
      <4>1. SUFFICES ASSUME NEW w \in Vectors,
                            \A i \in 1 .. k + 1 : r[i] # w
                     PROVE  nextDirtyVector'[c][w] = VECNONE
        OBVIOUS
      <4>2. \A i \in 1 .. k : q[i] # w
        <5>1. \A i \in 1 .. k : r[i] = q[i] OBVIOUS
        <5>2. QED BY <4>1, <5>1
      <4>3. QED BY <4>2, <1>1, <2>1, <2>2, <2>3 DEF IsChain
    <3>6. QED BY <3>1, <3>2, <3>3, <3>4, <3>5 DEF IsChain
  <2>7. \A w \in Vectors : Listed(c, w)' <=> Listed(c, w) \/ w = v
    <3>1. SUFFICES ASSUME NEW w \in Vectors
                   PROVE  Listed(c, w)' <=> Listed(c, w) \/ w = v
      OBVIOUS
    <3>2. CASE w = v BY <3>2, <2>2 DEF Listed
    <3>3. CASE w = q[k] /\ w # v
      <4>1. Listed(c, w) BY <3>3, <2>1 DEF Listed
      <4>2. Listed(c, w)' BY <3>3, <2>2, <2>3, UidIsNotNone DEF Listed
      <4>3. QED BY <4>1, <4>2
    <3>4. CASE w # q[k] /\ w # v
      BY <3>4, <2>1, <2>2, <2>3 DEF Listed
    <3>5. QED BY <3>2, <3>3, <3>4
  <2>8. k + 1 \in Nat OBVIOUS
  <2> HIDE DEF r
  <2>9. Chained(c)' BY <2>5, <2>6, <2>8 DEF Chained
  <2>10. firstDirtyVector[c] \in Vectors \cup {VECNONE} BY DEF TypeOK
  <2>11. QED BY <1>4, <2>2, <2>3, <2>7, <2>9, <2>10
<1>5. QED BY <1>2, <1>3, <1>4

(* IndiProtocol::popDirty removes exactly the head.                        *)
LEMMA PopRemovesHead ==
    ASSUME TypeOK, AllChained, NEW c \in Clients, PopDirty(c)
    PROVE  /\ firstDirtyVector[c] \in Vectors
           /\ Listed(c, firstDirtyVector[c])
           /\ Chained(c)'
           /\ \A w \in Vectors :
                 Listed(c, w)' <=> Listed(c, w) /\ w # firstDirtyVector[c]
<1>0. PICK k \in Nat : \E q \in [1 .. k -> Vectors] : IsChain(c, k, q)
  BY DEF AllChained, Chained
<1>1. PICK q \in [1 .. k -> Vectors] : IsChain(c, k, q)
  BY <1>0
<1>2. k # 0 /\ firstDirtyVector[c] = q[1] /\ q[1] \in Vectors
  BY <1>1 DEF IsChain, PopDirty
<1> DEFINE n == nextDirtyVector[c][q[1]]
           r == [i \in 1 .. k - 1 |-> q[i + 1]]
<1>3. n = IF k = 1 THEN VECNONE ELSE q[2]
  BY <1>1, <1>2 DEF IsChain
<1>4. /\ firstDirtyVector'[c] = n
      /\ nextDirtyVector'[c] = [nextDirtyVector[c] EXCEPT ![q[1]] = VECNONE]
      /\ lastDirtyVector'[c] = IF k = 1 THEN VECNONE ELSE lastDirtyVector[c]
  <2>1. k # 1 => n # VECNONE
    <3>1. k # 1 => q[2] \in Vectors BY <1>2
    <3>2. QED BY <3>1, <1>3, UidIsNotNone
  <2>2. QED BY <2>1, <1>2, <1>3 DEF PopDirty, TypeOK
<1>5. nextDirtyVector[c] \in [Vectors -> Vectors \cup {VECNONE}]
  BY DEF TypeOK
<1>6. r \in [1 .. k - 1 -> Vectors]
  BY <1>2
<1>7. \A i \in 1 .. k - 1 : r[i] = q[i + 1] /\ r[i] # q[1]
  BY <1>1, <1>2 DEF IsChain
<1>8. IsChain(c, k - 1, r)'
  <2>1. \A i, j \in 1 .. k - 1 : r[i] = r[j] => i = j
    BY <1>1, <1>2 DEF IsChain
  <2>2. firstDirtyVector'[c] = IF k - 1 = 0 THEN VECNONE ELSE r[1]
    BY <1>2, <1>3, <1>4
  <2>3. lastDirtyVector'[c] = IF k - 1 = 0 THEN VECNONE ELSE r[k - 1]
    BY <1>1, <1>2, <1>4 DEF IsChain
  <2>4. \A i \in 1 .. k - 1 : nextDirtyVector'[c][r[i]]
                              = IF i = k - 1 THEN VECNONE ELSE r[i + 1]
    <3>1. SUFFICES ASSUME NEW i \in 1 .. k - 1
                   PROVE  nextDirtyVector'[c][r[i]]
                            = IF i = k - 1 THEN VECNONE ELSE r[i + 1]
      OBVIOUS
    <3>3. i + 1 \in 1 .. k /\ q[i + 1] \in Vectors BY <1>2
    <3>2. nextDirtyVector'[c][r[i]] = nextDirtyVector[c][q[i + 1]]
      <4> HIDE DEF r, n
      <4>1. QED BY <1>4, <1>5, <1>7, <3>3
    <3>4. nextDirtyVector[c][q[i + 1]]
            = IF i + 1 = k THEN VECNONE ELSE q[i + 1 + 1]
      BY <1>1, <3>3 DEF IsChain
    <3>5. i # k - 1 => r[i + 1] = q[i + 1 + 1] BY <1>2
    <3>6. QED BY <3>2, <3>4, <3>5
  <2>5. \A w \in Vectors : (\A i \in 1 .. k - 1 : r[i] # w)
                              => nextDirtyVector'[c][w] = VECNONE
    <3>1. SUFFICES ASSUME NEW w \in Vectors, \A i \in 1 .. k - 1 : r[i] # w
                   PROVE  nextDirtyVector'[c][w] = VECNONE
      OBVIOUS
    <3>2. CASE w = q[1] BY <3>2, <1>4, <1>5
    <3>3. CASE w # q[1]
      <4>1. \A i \in 1 .. k : q[i] # w
        <5>1. SUFFICES ASSUME NEW i \in 1 .. k, q[i] = w PROVE FALSE
          OBVIOUS
        <5>2. i # 1 BY <3>3, <5>1
        <5>3. i - 1 \in 1 .. k - 1 /\ r[i - 1] = q[i] BY <1>2, <5>2
        <5>4. QED BY <3>1, <5>1, <5>3
      <4>2. QED BY <4>1, <3>3, <1>1, <1>4, <1>5 DEF IsChain
    <3>4. QED BY <3>2, <3>3
  <2> HIDE DEF r, n
  <2>6. QED BY <2>1, <2>2, <2>3, <2>4, <2>5 DEF IsChain
<1>9. Chained(c)'
  <2>1. k - 1 \in Nat BY <1>2
  <2> HIDE DEF r
  <2>2. QED BY <2>1, <1>6, <1>8 DEF Chained
<1>10. Listed(c, q[1])
  BY <1>1, <1>2, ListedOnChain
<1>11. ASSUME NEW w \in Vectors
       PROVE  Listed(c, w)' <=> Listed(c, w) /\ w # q[1]
  <2>1. CASE w = q[1]
    <3>1. nextDirtyVector'[c][w] = VECNONE BY <2>1, <1>4, <1>5
    <3>2. lastDirtyVector'[c] # w
      <4>1. CASE k = 1 BY <4>1, <1>4, UidIsNotNone
      <4>2. CASE k # 1
        <5>1. lastDirtyVector[c] = q[k] /\ q[k] # q[1]
          BY <1>1, <1>2, <4>2 DEF IsChain
        <5>2. QED BY <5>1, <4>2, <2>1, <1>4
      <4>3. QED BY <4>1, <4>2
    <3>3. QED BY <2>1, <3>1, <3>2 DEF Listed
  <2>2. CASE w # q[1]
    <3>1. nextDirtyVector'[c][w] = nextDirtyVector[c][w] BY <2>2, <1>4, <1>5
    <3>2. lastDirtyVector'[c] = w <=> lastDirtyVector[c] = w
      <4>1. CASE k = 1
        BY <4>1, <2>2, <1>1, <1>4, UidIsNotNone DEF IsChain
      <4>2. CASE k # 1 BY <4>2, <1>4
      <4>3. QED BY <4>1, <4>2
    <3>3. QED BY <2>2, <3>1, <3>2 DEF Listed
  <2>3. QED BY <2>1, <2>2
<1>12. QED BY <1>2, <1>9, <1>10, <1>11

(* The list that IndiProtocol::reset builds is a chain through all the     *)
(* vectors.                                                                *)
LEMMA FullListIsChain ==
    ASSUME NEW c \in Clients, nextDirtyVector[c] = FullNext,
           firstDirtyVector[c] = 0, lastDirtyVector[c] = N - 1
    PROVE  Chained(c) /\ \A v \in Vectors : Listed(c, v)
<1> DEFINE q == [i \in 1 .. N |-> i - 1]
<1>1. N \in Nat /\ N # 0 BY NAssumption
<1>2. q \in [1 .. N -> Vectors] BY <1>1 DEF Vectors
<1>3. \A v \in Vectors : v + 1 \in 1 .. N /\ q[v + 1] = v
  BY <1>1 DEF Vectors
<1>4. IsChain(c, N, q)
  BY <1>1, <1>2, <1>3 DEF IsChain, FullNext, Vectors
<1>5. Chained(c) BY <1>1, <1>2, <1>4 DEF Chained
<1>6. \A v \in Vectors : Listed(c, v)
  BY UidIsNotNone, <1>1 DEF Listed, FullNext, Vectors
<1>7. QED BY <1>5, <1>6

-----------------------------------------------------------------------------
LEMMA InitInv == Init => IInv
<1> SUFFICES ASSUME Init PROVE IInv
  OBVIOUS
<1>1. FullNext \in [Vectors -> Vectors \cup {VECNONE}]
  BY NAssumption DEF FullNext, Vectors
<1>2. TypeOK
  BY <1>1, NAssumption DEF Init, TypeOK, Vectors
<1>3. \A c \in Clients : Chained(c) /\ \A v \in Vectors : Listed(c, v)
  BY FullListIsChain DEF Init
<1>4. QED BY <1>2, <1>3 DEF IInv, DirtyIsListed, AllChained

LEMMA NotifyUpdateInv ==
    ASSUME IInv, NEW v \in Vectors, NEW which \in Comm, NotifyUpdate(v, which)
    PROVE  IInv'
<1>1. Dirtied(Clients, v) /\ TypeOK /\ AllChained
  BY DEF NotifyUpdate, IInv
<1>2. AllChained'
  BY <1>1, DirtiedAppends DEF AllChained
<1>3. TypeOK'
  <2>1. dirty' \in [Clients -> [Vectors -> SUBSET Comm]]
    BY <1>1 DEF TypeOK, NotifyUpdate
  <2>2. /\ nextDirtyVector' \in [Clients -> [Vectors -> Vectors \cup {VECNONE}]]
        /\ firstDirtyVector' \in [Clients -> Vectors \cup {VECNONE}]
        /\ lastDirtyVector' \in [Clients -> Vectors \cup {VECNONE}]
    <3>1. \A c \in Clients :
            /\ nextDirtyVector'[c] \in [Vectors -> Vectors \cup {VECNONE}]
            /\ firstDirtyVector'[c] \in Vectors \cup {VECNONE}
            /\ lastDirtyVector'[c] \in Vectors \cup {VECNONE}
      BY <1>1, DirtiedAppends
    <3>2. QED BY <1>1, <3>1 DEF Dirtied
  <2>3. QED BY <2>1, <2>2 DEF TypeOK
<1>4. DirtyIsListed'
  <2>1. \A c \in Clients, w \in Vectors :
            dirty'[c][w] # {} => dirty[c][w] # {} \/ w = v
    BY <1>1 DEF TypeOK, NotifyUpdate
  <2>2. \A c \in Clients, w \in Vectors :
            Listed(c, w)' <=> Listed(c, w) \/ w = v
    BY <1>1, DirtiedAppends
  <2>3. QED BY <2>1, <2>2 DEF DirtyIsListed, IInv
<1>5. QED BY <1>2, <1>3, <1>4 DEF IInv

LEMMA SetDirtyInv ==
    ASSUME IInv, NEW a \in Clients, NEW v \in Vectors, NEW which \in Comm,
           SetDirty(a, v, which)
    PROVE  IInv'
<1>1. Dirtied({a}, v) /\ {a} \in SUBSET Clients /\ TypeOK /\ AllChained
  BY DEF SetDirty, IInv
<1>2. AllChained'
  BY <1>1, DirtiedAppends DEF AllChained
<1>3. TypeOK'
  <2>1. dirty' \in [Clients -> [Vectors -> SUBSET Comm]]
    BY <1>1 DEF TypeOK, SetDirty
  <2>2. \A c \in Clients :
            /\ nextDirtyVector'[c] \in [Vectors -> Vectors \cup {VECNONE}]
            /\ firstDirtyVector'[c] \in Vectors \cup {VECNONE}
            /\ lastDirtyVector'[c] \in Vectors \cup {VECNONE}
    BY <1>1, DirtiedAppends
  <2>3. /\ nextDirtyVector' \in [Clients -> [Vectors -> Vectors \cup {VECNONE}]]
        /\ firstDirtyVector' \in [Clients -> Vectors \cup {VECNONE}]
        /\ lastDirtyVector' \in [Clients -> Vectors \cup {VECNONE}]
    BY <1>1, <2>2 DEF Dirtied
  <2>4. QED BY <2>1, <2>3 DEF TypeOK
<1>4. DirtyIsListed'
  <2>1. \A c \in Clients, w \in Vectors :
            dirty'[c][w] # {} => dirty[c][w] # {} \/ (c = a /\ w = v)
    BY <1>1 DEF TypeOK, SetDirty
  <2>2. \A c \in Clients, w \in Vectors :
            Listed(c, w)' <=> Listed(c, w) \/ (c = a /\ w = v)
    <3>1. \A c \in Clients, w \in Vectors :
              Listed(c, w)' <=> Listed(c, w) \/ (c \in {a} /\ w = v)
      BY <1>1, DirtiedAppends
    <3>2. QED BY <3>1
  <2>3. QED BY <2>1, <2>2 DEF DirtyIsListed, IInv
<1>5. QED BY <1>2, <1>3, <1>4 DEF IInv

LEMMA PopDirtyInv ==
    ASSUME IInv, NEW a \in Clients, PopDirty(a)
    PROVE  IInv'
<1> DEFINE v == firstDirtyVector[a]
<1>1. TypeOK /\ AllChained
  BY DEF IInv
<1>2. v \in Vectors
  BY <1>1, PopRemovesHead
<1>3. \A c \in Clients \ {a} :
        /\ nextDirtyVector'[c] = nextDirtyVector[c]
        /\ firstDirtyVector'[c] = firstDirtyVector[c]
        /\ lastDirtyVector'[c] = lastDirtyVector[c]
        /\ dirty'[c] = dirty[c]
  BY <1>1 DEF PopDirty, TypeOK
<1>4. \A c \in Clients \ {a} : Chained(c)' /\ \A w \in Vectors :
                                                Listed(c, w)' <=> Listed(c, w)
  BY <1>1, <1>3, SameList DEF AllChained
<1>5. AllChained'
  BY <1>1, <1>4, PopRemovesHead DEF AllChained
<1>6. TypeOK'
  <2>1. nextDirtyVector[a][v] \in Vectors \cup {VECNONE}
    BY <1>1, <1>2 DEF TypeOK
  <2>2. dirty' \in [Clients -> [Vectors -> SUBSET Comm]]
    BY <1>1, <1>2 DEF PopDirty, TypeOK
  <2>3. nextDirtyVector' \in [Clients -> [Vectors -> Vectors \cup {VECNONE}]]
    BY <1>1, <1>2 DEF PopDirty, TypeOK
  <2>4. /\ firstDirtyVector' \in [Clients -> Vectors \cup {VECNONE}]
        /\ lastDirtyVector' \in [Clients -> Vectors \cup {VECNONE}]
    BY <1>1, <2>1 DEF PopDirty, TypeOK
  <2>5. QED BY <2>2, <2>3, <2>4 DEF TypeOK
<1>7. DirtyIsListed'
  <2>1. SUFFICES ASSUME NEW c \in Clients, NEW w \in Vectors, dirty'[c][w] # {}
                 PROVE  Listed(c, w)'
    BY DEF DirtyIsListed
  <2>2. CASE c = a
    <3>1. w # v /\ dirty[c][w] # {}
      BY <2>1, <2>2, <1>1, <1>2 DEF PopDirty, TypeOK
    <3>2. Listed(c, w) BY <3>1 DEF IInv, DirtyIsListed
    <3>3. QED BY <2>2, <3>1, <3>2, <1>1, PopRemovesHead
  <2>3. CASE c # a
    BY <2>1, <2>3, <1>3, <1>4 DEF IInv, DirtyIsListed
  <2>4. QED BY <2>2, <2>3
<1>8. QED BY <1>5, <1>6, <1>7 DEF IInv

LEMMA ResetInv ==
    ASSUME IInv, NEW a \in Clients, Reset(a)
    PROVE  IInv'
<1>1. TypeOK /\ AllChained
  BY DEF IInv
<1>2. /\ nextDirtyVector'[a] = FullNext
      /\ firstDirtyVector'[a] = 0
      /\ lastDirtyVector'[a] = N - 1
  BY <1>1 DEF Reset, TypeOK
<1>3. \A c \in Clients \ {a} :
        /\ nextDirtyVector'[c] = nextDirtyVector[c]
        /\ firstDirtyVector'[c] = firstDirtyVector[c]
        /\ lastDirtyVector'[c] = lastDirtyVector[c]
        /\ dirty'[c] = dirty[c]
  BY <1>1 DEF Reset, TypeOK
<1>4. Chained(a)' /\ \A v \in Vectors : Listed(a, v)'
  <2>1. N \in Nat /\ N # 0 BY NAssumption
  <2> DEFINE q == [i \in 1 .. N |-> i - 1]
  <2>2. q \in [1 .. N -> Vectors] BY <2>1 DEF Vectors
  <2>3. \A v \in Vectors : v + 1 \in 1 .. N /\ q[v + 1] = v
    BY <2>1 DEF Vectors
  <2>4. IsChain(a, N, q)'
    BY <1>2, <2>1, <2>2, <2>3 DEF IsChain, FullNext, Vectors
  <2>5. Chained(a)' BY <2>1, <2>2, <2>4 DEF Chained
  <2>6. \A v \in Vectors : Listed(a, v)'
    BY <1>2, <2>1, UidIsNotNone DEF Listed, FullNext, Vectors
  <2>7. QED BY <2>5, <2>6
<1>5. \A c \in Clients \ {a} : Chained(c)' /\ \A w \in Vectors :
                                                Listed(c, w)' <=> Listed(c, w)
  BY <1>1, <1>3, SameList DEF AllChained
<1>6. AllChained'
  BY <1>4, <1>5 DEF AllChained
<1>7. TypeOK'
  <2>1. FullNext \in [Vectors -> Vectors \cup {VECNONE}]
    BY NAssumption DEF FullNext, Vectors
  <2>2. 0 \in Vectors /\ N - 1 \in Vectors
    BY NAssumption DEF Vectors
  <2>3. [v \in Vectors |-> Comm] \in [Vectors -> SUBSET Comm]
    OBVIOUS
  <2>4. QED BY <1>1, <2>1, <2>2, <2>3 DEF Reset, TypeOK
<1>8. DirtyIsListed'
  BY <1>3, <1>4, <1>5 DEF IInv, DirtyIsListed
<1>9. QED BY <1>6, <1>7, <1>8 DEF IInv

LEMMA NextInv == IInv /\ [Next]_vars => IInv'
<1> SUFFICES ASSUME IInv, [Next]_vars PROVE IInv'
  OBVIOUS
<1>1. ASSUME NEW v \in Vectors, NEW which \in Comm, NotifyUpdate(v, which)
      PROVE  IInv'
  BY <1>1, NotifyUpdateInv
<1>2. ASSUME NEW c \in Clients, NEW v \in Vectors, SetDirty(c, v, VECTOR_VALUE)
      PROVE  IInv'
  <2>1. VECTOR_VALUE \in Comm BY DEF Comm
  <2>2. QED BY <1>2, <2>1, SetDirtyInv
<1>3. ASSUME NEW c \in Clients, PopDirty(c) PROVE IInv'
  BY <1>3, PopDirtyInv
<1>4. ASSUME NEW c \in Clients, Reset(c) PROVE IInv'
  BY <1>4, ResetInv
<1>5. CASE UNCHANGED vars
  <2>1. \A c \in Clients : Chained(c)' /\ \A w \in Vectors :
                                          Listed(c, w)' <=> Listed(c, w)
    BY <1>5, SameList DEF vars, IInv, AllChained
  <2>2. QED BY <1>5, <2>1 DEF vars, IInv, TypeOK, DirtyIsListed, AllChained
<1>6. QED BY <1>1, <1>2, <1>3, <1>4, <1>5 DEF Next

(* In every reachable state the four structures have their types and agree.*)
THEOREM Invariance == Spec => []IInv
<1>1. Init => IInv BY InitInv
<1>2. IInv /\ [Next]_vars => IInv' BY NextInv
<1>3. QED BY <1>1, <1>2, PTL DEF Spec

(* Type correctness: no uid out of range is ever stored in a list.         *)
THEOREM TypeCorrect == Spec => []TypeOK
BY Invariance, PTL DEF IInv

(* A vector with unsent news is always in the list that will send them,    *)
(* for any number of vectors and of serial ports.                          *)
THEOREM NothingForgotten == Spec => []DirtyIsListed
BY Invariance, PTL DEF IInv

(* No list is ever cut, looped or longer than the number of vectors.       *)
THEOREM ListsStayChains == Spec => []ListsAreChains
<1>1. IInv => ListsAreChains
  <2>1. SUFFICES ASSUME IInv, NEW c \in Clients
                 PROVE  \E k \in 0 .. N : \E q \in [1 .. k -> Vectors] :
                            IsChain(c, k, q)
    BY DEF ListsAreChains
  <2>2. PICK k \in Nat : \E q \in [1 .. k -> Vectors] : IsChain(c, k, q)
    BY <2>1 DEF IInv, AllChained, Chained
  <2>3. PICK q \in [1 .. k -> Vectors] : IsChain(c, k, q)
    BY <2>2
  <2>4. q \in Injection(1 .. k, Vectors)
    BY <2>3 DEF IsChain, Injection, IsInjective
  <2>5. N \in Nat /\ 0 \in Int /\ N - 1 \in Int /\ 1 \in Int /\ k \in Int
    BY NAssumption
  <2>6. IsFiniteSet(Vectors) /\ Cardinality(Vectors) = N
    BY <2>5, FS_Interval DEF Vectors
  <2>7. Cardinality(1 .. k) = k
    BY <2>5, FS_Interval
  <2>8. Cardinality(1 .. k) <= Cardinality(Vectors)
    BY <2>4, <2>6, FS_Injection
  <2>9. k \in 0 .. N
    BY <2>5, <2>6, <2>7, <2>8
  <2>10. QED BY <2>3, <2>9
<1>2. QED BY <1>1, Invariance, PTL

(* The bookkeeping keeps the promise of NotifPending: a change is pending  *)
(* for every client, and stays so until the client takes it.               *)
THEOREM Refinement == Spec => PromiseKept
<1>1. Init => Promise!Init
  <2>1. SUFFICES ASSUME Init PROVE Promise!Init
    OBVIOUS
  <2>2. \A c \in Clients : \A v \in Vectors : Listed(c, v)
    BY <2>1, FullListIsChain DEF Init
  <2>3. QED BY <2>1, <2>2 DEF Init, Promise!Init, Pending
<1>2. IInv /\ [Next]_vars => [Promise!Next]_(Promise!vars)
  <2> SUFFICES ASSUME IInv, [Next]_vars PROVE [Promise!Next]_(Promise!vars)
    OBVIOUS
  <2> USE DEF IInv
  <2>1. ASSUME NEW v \in Vectors, NEW which \in Comm, NotifyUpdate(v, which)
        PROVE  Promise!Change(v, which)
    <3>1. \A c \in Clients, w \in Vectors :
             Listed(c, w)' <=> Listed(c, w) \/ w = v
      BY <2>1, DirtiedAppends DEF NotifyUpdate
    <3>2. Pending' = [c \in Clients |-> Pending[c] \cup {v}]
      BY <3>1 DEF Pending
    <3>3. QED BY <2>1, <3>2 DEF NotifyUpdate, Promise!Change
  <2>2. ASSUME NEW a \in Clients, NEW v \in Vectors,
               SetDirty(a, v, VECTOR_VALUE)
        PROVE  Promise!Touch(a, v, VECTOR_VALUE)
    <3>1. \A c \in Clients, w \in Vectors :
             Listed(c, w)' <=> Listed(c, w) \/ (c = a /\ w = v)
      <4>1. Dirtied({a}, v) /\ {a} \in SUBSET Clients
        BY <2>2 DEF SetDirty
      <4>2. \A c \in Clients, w \in Vectors :
             Listed(c, w)' <=> Listed(c, w) \/ (c \in {a} /\ w = v)
        BY <4>1, DirtiedAppends
      <4>3. QED BY <4>2
    <3>2. Pending' = [Pending EXCEPT ![a] = @ \cup {v}]
      BY <3>1 DEF Pending
    <3>3. QED BY <2>2, <3>2 DEF SetDirty, Promise!Touch
  <2>3. ASSUME NEW a \in Clients, PopDirty(a)
        PROVE  /\ firstDirtyVector[a] \in Vectors
               /\ Promise!Take(a, firstDirtyVector[a])
    <3> DEFINE v == firstDirtyVector[a]
    <3>1. v \in Vectors /\ Listed(a, v)
      BY <2>3, PopRemovesHead
    <3>2. \A w \in Vectors : Listed(a, w)' <=> Listed(a, w) /\ w # v
      BY <2>3, PopRemovesHead
    <3>3. \A c \in Clients \ {a} : \A w \in Vectors :
             Listed(c, w)' <=> Listed(c, w)
      BY <2>3 DEF PopDirty, Listed, TypeOK
    <3>4. Pending' = [Pending EXCEPT ![a] = @ \ {v}]
      BY <3>2, <3>3 DEF Pending
    <3>5. v \in Pending[a]
      BY <3>1 DEF Pending
    <3>6. QED BY <2>3, <3>1, <3>4, <3>5 DEF PopDirty, Promise!Take
  <2>4. ASSUME NEW a \in Clients, Reset(a)
        PROVE  Promise!Forget(a)
    <3>1. /\ nextDirtyVector'[a] = FullNext
          /\ lastDirtyVector'[a] = N - 1
      BY <2>4 DEF Reset, TypeOK
    <3>2. \A w \in Vectors : Listed(a, w)'
      BY <3>1, NAssumption, UidIsNotNone DEF Listed, FullNext, Vectors
    <3>3. \A c \in Clients \ {a} : \A w \in Vectors :
             Listed(c, w)' <=> Listed(c, w)
      BY <2>4 DEF Reset, Listed, TypeOK
    <3>4. Pending' = [Pending EXCEPT ![a] = Vectors]
      BY <3>2, <3>3 DEF Pending
    <3>5. QED BY <2>4, <3>4 DEF Reset, Promise!Forget
  <2>5. CASE UNCHANGED vars
    BY <2>5 DEF vars, Promise!vars, Pending, Listed
  <2>6. VECTOR_VALUE \in Comm
    BY DEF Comm
  <2>7. QED
    BY <2>1, <2>2, <2>3, <2>4, <2>5, <2>6 DEF Next, Promise!Next
<1>3. QED BY <1>1, <1>2, Invariance, PTL DEF Spec, PromiseKept, Promise!Spec
=============================================================================
