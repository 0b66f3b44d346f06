----------------------------- MODULE IndiLinkProofs -----------------------------
(***************************************************************************)
(* Proofs about the line between the device and the driver, for any number *)
(* of vectors, any capacity of the line and any number of faults.          *)
(***************************************************************************)
EXTENDS IndiLink, Arithmetic, SequenceTheorems

\* A vector of the driver: known or not.
Image == Snapshot \cup {None}

\* The driver's vector v, now x, once what the device holds is applied.
Way(x, d, v) == Reads(Reads(x, d.out, v), d.ack, v)

\* A vector that has news is in the queue.
Queued(d) == \A v \in Vectors : d.dirty[v] # {} => v \in Range(d.queue)

\* All there is to know about v, which is c, will reach the driver, where it
\* is x; and an update is not sent to a driver that does not know v.
Covered(x, c, d, v) ==
    /\ v \in Range(d.queue) \/ Way(x, d, v) = c
    /\ "ANNOUNCED" \in d.dirty[v] \/ Way(x, d, v) # None

\* The driver's vector v, once the line is empty.
Read(v) == After(vec[v], toHost, v)

Unwelcomed ==
    /\ ~up => ~host.welcomed /\ host.out = None
    /\ ~host.welcomed => host.request = None /\ \A v \in Vectors : vec[v] = None

AllCovered == up /\ ~lost => RestartComing \/ \A v \in Vectors : Covered(Read(v), cur[v], dev, v)

IInv == TypeOK /\ Queued(dev) /\ Unwelcomed /\ AllCovered

-----------------------------------------------------------------------------
(* Nothing is mistaken for an absent packet or an unknown vector.          *)
LEMMA NoneIsNone ==
    /\ None \notin Snapshot /\ None \notin HostPacket /\ None \notin DevPacket
    /\ \A p \in HostPacket : p # Restarted => p.vec \in Vectors
<1>1. None \notin Snapshot
  BY Zenon DEF None, Snapshot
<1>2. None \notin HostPacket
  BY DEF None, HostPacket, Restarted
<1>3. None \notin DevPacket
  BY DEF None, DevPacket, Restarted, Bad
<1>4. \A p \in HostPacket : p # Restarted => p.vec \in Vectors
  BY DEF HostPacket
<1> QED  BY <1>1, <1>2, <1>3, <1>4

(* A packet that is read leaves a vector, and takes none away.             *)
LEMMA ReadsType ==
    ASSUME NEW x \in Image, NEW p \in HostPacket \cup {None}, NEW v \in Vectors
    PROVE  Reads(x, p, v) \in Image /\ (x # None => Reads(x, p, v) # None)
<1>1. CASE p \in {None, Restarted} \/ p.vec # v
  BY <1>1 DEF Reads
<1>2. CASE p \notin {None, Restarted} /\ p.vec = v
  <2>1. Reads(x, p, v) = Apply(x, p)
    BY <1>2 DEF Reads
  <2>2. CASE p.kind \in {"ANNOUNCE", "UPDATE"}
    <3>1. p \in [kind : {"ANNOUNCE", "UPDATE"}, vec : Vectors, ver : Nat, busy : BOOLEAN]
      BY <1>2, <2>2 DEF HostPacket
    <3>2. [ver |-> p.ver, busy |-> p.busy] \in Snapshot
      BY <3>1, Zenon DEF Snapshot
    <3>3. Apply(x, p) = [ver |-> p.ver, busy |-> p.busy] \/ Apply(x, p) = x
      BY <2>2 DEF Apply
    <3> QED  BY <2>1, <3>2, <3>3, NoneIsNone DEF Image
  <2>3. CASE p.kind \notin {"ANNOUNCE", "UPDATE"}
    <3>1. CASE p.kind = "BUSYACK" /\ x # None
      <4>1. x \in Snapshot
        BY <3>1 DEF Image
      <4>2. [x EXCEPT !.busy = TRUE] \in Snapshot
        BY <4>1, Zenon DEF Snapshot
      <4> QED  BY <2>1, <3>1, <4>2, NoneIsNone DEF Image, Apply
    <3>2. CASE ~(p.kind = "BUSYACK" /\ x # None)
      <4>1. Apply(x, p) = x
        BY <2>3, <3>2 DEF Apply
      <4> QED  BY <2>1, <4>1
    <3> QED  BY <3>1, <3>2
  <2> QED  BY <2>2, <2>3
<1> QED  BY <1>1, <1>2

(* The steps of After: what it is, and that it is nothing else.            *)
LEMMA AfterSteps ==
    ASSUME NEW x \in Image, NEW q \in Seq(HostPacket), NEW v \in Vectors
    PROVE  \E f \in [0 .. Len(q) -> Image] :
              /\ f[0] = x
              /\ \A i \in 1 .. Len(q) : f[i] = Reads(f[i - 1], q[i], v)
              /\ After(x, q, v) = f[Len(q)]
<1> DEFINE n == Len(q)
           G == [i \in 1 .. n |-> [y \in Image |-> Reads(y, q[i], v)]]
           Steps(f) == [i \in 0 .. n |-> IF i = 0 THEN x ELSE Reads(f[i - 1], q[i], v)]
<1>1. n \in Nat /\ \A i \in 1 .. n : q[i] \in HostPacket
  BY ElementOfSeq, LenProperties
<1>2. G \in [1 .. n -> [Image -> Image]]
  BY <1>1, ReadsType
<1> HIDE DEF n
<1>3. PICK f \in [0 .. n -> Image] : f[0] = x /\ \A i \in 1 .. n : f[i] = G[i][f[i - 1]]
  <2> HIDE DEF G
  <2>1. n \in Nat
    BY <1>1
  <2>2. Runs(n, Image, x, G) # {}
    BY <1>2, <2>1, Recursion
  <2> QED  BY <2>2 DEF Runs
<1>4. \A i \in 1 .. n : i - 1 \in 0 .. n
  BY <1>1, SMT
<1>5. \A i \in 1 .. n : f[i] = Reads(f[i - 1], q[i], v)
  BY <1>3, <1>4
<1>6. f = Steps(f)
  <2>1. \A i \in 0 .. n : f[i] = Steps(f)[i]
    BY <1>1, <1>3, <1>5, SMT
  <2> QED  BY <1>3, <2>1
<1> DEFINE g == CHOOSE h : h = Steps(h)
<1>7. g = Steps(g)
  BY <1>6
<1>8. After(x, q, v) = g[n]
  BY DEF After, n
<1> HIDE DEF g
<1>9. g[0] = x /\ \A i \in 1 .. n : g[i] = Reads(g[i - 1], q[i], v)
  BY <1>1, <1>7, SMT
<1>10. \A i \in 0 .. n : g[i] \in Image
  <2> DEFINE P == {i \in 0 .. n : g[i] \in Image}
  <2>1. 0 \in P
    BY <1>1, <1>9, SMT
  <2>2. ASSUME NEW i \in 0 .. n - 1, i \in P PROVE i + 1 \in P
    <3>1. i + 1 \in 1 .. n /\ i + 1 \in 0 .. n /\ i + 1 - 1 = i
      BY <1>1, SMT
    <3>2. g[i + 1] = Reads(g[i], q[i + 1], v)
      BY <1>9, <3>1
    <3> QED  BY <1>1, <2>2, <3>1, <3>2, ReadsType
  <2> HIDE DEF P
  <2>3. \A i \in 0 .. n : i \in P
    BY <1>1, <2>1, <2>2, Induction
  <2> QED  BY <2>3 DEF P
<1>11. g \in [0 .. n -> Image]
  BY <1>7, <1>10
<1> QED  BY <1>8, <1>9, <1>11 DEF n

LEMMA AfterIs ==
    ASSUME NEW x \in Image, NEW q \in Seq(HostPacket), NEW v \in Vectors,
           NEW f, f[0] = x, \A i \in 1 .. Len(q) : f[i] = Reads(f[i - 1], q[i], v)
    PROVE  After(x, q, v) = f[Len(q)]
<1> DEFINE n == Len(q)
<1>1. n \in Nat
  BY LenProperties
<1>2. PICK g \in [0 .. n -> Image] :
         /\ g[0] = x
         /\ \A i \in 1 .. n : g[i] = Reads(g[i - 1], q[i], v)
         /\ After(x, q, v) = g[n]
  BY AfterSteps
<1> HIDE DEF n
<1> DEFINE P == {i \in 0 .. n : f[i] = g[i]}
<1>3. 0 \in P
  BY <1>1, <1>2, SMT
<1>4. ASSUME NEW i \in 0 .. n - 1, i \in P PROVE i + 1 \in P
  <2>1. i + 1 \in 1 .. n /\ i + 1 \in 0 .. n /\ i + 1 - 1 = i
    BY <1>1, SMT
  <2>2. f[i + 1] = Reads(f[i], q[i + 1], v) /\ g[i + 1] = Reads(g[i], q[i + 1], v)
    BY <1>2, <2>1 DEF n
  <2> QED  BY <1>4, <2>1, <2>2
<1> HIDE DEF P
<1>5. \A i \in 0 .. n : i \in P
  BY <1>1, <1>3, <1>4, Induction
<1>6. n \in 0 .. n
  BY <1>1, SMT
<1> QED  BY <1>2, <1>5, <1>6 DEF P, n

(* Nothing on the way, one more packet behind, one packet less in front.   *)
LEMMA AfterNothing ==
    ASSUME NEW x \in Image, NEW v \in Vectors
    PROVE  After(x, << >>, v) = x
<1> DEFINE f == [i \in {0} |-> x]
<1>1. << >> \in Seq(HostPacket) /\ Len(<< >>) = 0
  BY EmptySeq
<1>2. f[0] = x /\ \A i \in 1 .. Len(<< >>) : f[i] = Reads(f[i - 1], << >>[i], v)
  BY <1>1, SMT
<1> HIDE DEF f
<1>3. After(x, << >>, v) = f[Len(<< >>)]
  BY <1>1, <1>2, AfterIs
<1> QED  BY <1>1, <1>2, <1>3

LEMMA AfterType ==
    ASSUME NEW x \in Image, NEW q \in Seq(HostPacket), NEW v \in Vectors
    PROVE  After(x, q, v) \in Image
<1>1. PICK f \in [0 .. Len(q) -> Image] : After(x, q, v) = f[Len(q)]
  BY AfterSteps
<1>2. Len(q) \in 0 .. Len(q)
  BY LenProperties, SMT
<1> QED  BY <1>1, <1>2

LEMMA AfterAppend ==
    ASSUME NEW x \in Image, NEW q \in Seq(HostPacket), NEW p \in HostPacket, NEW v \in Vectors
    PROVE  After(x, Append(q, p), v) = Reads(After(x, q, v), p, v)
<1> DEFINE n == Len(q)
           r == Append(q, p)
<1>1. /\ n \in Nat /\ r \in Seq(HostPacket) /\ Len(r) = n + 1 /\ r[n + 1] = p
      /\ \A i \in 1 .. n : r[i] = q[i]
  BY AppendProperties, LenProperties
<1>2. PICK f \in [0 .. n -> Image] :
         /\ f[0] = x
         /\ \A i \in 1 .. n : f[i] = Reads(f[i - 1], q[i], v)
         /\ After(x, q, v) = f[n]
  BY AfterSteps
<1> HIDE DEF n, r
<1> DEFINE g == [i \in 0 .. n + 1 |-> IF i = n + 1 THEN Reads(f[n], p, v) ELSE f[i]]
<1>3. g[n + 1] = Reads(f[n], p, v) /\ \A i \in 0 .. n : g[i] = f[i]
  BY <1>1, SMT
<1> HIDE DEF g
<1>4. g[0] = x
  BY <1>1, <1>2, <1>3, SMT
<1>5. \A i \in 1 .. n + 1 : g[i] = Reads(g[i - 1], r[i], v)
  <2> SUFFICES ASSUME NEW i \in 1 .. n + 1 PROVE g[i] = Reads(g[i - 1], r[i], v)
    OBVIOUS
  <2>1. CASE i = n + 1
    <3>1. i - 1 = n /\ n \in 0 .. n
      BY <1>1, <2>1, SMT
    <3> QED  BY <1>1, <1>3, <2>1, <3>1
  <2>2. CASE i # n + 1
    <3>1. i \in 1 .. n /\ i \in 0 .. n /\ i - 1 \in 0 .. n
      BY <1>1, <2>2, SMT
    <3> QED  BY <1>1, <1>2, <1>3, <3>1
  <2> QED  BY <2>1, <2>2
<1>6. After(x, r, v) = g[n + 1]
  BY <1>1, <1>4, <1>5, AfterIs
<1> QED  BY <1>2, <1>3, <1>6 DEF r

LEMMA AfterTail ==
    ASSUME NEW x \in Image, NEW q \in Seq(HostPacket), q # << >>, NEW v \in Vectors
    PROVE  After(x, q, v) = After(Reads(x, Head(q), v), Tail(q), v)
<1> DEFINE n == Len(q)
           r == Tail(q)
           y == Reads(x, Head(q), v)
<1>1. /\ n \in Nat \ {0} /\ r \in Seq(HostPacket) /\ Len(r) = n - 1
      /\ Head(q) \in HostPacket /\ Head(q) = q[1]
      /\ \A i \in 1 .. n - 1 : r[i] = q[i + 1]
  BY HeadTailProperties, LenProperties, EmptySeq
<1>2. PICK f \in [0 .. n -> Image] :
         /\ f[0] = x
         /\ \A i \in 1 .. n : f[i] = Reads(f[i - 1], q[i], v)
         /\ After(x, q, v) = f[n]
  BY AfterSteps
<1>3. y \in Image
  BY <1>1, ReadsType
<1>4. f[1] = y
  <2>1. 1 \in 1 .. n /\ 1 - 1 = 0
    BY <1>1, SMT
  <2> QED  BY <1>1, <1>2, <2>1
<1> HIDE DEF n, r, y
<1> DEFINE g == [i \in 0 .. n - 1 |-> f[i + 1]]
<1>5. \A i \in 0 .. n - 1 : g[i] = f[i + 1]
  OBVIOUS
<1> HIDE DEF g
<1>6. g[0] = y /\ g[n - 1] = f[n]
  <2>1. 0 \in 0 .. n - 1 /\ n - 1 \in 0 .. n - 1 /\ n - 1 + 1 = n /\ 0 + 1 = 1
    BY <1>1, SMT
  <2> QED  BY <1>4, <1>5, <2>1
<1>7. \A i \in 1 .. n - 1 : g[i] = Reads(g[i - 1], r[i], v)
  <2> SUFFICES ASSUME NEW i \in 1 .. n - 1 PROVE g[i] = Reads(g[i - 1], r[i], v)
    OBVIOUS
  <2>1. /\ i \in 0 .. n - 1 /\ i - 1 \in 0 .. n - 1 /\ i - 1 + 1 = i
        /\ i + 1 \in 1 .. n /\ i + 1 - 1 = i
    BY <1>1, SMT
  <2>2. g[i] = f[i + 1] /\ g[i - 1] = f[i]
    BY <1>5, <2>1
  <2>3. f[i + 1] = Reads(f[i], q[i + 1], v)
    BY <1>2, <2>1
  <2> QED  BY <1>1, <2>2, <2>3
<1>8. After(y, r, v) = g[n - 1]
  <2>1. \A i \in 1 .. Len(r) : g[i] = Reads(g[i - 1], r[i], v)
    BY <1>1, <1>7
  <2>2. After(y, r, v) = g[Len(r)]
    BY <1>1, <1>3, <1>6, <2>1, AfterIs
  <2> QED  BY <1>1, <2>2
<1> QED  BY <1>2, <1>6, <1>8 DEF r, y

-----------------------------------------------------------------------------
(* Adding to a queue keeps what is in it; so does removing the head, but   *)
(* for the head.                                                           *)
LEMMA AppendRange ==
    ASSUME NEW S, NEW q \in Seq(S), NEW e \in S
    PROVE  Range(Append(q, e)) = Range(q) \cup {e}
<1> DEFINE r == Append(q, e)
           n == Len(q)
<1>1. /\ n \in Nat /\ r \in Seq(S) /\ Len(r) = n + 1 /\ r[n + 1] = e
      /\ \A i \in 1 .. n : r[i] = q[i]
  BY AppendProperties, LenProperties
<1>2. DOMAIN q = 1 .. n /\ DOMAIN r = 1 .. n + 1
  BY <1>1, LenProperties
<1> HIDE DEF n, r
<1>3. 1 .. n + 1 = (1 .. n) \cup {n + 1}
  BY <1>1, SMT
<1> QED  BY <1>1, <1>2, <1>3 DEF Range, r

LEMMA TailRange ==
    ASSUME NEW S, NEW q \in Seq(S), q # << >>
    PROVE  Range(q) = Range(Tail(q)) \cup {Head(q)}
<1> DEFINE r == Tail(q)
           n == Len(q)
<1>1. /\ n \in Nat \ {0} /\ r \in Seq(S) /\ Len(r) = n - 1 /\ Head(q) = q[1]
      /\ \A i \in 1 .. n - 1 : r[i] = q[i + 1]
  BY HeadTailProperties, LenProperties, EmptySeq
<1>2. DOMAIN q = 1 .. n /\ DOMAIN r = 1 .. n - 1
  BY <1>1, LenProperties
<1> HIDE DEF n, r
<1>3. \A i \in 1 .. n : i = 1 \/ (i - 1 \in 1 .. n - 1 /\ i - 1 + 1 = i)
  BY <1>1, SMT
<1>4. 1 \in 1 .. n /\ \A i \in 1 .. n - 1 : i + 1 \in 1 .. n
  BY <1>1, SMT
<1>5. \A i \in 1 .. n : q[i] \in Range(r) \cup {Head(q)}
  <2> SUFFICES ASSUME NEW i \in 1 .. n PROVE q[i] \in Range(r) \cup {Head(q)}
    OBVIOUS
  <2>1. CASE i = 1
    BY <1>1, <2>1
  <2>2. CASE i # 1
    <3>1. i - 1 \in 1 .. n - 1 /\ r[i - 1] = q[i]
      BY <1>1, <1>3, <2>2
    <3> QED  BY <1>2, <3>1 DEF Range
  <2> QED  BY <2>1, <2>2
<1>6. \A i \in 1 .. n - 1 : r[i] \in Range(q)
  BY <1>1, <1>2, <1>4 DEF Range
<1>7. Head(q) \in Range(q)
  BY <1>1, <1>2, <1>4 DEF Range
<1>8. Range(q) \subseteq Range(r) \cup {Head(q)}
  BY <1>2, <1>5 DEF Range
<1>9. Range(r) \subseteq Range(q)
  BY <1>2, <1>6 DEF Range
<1> QED  BY <1>7, <1>8, <1>9 DEF r

-----------------------------------------------------------------------------
DeviceState == [cur : [Vectors -> Snapshot], dev : DevState, toDev : Seq(DevPacket),
                lost : BOOLEAN]

\* d has at least the news of c, and holds the same packets.
MoreNews(c, d) ==
    /\ d.ack = c.ack /\ d.out = c.out /\ d.incoming = c.incoming
    /\ \A w \in Vectors : /\ c.dirty[w] \subseteq d.dirty[w]
                          /\ w \in Range(c.queue) => w \in Range(d.queue)

\* Everything is to be announced.
AllNew(d) == \A v \in Vectors : v \in Range(d.queue) /\ "ANNOUNCED" \in d.dirty[v]

(* notifyUpdate and setDirty.                                              *)
LEMMA NotifyKeeps ==
    ASSUME NEW d \in DevState, Queued(d), NEW v \in Vectors,
           NEW which \in {"ANNOUNCED", "VALUE"}
    PROVE  LET n == Notify(d, v, which)
           IN  n \in DevState /\ Queued(n) /\ MoreNews(d, n) /\ v \in Range(n.queue)
<1> DEFINE q == IF v \in Range(d.queue) THEN d.queue ELSE Append(d.queue, v)
           y == [d.dirty EXCEPT ![v] = @ \cup {which}]
           n == [d EXCEPT !.dirty = y, !.queue = q]
<1>1. d.queue \in Seq(Vectors) /\ d.dirty \in [Vectors -> SUBSET {"ANNOUNCED", "VALUE"}]
  BY Zenon DEF DevState
<1>2. q \in Seq(Vectors) /\ Range(q) = Range(d.queue) \cup {v}
  <2>1. Append(d.queue, v) \in Seq(Vectors)
    BY <1>1, AppendProperties
  <2>2. Range(Append(d.queue, v)) = Range(d.queue) \cup {v}
    BY <1>1, AppendRange
  <2> QED  BY <1>1, <2>1, <2>2
<1>3. /\ y \in [Vectors -> SUBSET {"ANNOUNCED", "VALUE"}]
      /\ \A w \in Vectors : d.dirty[w] \subseteq y[w] /\ (w # v => y[w] = d.dirty[w])
  BY <1>1
<1>4. Notify(d, v, which) = n
  BY Zenon DEF Notify
<1> HIDE DEF q, y
<1>5. /\ n \in DevState /\ n.queue = q /\ n.dirty = y
      /\ n.ack = d.ack /\ n.out = d.out /\ n.incoming = d.incoming
  BY <1>2, <1>3, Zenon DEF DevState
<1> HIDE DEF n
<1>6. Queued(n)
  BY <1>2, <1>3, <1>5 DEF Queued
<1>7. MoreNews(d, n) /\ v \in Range(n.queue)
  BY <1>2, <1>3, <1>5 DEF MoreNews
<1> QED  BY <1>4, <1>5, <1>6, <1>7

LEMMA SetDirtyKeeps ==
    ASSUME NEW d \in DevState, Queued(d), NEW v \in Vectors
    PROVE  LET n == SetDirty(d, v)
           IN  n \in DevState /\ Queued(n) /\ MoreNews(d, n) /\ v \in Range(n.queue)
<1>1. CASE d.dirty[v] = {}
  BY <1>1, NotifyKeeps DEF SetDirty
<1>2. CASE d.dirty[v] # {}
  BY <1>2 DEF SetDirty, Queued, MoreNews
<1> QED  BY <1>1, <1>2

(* IndiProtocol::reset.                                                    *)
LEMMA ResetKeeps ==
    ASSUME NEW c
    PROVE  LET d == ResetDev(c)
           IN  /\ d \in DevState /\ Queued(d) /\ AllNew(d)
               /\ d.ack = None /\ d.out = None /\ d.incoming = None
<1> DEFINE y == [v \in Vectors |-> {"ANNOUNCED", "VALUE"}]
           q == [i \in 1 .. NVec |-> i - 1]
           d == [dirty |-> y, queue |-> q, welcomed |-> FALSE,
                 ack |-> None, out |-> None, incoming |-> None]
<1>1. y \in [Vectors -> SUBSET {"ANNOUNCED", "VALUE"}]
  OBVIOUS
<1>2. \A i \in 1 .. NVec : i - 1 \in Vectors
  BY LinkAssumption, SMT DEF Vectors
<1>3. q \in Seq(Vectors)
  BY <1>2, LinkAssumption, IsASeq
<1>4. \A v \in Vectors : v \in Range(q)
  <2> SUFFICES ASSUME NEW v \in Vectors PROVE v \in Range(q)
    OBVIOUS
  <2>1. PICK i \in 1 .. NVec : i - 1 = v
    <3>1. v + 1 \in 1 .. NVec /\ v + 1 - 1 = v
      BY LinkAssumption, SMT DEF Vectors
    <3> QED  BY <3>1, LinkAssumption DEF Vectors
  <2>2. DOMAIN q = 1 .. NVec /\ q[i] = i - 1
    OBVIOUS
  <2> HIDE DEF q
  <2> QED  BY <2>1, <2>2 DEF Range
<1>5. ResetDev(c) = d
  BY DEF ResetDev
<1>6. \A v \in Vectors : "ANNOUNCED" \in y[v]
  OBVIOUS
<1> HIDE DEF y, q
<1>7. /\ d \in DevState /\ d.dirty = y /\ d.queue = q
      /\ d.ack = None /\ d.out = None /\ d.incoming = None
  BY <1>1, <1>3, Zenon DEF DevState
<1> HIDE DEF d
<1>8. Queued(d) /\ AllNew(d)
  BY <1>4, <1>6, <1>7 DEF Queued, AllNew
<1> QED  BY <1>5, <1>7, <1>8

(* IndiVector::set and the callbacks: the new value is news.               *)
LEMMA SetValueKeeps ==
    ASSUME NEW s \in DeviceState, Queued(s.dev), NEW v \in Vectors
    PROVE  LET t == SetValue(s, v)
           IN  /\ t \in DeviceState /\ Queued(t.dev) /\ MoreNews(s.dev, t.dev)
               /\ v \in Range(t.dev.queue) /\ t.toDev = s.toDev /\ t.lost = s.lost
               /\ \A w \in Vectors : w # v => t.cur[w] = s.cur[w]
<1> DEFINE n == Notify(s.dev, v, "VALUE")
           e == [s.cur[v] EXCEPT !.ver = @ + 1]
           c == [s.cur EXCEPT ![v] = e]
           t == [s EXCEPT !.cur = c, !.dev = n]
<1>1. s.cur \in [Vectors -> Snapshot] /\ s.dev \in DevState /\ s.cur[v] \in Snapshot
  BY Zenon DEF DeviceState
<1>2. n \in DevState /\ Queued(n) /\ MoreNews(s.dev, n) /\ v \in Range(n.queue)
  BY <1>1, NotifyKeeps
<1>3. e \in Snapshot
  <2>1. s.cur[v].ver + 1 \in Nat
    BY <1>1, SMT DEF Snapshot
  <2> QED  BY <1>1, <2>1, Zenon DEF Snapshot
<1>4. SetValue(s, v) = t
  BY Zenon DEF SetValue
<1> HIDE DEF n, e
<1>5. c \in [Vectors -> Snapshot] /\ \A w \in Vectors : w # v => c[w] = s.cur[w]
  BY <1>1, <1>3
<1> HIDE DEF c
<1>6. /\ t \in DeviceState /\ t.cur = c /\ t.dev = n /\ t.toDev = s.toDev
      /\ t.lost = s.lost
  BY <1>2, <1>5, Zenon DEF DeviceState
<1> HIDE DEF t
<1> QED  BY <1>2, <1>4, <1>5, <1>6

LEMMA SetBusyKeeps ==
    ASSUME NEW s \in DeviceState, Queued(s.dev), NEW v \in Vectors, NEW b \in BOOLEAN
    PROVE  LET t == SetBusy(s, v, b)
           IN  /\ t \in DeviceState /\ Queued(t.dev) /\ MoreNews(s.dev, t.dev)
               /\ t = s \/ v \in Range(t.dev.queue)
               /\ t.toDev = s.toDev /\ t.lost = s.lost
               /\ \A w \in Vectors : w # v => t.cur[w] = s.cur[w]
<1>1. CASE s.cur[v].busy = b
  <2>1. SetBusy(s, v, b) = s
    BY <1>1 DEF SetBusy
  <2> QED  BY <2>1 DEF MoreNews, DeviceState
<1>2. CASE s.cur[v].busy # b
  <2> DEFINE n == Notify(s.dev, v, "VALUE")
             e == [s.cur[v] EXCEPT !.busy = b]
             c == [s.cur EXCEPT ![v] = e]
             t == [s EXCEPT !.cur = c, !.dev = n]
  <2>1. s.cur \in [Vectors -> Snapshot] /\ s.dev \in DevState /\ s.cur[v] \in Snapshot
    BY Zenon DEF DeviceState
  <2>2. n \in DevState /\ Queued(n) /\ MoreNews(s.dev, n) /\ v \in Range(n.queue)
    BY <2>1, NotifyKeeps
  <2>3. e \in Snapshot
    BY <2>1, Zenon DEF Snapshot
  <2>4. SetBusy(s, v, b) = t
    BY <1>2, Zenon DEF SetBusy
  <2> HIDE DEF n, e
  <2>5. c \in [Vectors -> Snapshot] /\ \A w \in Vectors : w # v => c[w] = s.cur[w]
    BY <2>1, <2>3
  <2> HIDE DEF c
  <2>6. /\ t \in DeviceState /\ t.cur = c /\ t.dev = n /\ t.toDev = s.toDev
        /\ t.lost = s.lost
    BY <2>2, <2>5, Zenon DEF DeviceState
  <2> HIDE DEF t
  <2> QED  BY <2>2, <2>4, <2>5, <2>6
<1> QED  BY <1>1, <1>2

-----------------------------------------------------------------------------
(* More news cover what was covered, and any new value of what is queued.  *)
LEMMA MoreNewsCover ==
    ASSUME NEW d, NEW n, MoreNews(d, n), NEW x, NEW c, NEW e, NEW w \in Vectors,
           Covered(x, c, d, w), e = c \/ w \in Range(n.queue)
    PROVE  Covered(x, e, n, w)
<1>1. Way(x, n, w) = Way(x, d, w)
  BY DEF MoreNews, Way
<1> QED  BY <1>1 DEF MoreNews, Covered

(* A device with another answer.                                           *)
LEMMA OtherAck ==
    ASSUME NEW d \in DevState, NEW p \in HostPacket
    PROVE  LET e == [d EXCEPT !.ack = p]
           IN  /\ e \in DevState /\ e.ack = p /\ e.out = d.out /\ e.incoming = d.incoming
               /\ e.dirty = d.dirty /\ e.queue = d.queue
               /\ Queued(d) => Queued(e)
               /\ AllNew(d) => AllNew(e)
<1> DEFINE e == [d EXCEPT !.ack = p]
<1>1. /\ e \in DevState /\ e.ack = p /\ e.out = d.out /\ e.incoming = d.incoming
      /\ e.dirty = d.dirty /\ e.queue = d.queue
  BY Zenon DEF DevState
<1> HIDE DEF e
<1>2. (Queued(d) => Queued(e)) /\ (AllNew(d) => AllNew(e))
  BY <1>1 DEF Queued, AllNew
<1> QED  BY <1>1, <1>2 DEF e

LEMMA BusyAckPacket ==
    ASSUME NEW v \in Vectors
    PROVE  BusyAck(v) \in HostPacket /\ BusyAck(v) # Restarted
           /\ BusyAck(v).vec = v /\ BusyAck(v).kind = "BUSYACK"
  BY DEF BusyAck, HostPacket, Restarted

(* The pseudo BUSY answer is harmless when the vector is busy, or is still *)
(* to be sent.                                                             *)
LEMMA AckCovers ==
    ASSUME NEW d \in DevState, d.ack = None, NEW v \in Vectors, NEW w \in Vectors,
           NEW x \in Image, NEW c \in Snapshot, Covered(x, c, d, w),
           w = v => v \in Range(d.queue) \/ c.busy
    PROVE  Covered(x, c, [d EXCEPT !.ack = BusyAck(v)], w)
<1> DEFINE e == [d EXCEPT !.ack = BusyAck(v)]
           y == Reads(x, d.out, w)
           b == BusyAck(v)
<1>1. b \in HostPacket /\ b # Restarted /\ b.vec = v /\ b.kind = "BUSYACK" /\ b # None
  BY BusyAckPacket, NoneIsNone
<1>2. e.ack = b /\ e.out = d.out /\ e.dirty = d.dirty /\ e.queue = d.queue
  BY <1>1, OtherAck
<1> HIDE DEF e, b
<1>3. Way(x, d, w) = y
  BY DEF Way, Reads
<1>4. Way(x, e, w) = Reads(y, b, w)
  BY <1>2 DEF Way
<1>5. d.out \in HostPacket \cup {None}
  BY Zenon DEF DevState
<1>6. y \in Image
  BY <1>5, ReadsType
<1> HIDE DEF y
<1>7. CASE w # v
  <2>1. Reads(y, b, w) = y
    BY <1>1, <1>7 DEF Reads
  <2> QED  BY <1>2, <1>3, <1>4, <2>1 DEF Covered, e
<1>8. CASE w = v
  <2>1. Reads(y, b, w) = IF y # None THEN [y EXCEPT !.busy = TRUE] ELSE y
    BY <1>1, <1>8, Zenon DEF Reads, Apply
  <2>2. y # None => Reads(y, b, w) # None
    BY <1>1, <1>6, ReadsType
  <2>3. (y = c /\ c.busy) => Reads(y, b, w) = y
    <3> SUFFICES ASSUME y = c, c.busy PROVE Reads(y, b, w) = y
      OBVIOUS
    <3>1. c.busy = TRUE /\ c # None
      BY NoneIsNone, Zenon DEF Snapshot
    <3>2. [c EXCEPT !.busy = TRUE] = c
      BY <3>1, Zenon DEF Snapshot
    <3> QED  BY <2>1, <3>1, <3>2
  <2> QED  BY <1>2, <1>3, <1>4, <1>8, <2>2, <2>3 DEF Covered, e
<1> QED  BY <1>7, <1>8

(* A device that starts again announces everything, and what vanished on   *)
(* the line does not matter any more.                                      *)
LEMMA StartAgainKeeps ==
    ASSUME NEW s \in DeviceState, NEW p \in HostPacket \cup {None}
    PROVE  LET t == StartAgain(s, p)
           IN  /\ t \in DeviceState /\ t.toDev = s.toDev
               /\ Queued(t.dev) /\ AllNew(t.dev)
<1> DEFINE d == ResetDev(s.dev)
           e == [d EXCEPT !.ack = p]
           t == [s EXCEPT !.dev = e, !.lost = FALSE]
<1>1. StartAgain(s, p) = t
  BY Zenon DEF StartAgain, DeviceState
<1>2. d \in DevState /\ Queued(d) /\ AllNew(d) /\ d.ack = None
  BY ResetKeeps DEF ResetDev
<1> HIDE DEF d
<1>3. e \in DevState /\ Queued(e) /\ AllNew(e)
  <2>1. CASE p \in HostPacket
    BY <1>2, <2>1, OtherAck
  <2>2. CASE p = None
    <3>1. e = d
      BY <1>2, <2>2, Zenon DEF DevState
    <3> QED  BY <1>2, <3>1
  <2> QED  BY <2>1, <2>2
<1> HIDE DEF e
<1>4. t \in DeviceState /\ t.dev = e /\ t.toDev = s.toDev
  BY <1>3, Zenon DEF DeviceState
<1> HIDE DEF t
<1> QED  BY <1>1, <1>3, <1>4

(* A request, answered or dropped half-way.                                *)
LEMMA HalfWayKeeps ==
    ASSUME NEW s \in DeviceState, Queued(s.dev), NEW v \in Vectors,
           NEW t \in HalfWay(s, v)
    PROVE  t \in DeviceState /\ Queued(t.dev) /\ AllNew(t.dev)
<1> DEFINE z == SetValue(s, v)
           y == StartAgain(z, BusyAck(v))
<1>1. z \in DeviceState /\ z.toDev = s.toDev
  BY SetValueKeeps
<1>2. s.toDev # << >> /\ t = [y EXCEPT !.toDev = Tail(@)]
  BY Zenon DEF HalfWay
<1>3. /\ y \in DeviceState /\ y.toDev = s.toDev
      /\ Queued(y.dev) /\ AllNew(y.dev)
  BY <1>1, BusyAckPacket, StartAgainKeeps
<1> HIDE DEF y, z
<1>5. y.toDev \in Seq(DevPacket)
  BY <1>3, Zenon DEF DeviceState
<1>6. Tail(y.toDev) \in Seq(DevPacket)
  BY <1>2, <1>3, <1>5, HeadTailProperties
<1>7. t \in DeviceState /\ t.dev = y.dev
  BY <1>2, <1>3, <1>6, Zenon DEF DeviceState
<1> QED  BY <1>3, <1>7

\* From s to t, what was covered still is.
StillCovered(s, t) ==
    \A x \in Image, w \in Vectors :
        Covered(x, s.cur[w], s.dev, w) => Covered(x, t.cur[w], t.dev, w)

LEMMA AfterRequestKeeps ==
    ASSUME NEW s \in DeviceState, Queued(s.dev), NEW v \in Vectors,
           s.dev.ack = None, s.dev.incoming = None, NEW t \in AfterRequest(s, v)
    PROVE  /\ t \in DeviceState /\ Queued(t.dev)
           /\ \/ AllNew(t.dev)
              \/ /\ StillCovered(s, t) /\ t.toDev = s.toDev /\ t.dev.incoming = None
                 /\ t.lost = s.lost
<1>1. CASE t \in HalfWay(s, v)
  BY <1>1, HalfWayKeeps
<1>2. CASE t \notin HalfWay(s, v)
  <2> DEFINE written == {SetBusy(SetValue(s, v), v, b) : b \in BOOLEAN}
             end(z) == IF z.cur[v].busy THEN z.dev ELSE SetDirty(z.dev, v)
  <2>1. PICK z \in written \cup {s} : t = [z EXCEPT !.dev = [end(z) EXCEPT !.ack = BusyAck(v)]]
    BY <1>2, Zenon DEF AfterRequest
  <2>2. /\ z \in DeviceState /\ Queued(z.dev) /\ MoreNews(s.dev, z.dev)
        /\ z = s \/ v \in Range(z.dev.queue)
        /\ z.toDev = s.toDev /\ z.lost = s.lost
        /\ \A w \in Vectors : w # v => z.cur[w] = s.cur[w]
    <3>1. CASE z = s
      BY <3>1 DEF MoreNews
    <3>2. CASE z \in written
      <4>1. PICK b \in BOOLEAN : z = SetBusy(SetValue(s, v), v, b)
        BY <3>2
      <4> DEFINE y == SetValue(s, v)
      <4>2. /\ y \in DeviceState /\ Queued(y.dev) /\ MoreNews(s.dev, y.dev)
            /\ v \in Range(y.dev.queue) /\ y.toDev = s.toDev /\ y.lost = s.lost
            /\ \A w \in Vectors : w # v => y.cur[w] = s.cur[w]
        BY SetValueKeeps
      <4> HIDE DEF y
      <4>3. /\ z \in DeviceState /\ Queued(z.dev) /\ MoreNews(y.dev, z.dev)
            /\ z = y \/ v \in Range(z.dev.queue)
            /\ z.toDev = y.toDev /\ z.lost = y.lost
            /\ \A w \in Vectors : w # v => z.cur[w] = y.cur[w]
        BY <4>1, <4>2, SetBusyKeeps DEF y
      <4> HIDE DEF written
      <4> QED  BY <4>2, <4>3 DEF MoreNews
    <3> QED  BY <3>1, <3>2
  <2> HIDE DEF written
  <2> DEFINE f == end(z)
             e == [f EXCEPT !.ack = BusyAck(v)]
  <2>3. z.dev \in DevState /\ z.cur \in [Vectors -> Snapshot] /\ s.cur \in [Vectors -> Snapshot]
    BY <2>2, Zenon DEF DeviceState
  <2>4. /\ f \in DevState /\ Queued(f) /\ MoreNews(z.dev, f)
        /\ v \in Range(f.queue) \/ (z.cur[v].busy /\ f = z.dev)
    BY <2>2, <2>3, SetDirtyKeeps DEF MoreNews
  <2>5. t = [z EXCEPT !.dev = e]
    BY <2>1
  <2> HIDE DEF f
  <2>6. e \in DevState /\ Queued(e) /\ e.incoming = f.incoming
    BY <2>4, BusyAckPacket, OtherAck
  <2>7. MoreNews(s.dev, f) /\ f.ack = None /\ f.incoming = None
    BY <2>2, <2>4 DEF MoreNews
  <2>8. \A x \in Image, w \in Vectors :
           Covered(x, s.cur[w], s.dev, w) => Covered(x, z.cur[w], e, w)
    <3> SUFFICES ASSUME NEW x \in Image, NEW w \in Vectors, Covered(x, s.cur[w], s.dev, w)
                 PROVE  Covered(x, z.cur[w], e, w)
      OBVIOUS
    <3>1. z.cur[w] = s.cur[w] \/ w \in Range(f.queue)
      BY <2>2, <2>4 DEF MoreNews
    <3>2. Covered(x, z.cur[w], f, w)
      BY <2>7, <3>1, MoreNewsCover
    <3>3. w = v => v \in Range(f.queue) \/ z.cur[w].busy
      BY <2>4
    <3>4. z.cur[w] \in Snapshot
      BY <2>3
    <3> QED  BY <2>4, <2>7, <3>2, <3>3, <3>4, AckCovers
  <2> HIDE DEF e
  <2>9. /\ t \in DeviceState /\ t.dev = e /\ t.cur = z.cur /\ t.toDev = z.toDev
        /\ t.lost = z.lost
    BY <2>2, <2>5, <2>6, Zenon DEF DeviceState
  <2>10. StillCovered(s, t)
    BY <2>8, <2>9 DEF StillCovered
  <2> QED  BY <2>2, <2>6, <2>7, <2>9, <2>10
<1> QED  BY <1>1, <1>2

\* A packet that makes the device start again: in the driver's buffer, in the
\* device's, or on the line.
Restarts(o, i, q) == \E p \in {o, i} \cup Range(q) : p.kind \in {"RESTARTED", "BAD"}

(* What the device does with a packet.                                     *)
LEMMA AfterIncomingKeeps ==
    ASSUME NEW s \in DeviceState, Queued(s.dev), NEW t \in AfterIncoming(s)
    PROVE  /\ t \in DeviceState /\ Queued(t.dev)
           /\ \/ AllNew(t.dev)
              \/ /\ StillCovered(s, t)
                 /\ t.lost = s.lost
                 /\ \A o : Restarts(o, s.dev.incoming, s.toDev) =>
                              Restarts(o, t.dev.incoming, t.toDev)
<1> DEFINE p == s.dev.incoming
           d == [s.dev EXCEPT !.incoming = None]
           z == [s EXCEPT !.dev = d]
           z0 == [s EXCEPT !.dev.incoming = None]
<1>1. s.dev \in DevState /\ p \in DevPacket \cup {None}
  BY Zenon DEF DeviceState, DevState
<1>2. z0 = z
  BY Zenon DEF DeviceState
<1>3. /\ d \in DevState /\ d.incoming = None /\ d.out = s.dev.out /\ d.ack = s.dev.ack
      /\ d.dirty = s.dev.dirty /\ d.queue = s.dev.queue
  BY <1>1, Zenon DEF DevState
<1> HIDE DEF d
<1>4. /\ z \in DeviceState /\ z.dev = d /\ z.cur = s.cur /\ z.toDev = s.toDev
      /\ z.lost = s.lost
  BY <1>3, Zenon DEF DeviceState
<1>5. Queued(d)
  BY <1>3 DEF Queued
<1>6. StillCovered(s, z)
  BY <1>3, <1>4 DEF StillCovered, Covered, Way
<1>7. CASE p = None \/ s.dev.ack # None
  <2>1. t = s
    BY <1>7 DEF AfterIncoming
  <2> QED  BY <2>1 DEF StillCovered
<1>8. CASE ~(p = None \/ s.dev.ack # None)
  <2>1. /\ p.kind \in {"REQUEST", "RESTARTED", "BAD"}
        /\ p.kind = "REQUEST" => p.vec \in Vectors
    BY <1>1, <1>8 DEF DevPacket, Restarted, Bad
  <2>2. CASE p.kind = "REQUEST"
    <3>1. t \in AfterRequest(z0, p.vec)
      BY <1>8, <2>2 DEF AfterIncoming
    <3> HIDE DEF z, z0, p
    <3>2. t \in AfterRequest(z, p.vec)
      BY <1>2, <3>1
    <3>3. /\ t \in DeviceState /\ Queued(t.dev)
          /\ \/ AllNew(t.dev)
             \/ /\ StillCovered(z, t) /\ t.toDev = z.toDev /\ t.dev.incoming = None
                /\ t.lost = z.lost
      BY <1>3, <1>4, <1>5, <1>8, <2>1, <2>2, <3>2, AfterRequestKeeps
    <3>4. CASE AllNew(t.dev)
      BY <3>3, <3>4
    <3>5. CASE /\ StillCovered(z, t) /\ t.toDev = z.toDev /\ t.dev.incoming = None
               /\ t.lost = z.lost
      <4>1. StillCovered(s, t)
        BY <1>6, <3>5 DEF StillCovered
      <4>2. \A o : Restarts(o, p, s.toDev) => Restarts(o, t.dev.incoming, t.toDev)
        BY <1>4, <2>2, <3>5, Zenon DEF Restarts
      <4> QED  BY <1>4, <3>3, <3>5, <4>1, <4>2 DEF p
    <3> QED  BY <3>3, <3>4, <3>5
  <2>3. CASE p.kind # "REQUEST"
    <3>1. PICK n \in {Restarted, None} : t = StartAgain(z0, n)
      <4>1. CASE p.kind = "RESTARTED"
        BY <1>8, <4>1, Zenon DEF AfterIncoming
      <4>2. CASE p.kind = "BAD"
        BY <1>8, <4>2, Zenon DEF AfterIncoming
      <4> QED  BY <2>1, <2>3, <4>1, <4>2
    <3>2. n \in HostPacket \cup {None}
      BY DEF HostPacket
    <3> HIDE DEF z, z0
    <3> QED  BY <1>2, <1>4, <3>1, <3>2, StartAgainKeeps
  <2> QED  BY <2>2, <2>3
<1> QED  BY <1>7, <1>8

(* fillBuffer, when the buffer is free.                                    *)
LEMMA FillBufferKeeps ==
    ASSUME NEW s \in DeviceState, Queued(s.dev), s.dev.out = None
    PROVE  LET d == FillBuffer(s)
           IN  /\ d \in DevState /\ Queued(d) /\ d.incoming = s.dev.incoming
               /\ \A x \in Image, w \in Vectors :
                     Covered(x, s.cur[w], s.dev, w) => Covered(x, s.cur[w], d, w)
<1> DEFINE d == s.dev
           v == Head(d.queue)
           c == s.cur[v]
<1>1. /\ d \in DevState /\ s.cur \in [Vectors -> Snapshot] /\ d.queue \in Seq(Vectors)
      /\ d.ack \in HostPacket \cup {None} /\ d.dirty \in [Vectors -> SUBSET {"ANNOUNCED", "VALUE"}]
  BY Zenon DEF DeviceState, DevState
<1>2. CASE d.ack # None
  <2> DEFINE e == [d EXCEPT !.out = d.ack, !.ack = None]
  <2>1. FillBuffer(s) = e
    BY <1>2 DEF FillBuffer
  <2>2. /\ e \in DevState /\ e.out = d.ack /\ e.ack = None
        /\ e.dirty = d.dirty /\ e.queue = d.queue /\ e.incoming = d.incoming
    BY <1>1, Zenon DEF DevState
  <2> HIDE DEF e
  <2>3. \A x, w : Way(x, e, w) = Way(x, d, w)
    BY <2>2 DEF Way, Reads
  <2> QED  BY <2>1, <2>2, <2>3 DEF Covered, Queued
<1>3. CASE d.ack = None /\ ~d.welcomed
  <2> DEFINE e == [d EXCEPT !.out = Restarted, !.welcomed = TRUE]
  <2>1. FillBuffer(s) = e
    BY <1>3 DEF FillBuffer
  <2>2. /\ e \in DevState /\ e.out = Restarted /\ e.ack = None
        /\ e.dirty = d.dirty /\ e.queue = d.queue /\ e.incoming = d.incoming
    BY <1>1, <1>3, Zenon DEF DevState, HostPacket
  <2> HIDE DEF e
  <2>3. \A x, w : Way(x, e, w) = Way(x, d, w)
    BY <1>3, <2>2 DEF Way, Reads
  <2> QED  BY <2>1, <2>2, <2>3 DEF Covered, Queued
<1>4. CASE d.ack = None /\ d.welcomed /\ d.queue = << >>
  <2>1. FillBuffer(s) = d
    BY <1>4 DEF FillBuffer
  <2> QED  BY <1>1, <2>1 DEF Covered
<1>5. CASE d.ack = None /\ d.welcomed /\ d.queue # << >>
  <2> DEFINE o == IF "ANNOUNCED" \in d.dirty[v] THEN Announce(v, c) ELSE Update(v, c)
             y == [d.dirty EXCEPT ![v] = {}]
             q == Tail(d.queue)
             e == [d EXCEPT !.out = o, !.dirty = y, !.queue = q]
  <2>1. FillBuffer(s) = e
    BY <1>5, Zenon DEF FillBuffer
  <2>2. v \in Vectors /\ q \in Seq(Vectors) /\ Range(d.queue) = Range(q) \cup {v}
    BY <1>1, <1>5, HeadTailProperties, TailRange
  <2>3. c \in Snapshot /\ c.ver \in Nat /\ c.busy \in BOOLEAN
    BY <1>1, <2>2, Zenon DEF Snapshot
  <2> HIDE DEF c, q
  <2>4. /\ o \in HostPacket /\ o \notin {None, Restarted} /\ o.vec = v
        /\ \A x \in Image : "ANNOUNCED" \in d.dirty[v] \/ x # None => Apply(x, o) = c
    <3>1. c = [ver |-> c.ver, busy |-> c.busy]
      BY <2>3, Zenon DEF Snapshot
    <3>2. CASE "ANNOUNCED" \in d.dirty[v]
      <4> DEFINE a == Announce(v, c)
      <4>1. /\ a.kind = "ANNOUNCE" /\ a.vec = v /\ a.ver = c.ver /\ a.busy = c.busy
            /\ a \in [kind : {"ANNOUNCE", "UPDATE"}, vec : Vectors, ver : Nat, busy : BOOLEAN]
        BY <2>2, <2>3, Zenon DEF Announce
      <4> HIDE DEF a
      <4>2. a \in HostPacket /\ a \notin {None, Restarted}
        BY <4>1 DEF HostPacket, None, Restarted
      <4> QED  BY <3>1, <3>2, <4>1, <4>2, Zenon DEF Apply, a
    <3>3. CASE "ANNOUNCED" \notin d.dirty[v]
      <4> DEFINE a == Update(v, c)
      <4>1. /\ a.kind = "UPDATE" /\ a.vec = v /\ a.ver = c.ver /\ a.busy = c.busy
            /\ a \in [kind : {"ANNOUNCE", "UPDATE"}, vec : Vectors, ver : Nat, busy : BOOLEAN]
        BY <2>2, <2>3, Zenon DEF Update
      <4> HIDE DEF a
      <4>2. a \in HostPacket /\ a \notin {None, Restarted}
        BY <4>1 DEF HostPacket, None, Restarted
      <4> QED  BY <3>1, <3>3, <4>1, <4>2, Zenon DEF Apply, a
    <3> QED  BY <3>2, <3>3
  <2>5. /\ y \in [Vectors -> SUBSET {"ANNOUNCED", "VALUE"}] /\ y[v] = {}
        /\ \A w \in Vectors : w # v => y[w] = d.dirty[w]
    BY <1>1, <2>2
  <2> HIDE DEF o, y
  <2>6. /\ e \in DevState /\ e.out = o /\ e.ack = None
        /\ e.dirty = y /\ e.queue = q /\ e.incoming = d.incoming
    BY <1>1, <1>5, <2>2, <2>4, <2>5, Zenon DEF DevState
  <2> HIDE DEF e
  <2>7. Queued(e)
    BY <2>2, <2>5, <2>6 DEF Queued
  <2>8. ASSUME NEW x \in Image, NEW w \in Vectors, Covered(x, s.cur[w], d, w)
        PROVE  Covered(x, s.cur[w], e, w)
    <3>1. Way(x, d, w) = x
      BY <1>5 DEF Way, Reads
    <3>2. Way(x, e, w) = IF w = v THEN Apply(x, o) ELSE x
      BY <2>4, <2>6 DEF Way, Reads
    <3>3. CASE w = v
      <4>1. "ANNOUNCED" \in d.dirty[v] \/ x # None
        BY <2>8, <3>1, <3>3 DEF Covered
      <4>2. Way(x, e, w) = c
        BY <2>4, <3>2, <3>3, <4>1
      <4> QED  BY <2>3, <3>3, <4>2, NoneIsNone DEF Covered, c
    <3>4. CASE w # v
      BY <2>2, <2>5, <2>6, <2>8, <3>1, <3>2, <3>4 DEF Covered
    <3> QED  BY <3>3, <3>4
  <2> QED  BY <2>1, <2>6, <2>7, <2>8
<1> QED  BY <1>2, <1>3, <1>4, <1>5

-----------------------------------------------------------------------------
(* The three conditions, in terms of the above.                            *)
LEMMA Forms ==
    /\ RestartComing <=> ~host.welcomed \/ Restarts(host.out, dev.incoming, toDev)
    /\ \A v \in Vectors : Settled(v) = Way(Read(v), dev, v)
  BY DEF RestartComing, Restarts, Settled, Way, Read

LEMMA InitIInv == Init => IInv
<1> SUFFICES ASSUME Init PROVE IInv
  OBVIOUS
<1>1. dev \in DevState /\ Queued(dev)
  BY ResetKeeps DEF Init, InitDev
<1>2. cur \in [Vectors -> Snapshot]
  <2>1. [ver |-> 0, busy |-> FALSE] \in Snapshot
    BY Zenon DEF Snapshot
  <2> QED  BY <2>1 DEF Init
<1>3. host \in [welcomed : BOOLEAN, request : DevPacket \cup {None}, out : DevPacket \cup {None}]
      /\ ~host.welcomed /\ host.request = None /\ host.out = None
  BY Zenon DEF Init, InitHost
<1>4. toHost \in Seq(HostPacket) /\ toDev \in Seq(DevPacket)
  BY EmptySeq DEF Init
<1>5. events \in 0 .. MaxEvents
  BY LinkAssumption, SMT DEF Init
<1>6. vec \in [Vectors -> Snapshot \cup {None}] /\ \A v \in Vectors : vec[v] = None
  BY DEF Init
<1>7. up = FALSE /\ lost = FALSE
  BY DEF Init
<1> QED
  BY <1>1, <1>2, <1>3, <1>4, <1>5, <1>6, <1>7 DEF IInv, TypeOK, Unwelcomed, AllCovered

(* What the driver's vectors become does not go below the known ones.      *)
LEMMA ReadType ==
    ASSUME TypeOK, NEW v \in Vectors
    PROVE  Read(v) \in Image /\ vec[v] \in Image
<1>1. vec[v] \in Image
  BY DEF TypeOK, Image
<1> QED  BY <1>1, AfterType DEF TypeOK, Read

(* A device that is to announce everything covers all.                     *)
LEMMA AllNewCovers ==
    ASSUME NEW d, AllNew(d), NEW x, NEW c, NEW v \in Vectors
    PROVE  Covered(x, c, d, v)
  BY DEF AllNew, Covered

(* The device's tick.                                                      *)
LEMMA TickInv == IInv /\ Tick => IInv'
<1> SUFFICES ASSUME IInv, Tick PROVE IInv'
  OBVIOUS
<1> DEFINE S0 == Device
<1>1. /\ S0 \in DeviceState /\ S0.cur = cur /\ S0.dev = dev /\ S0.toDev = toDev
      /\ S0.lost = lost
  BY Zenon DEF IInv, TypeOK, Device, DeviceState
<1> HIDE DEF S0
<1>2. PICK s \in AfterIncoming(S0), room \in BOOLEAN, done \in BOOLEAN :
         LET d == IF s.dev.out = None /\ room THEN FillBuffer(s) ELSE s.dev
             sent == done /\ d.out # None /\ Len(toHost) < Capacity
         IN  /\ cur' = s.cur
             /\ dev' = IF sent THEN [d EXCEPT !.out = None] ELSE d
             /\ toHost' = IF sent THEN Append(toHost, d.out) ELSE toHost
             /\ toDev' = s.toDev /\ lost' = s.lost
             /\ UNCHANGED <<hostVars, events>>
  BY Zenon DEF Tick, S0
<1>3. /\ s \in DeviceState /\ Queued(s.dev)
      /\ \/ AllNew(s.dev)
         \/ /\ StillCovered(S0, s) /\ s.lost = lost
            /\ \A o : Restarts(o, dev.incoming, toDev) => Restarts(o, s.dev.incoming, s.toDev)
  <2>1. Queued(S0.dev)
    BY <1>1 DEF IInv
  <2> QED  BY <1>1, <1>2, <2>1, AfterIncomingKeeps
<1> DEFINE d == IF s.dev.out = None /\ room THEN FillBuffer(s) ELSE s.dev
           sent == done /\ d.out # None /\ Len(toHost) < Capacity
<1>4. /\ d \in DevState /\ Queued(d) /\ d.incoming = s.dev.incoming
      /\ \A x \in Image, w \in Vectors :
            Covered(x, s.cur[w], s.dev, w) => Covered(x, s.cur[w], d, w)
  <2>1. s.dev \in DevState
    BY <1>3, Zenon DEF DeviceState
  <2> QED  BY <1>3, <2>1, FillBufferKeeps
<1>5. /\ cur' = s.cur /\ toDev' = s.toDev /\ lost' = s.lost
      /\ dev' = IF sent THEN [d EXCEPT !.out = None] ELSE d
      /\ toHost' = IF sent THEN Append(toHost, d.out) ELSE toHost
      /\ UNCHANGED <<up, host, vec, events>>
  BY <1>2, Zenon DEF hostVars
<1> HIDE DEF d
<1>6. s.cur \in [Vectors -> Snapshot] /\ s.toDev \in Seq(DevPacket) /\ s.lost \in BOOLEAN
  BY <1>3, Zenon DEF DeviceState
<1>7. d.out \in HostPacket \cup {None}
  BY <1>4, Zenon DEF DevState
<1>8. /\ dev' \in DevState /\ Queued(dev') /\ dev'.incoming = s.dev.incoming
      /\ toHost' \in Seq(HostPacket)
      /\ \A v \in Vectors : \A c : Covered(Read(v), c, d, v) => Covered(Read(v)', c, dev', v)
  <2>1. CASE ~sent
    BY <1>4, <1>5, <2>1 DEF IInv, TypeOK, Read
  <2>2. CASE sent
    <3>1. d.out \in HostPacket
      BY <1>7, <2>2
    <3>2. toHost' = Append(toHost, d.out) /\ toHost' \in Seq(HostPacket)
      BY <1>5, <2>2, <3>1, AppendProperties DEF IInv, TypeOK
    <3>3. /\ dev' \in DevState /\ dev'.out = None /\ dev'.ack = d.ack
          /\ dev'.dirty = d.dirty /\ dev'.queue = d.queue /\ dev'.incoming = d.incoming
      BY <1>4, <1>5, <2>2, Zenon DEF DevState
    <3>4. \A v \in Vectors : Read(v)' = Reads(Read(v), d.out, v)
      <4> SUFFICES ASSUME NEW v \in Vectors PROVE Read(v)' = Reads(Read(v), d.out, v)
        OBVIOUS
      <4>1. vec[v] \in Image
        BY ReadType DEF IInv
      <4>2. After(vec[v], Append(toHost, d.out), v) = Reads(After(vec[v], toHost, v), d.out, v)
        BY <3>1, <4>1, AfterAppend DEF IInv, TypeOK
      <4> QED  BY <1>5, <3>2, <4>2 DEF Read
    <3>5. \A v \in Vectors : Way(Read(v)', dev', v) = Way(Read(v), d, v)
      BY <3>3, <3>4 DEF Way, Reads
    <3>6. Queued(dev')
      BY <1>4, <3>3 DEF Queued
    <3> QED  BY <1>4, <3>2, <3>3, <3>5, <3>6 DEF Covered
  <2> QED  BY <2>1, <2>2
<1>9. TypeOK'
  BY <1>5, <1>6, <1>8 DEF IInv, TypeOK
<1>10. Unwelcomed'
  BY <1>5 DEF IInv, Unwelcomed
<1>11. AllCovered'
  <2>1. CASE AllNew(s.dev)
    <3>1. \A v \in Vectors : Covered(Read(v), s.cur[v], s.dev, v)
      BY <2>1, AllNewCovers
    <3>2. \A v \in Vectors : Covered(Read(v)', cur'[v], dev', v)
      BY <1>4, <1>5, <1>8, <3>1, ReadType DEF IInv
    <3> QED  BY <3>2 DEF AllCovered
  <2>2. CASE /\ StillCovered(S0, s) /\ s.lost = lost
             /\ \A o : Restarts(o, dev.incoming, toDev) => Restarts(o, s.dev.incoming, s.toDev)
    <3>1. RestartComing => RestartComing'
      BY <1>5, <1>8, <2>2, Forms DEF Restarts, RestartComing
    <3>2. ASSUME \A v \in Vectors : Covered(Read(v), cur[v], dev, v)
          PROVE  \A v \in Vectors : Covered(Read(v)', cur'[v], dev', v)
      BY <1>1, <1>4, <1>5, <1>8, <2>2, <3>2, ReadType DEF IInv, StillCovered
    <3> QED  BY <1>5, <2>2, <3>1, <3>2 DEF IInv, AllCovered
  <2> QED  BY <1>3, <2>1, <2>2
<1> QED  BY <1>8, <1>9, <1>10, <1>11 DEF IInv

(* The hardware tasks, and a power cut.                                    *)
LEMMA WorkInv == IInv /\ Work => IInv'
<1> SUFFICES ASSUME IInv, Work PROVE IInv'
  OBVIOUS
<1> DEFINE S0 == Device
<1>1. S0 \in DeviceState /\ S0.cur = cur /\ S0.dev = dev
  BY Zenon DEF IInv, TypeOK, Device, DeviceState
<1> HIDE DEF S0
<1>v. PICK v \in Vectors :
         \E n \in {SetValue(S0, v), SetBusy(S0, v, ~cur[v].busy)} :
            cur' = n.cur /\ dev' = n.dev
  BY Zenon DEF Work, S0
<1>2. PICK n \in {SetValue(S0, v), SetBusy(S0, v, ~cur[v].busy)} :
         cur' = n.cur /\ dev' = n.dev
  BY <1>v, Zenon
<1>3. /\ n \in DeviceState /\ Queued(n.dev) /\ MoreNews(dev, n.dev)
      /\ n = S0 \/ v \in Range(n.dev.queue)
      /\ \A w \in Vectors : w # v => n.cur[w] = cur[w]
  <2>1. Queued(S0.dev)
    BY <1>1 DEF IInv
  <2>2. CASE n = SetValue(S0, v)
    BY <1>1, <2>1, <2>2, SetValueKeeps
  <2>3. CASE n = SetBusy(S0, v, ~cur[v].busy)
    <3>1. (~cur[v].busy) \in BOOLEAN
      OBVIOUS
    <3> QED  BY <1>1, <2>1, <2>3, <3>1, SetBusyKeeps
  <2> QED  BY <1>2, <2>2, <2>3
<1>4. n.cur \in [Vectors -> Snapshot] /\ n.dev \in DevState
  BY <1>3, Zenon DEF DeviceState
<1>5. events' \in 0 .. MaxEvents /\ UNCHANGED <<toHost, toDev, up, host, vec, lost>>
  <2>1. events' \in 0 .. MaxEvents
    BY LinkAssumption, SMT DEF IInv, TypeOK, Work, Event
  <2> QED  BY <2>1 DEF Work, hostVars
<1>6. TypeOK' /\ Queued(dev')
  BY <1>2, <1>3, <1>4, <1>5 DEF IInv, TypeOK
<1>7. Unwelcomed'
  BY <1>5 DEF IInv, Unwelcomed
<1>8. RestartComing => RestartComing'
  BY <1>2, <1>3, <1>5, Forms DEF MoreNews, RestartComing
<1>9. ASSUME NEW w \in Vectors, Covered(Read(w), cur[w], dev, w)
      PROVE  Covered(Read(w)', cur'[w], dev', w)
  <2>1. n.cur[w] = cur[w] \/ w \in Range(n.dev.queue)
    BY <1>1, <1>3
  <2>2. Covered(Read(w), n.cur[w], n.dev, w)
    BY <1>3, <1>9, <2>1, MoreNewsCover
  <2> QED  BY <1>2, <1>5, <2>2 DEF Read
<1>10. AllCovered'
  BY <1>5, <1>8, <1>9 DEF IInv, AllCovered
<1> QED  BY <1>6, <1>7, <1>10 DEF IInv

LEMMA RebootInv == IInv /\ Reboot => IInv'
<1> SUFFICES ASSUME IInv, Reboot PROVE IInv'
  OBVIOUS
<1>1. cur' \in [Vectors -> Snapshot]
  <2>1. PICK v \in Vectors, new \in 0 .. 1 :
           cur' = [w \in Vectors |->
                     [ver |-> cur[w].ver + (IF w = v THEN new ELSE 0), busy |-> FALSE]]
    BY Zenon DEF Reboot
  <2>2. ASSUME NEW w \in Vectors
        PROVE  [ver |-> cur[w].ver + (IF w = v THEN new ELSE 0), busy |-> FALSE] \in Snapshot
    <3>1. cur[w].ver \in Nat
      BY DEF IInv, TypeOK, Snapshot
    <3>2. cur[w].ver + (IF w = v THEN new ELSE 0) \in Nat
      BY <3>1, SMT
    <3> QED  BY <3>2, Zenon DEF Snapshot
  <2> QED  BY <2>1, <2>2
<1>2. dev' \in DevState /\ Queued(dev') /\ AllNew(dev')
  BY ResetKeeps DEF Reboot, InitDev
<1>3. toDev' \in Seq(DevPacket) /\ lost' = FALSE
  BY EmptySeq DEF Reboot
<1>4. events' \in 0 .. MaxEvents /\ UNCHANGED <<toHost, up, host, vec>>
  <2>1. events' \in 0 .. MaxEvents
    BY LinkAssumption, SMT DEF IInv, TypeOK, Reboot, Event
  <2> QED  BY <2>1 DEF Reboot, hostVars
<1>5. TypeOK'
  BY <1>1, <1>2, <1>3, <1>4 DEF IInv, TypeOK
<1>6. Unwelcomed'
  BY <1>4 DEF IInv, Unwelcomed
<1>7. \A v \in Vectors : Covered(Read(v)', cur'[v], dev', v)
  BY <1>2, AllNewCovers
<1> QED  BY <1>2, <1>5, <1>6, <1>7 DEF IInv, AllCovered

(* The packets to the device: what is on its way stays on its way.         *)
LEMMA ReceiveInv == IInv /\ Receive => IInv'
<1> SUFFICES ASSUME IInv, Receive PROVE IInv'
  OBVIOUS
<1>1. /\ dev.incoming = None /\ toDev # << >> /\ toDev' = Tail(toDev)
      /\ dev' = [dev EXCEPT !.incoming = Head(toDev)]
      /\ UNCHANGED <<cur, toHost, up, host, vec, lost, events>>
  BY DEF Receive, hostVars
<1>2. /\ toDev \in Seq(DevPacket) /\ toDev' \in Seq(DevPacket) /\ Head(toDev) \in DevPacket
      /\ Range(toDev) = Range(toDev') \cup {Head(toDev)}
  BY <1>1, HeadTailProperties, TailRange DEF IInv, TypeOK
<1>3. /\ dev' \in DevState /\ dev'.incoming = Head(toDev) /\ dev'.out = dev.out
      /\ dev'.ack = dev.ack /\ dev'.dirty = dev.dirty /\ dev'.queue = dev.queue
  BY <1>1, <1>2, Zenon DEF IInv, TypeOK, DevState
<1>4. TypeOK'
  BY <1>1, <1>2, <1>3 DEF IInv, TypeOK
<1>5. Queued(dev') /\ Unwelcomed'
  BY <1>1, <1>3 DEF IInv, Queued, Unwelcomed
<1>6. RestartComing => RestartComing'
  <2>1. None.kind = "NONE"
    BY DEF None
  <2>2. \A p \in {host.out, dev.incoming} \cup Range(toDev) :
           p.kind \in {"RESTARTED", "BAD"} =>
              p \in {host.out, Head(toDev)} \cup Range(toDev')
    BY <1>1, <1>2, <2>1
  <2> QED  BY <1>1, <1>3, <2>2 DEF RestartComing
<1>7. \A v \in Vectors : Covered(Read(v), cur[v], dev, v) => Covered(Read(v)', cur'[v], dev', v)
  BY <1>1, <1>3 DEF Covered, Way, Read
<1>8. AllCovered'
  BY <1>1, <1>6, <1>7 DEF IInv, AllCovered
<1> QED  BY <1>4, <1>5, <1>8 DEF IInv

LEMMA HostFillInv == IInv /\ HostFill => IInv'
<1> SUFFICES ASSUME IInv, HostFill PROVE IInv'
  OBVIOUS
<1>1. /\ up /\ host.out = None
      /\ host' = [welcomed |-> TRUE, request |-> None,
                  out |-> IF host.welcomed THEN host.request ELSE Restarted]
      /\ UNCHANGED <<cur, dev, toHost, toDev, up, vec, lost, events>>
  BY Zenon DEF HostFill, devVars
<1>2. host.request \in DevPacket \cup {None} /\ Restarted \in DevPacket
  BY Zenon DEF IInv, TypeOK, DevPacket
<1>3. /\ host'.welcomed = TRUE
      /\ host'.out = IF host.welcomed THEN host.request ELSE Restarted
      /\ host' \in [welcomed : BOOLEAN, request : DevPacket \cup {None},
                    out : DevPacket \cup {None}]
  BY <1>1, <1>2, Zenon
<1>4. TypeOK' /\ Queued(dev') /\ Unwelcomed'
  BY <1>1, <1>3 DEF IInv, TypeOK, Unwelcomed
<1>5. RestartComing => RestartComing'
  <2>1. None.kind = "NONE" /\ Restarted.kind = "RESTARTED"
    BY DEF None, Restarted
  <2> QED  BY <1>1, <1>3, <2>1 DEF RestartComing
<1>6. AllCovered'
  BY <1>1, <1>5 DEF IInv, AllCovered, Covered, Way, Read
<1> QED  BY <1>4, <1>6 DEF IInv

LEMMA HostWriteInv == IInv /\ HostWrite => IInv'
<1> SUFFICES ASSUME IInv, HostWrite PROVE IInv'
  OBVIOUS
<1>1. /\ up /\ host.out # None /\ toDev' = Append(toDev, host.out)
      /\ host' = [host EXCEPT !.out = None]
      /\ UNCHANGED <<cur, dev, toHost, up, vec, lost, events>>
  BY Zenon DEF HostWrite, devVars
<1>2. host.out \in DevPacket
  BY <1>1, Zenon DEF IInv, TypeOK
<1>3. toDev' \in Seq(DevPacket) /\ Range(toDev') = Range(toDev) \cup {host.out}
  BY <1>1, <1>2, AppendProperties, AppendRange DEF IInv, TypeOK
<1>4. /\ host' \in [welcomed : BOOLEAN, request : DevPacket \cup {None},
                    out : DevPacket \cup {None}]
      /\ host'.welcomed = host.welcomed /\ host'.request = host.request
  BY <1>1, Zenon DEF IInv, TypeOK
<1>5. TypeOK' /\ Queued(dev') /\ Unwelcomed'
  BY <1>1, <1>3, <1>4 DEF IInv, TypeOK, Unwelcomed
<1>6. RestartComing => RestartComing'
  BY <1>1, <1>3, <1>4 DEF RestartComing
<1>7. AllCovered'
  BY <1>1, <1>6 DEF IInv, AllCovered, Covered, Way, Read
<1> QED  BY <1>5, <1>7 DEF IInv

(* The packets to the driver: one that is read was counted on.             *)
LEMMA HostReadInv == IInv /\ HostRead => IInv'
<1> SUFFICES ASSUME IInv, HostRead PROVE IInv'
  OBVIOUS
<1> DEFINE p == Head(toHost)
<1>1. /\ up /\ host.welcomed /\ toHost # << >> /\ toHost' = Tail(toHost)
      /\ vec' = [v \in Vectors |-> IF p # Restarted /\ p.vec = v
                                   THEN Apply(vec[v], p) ELSE vec[v]]
      /\ UNCHANGED <<cur, dev, toDev, up, host, lost, events>>
  BY Zenon DEF HostRead, devVars
<1>2. toHost' \in Seq(HostPacket) /\ p \in HostPacket /\ p # None
  BY <1>1, HeadTailProperties, NoneIsNone DEF IInv, TypeOK
<1> HIDE DEF p
<1>3. \A v \in Vectors : vec'[v] = Reads(vec[v], p, v)
  BY <1>1, <1>2 DEF Reads
<1>4. vec' \in [Vectors -> Image]
  <2>1. \A v \in Vectors : Reads(vec[v], p, v) \in Image
    BY <1>2, ReadType, ReadsType DEF IInv
  <2>2. vec' = [v \in Vectors |-> vec'[v]]
    BY <1>1
  <2> QED  BY <1>3, <2>1, <2>2
<1>5. \A v \in Vectors : Read(v)' = Read(v)
  <2> SUFFICES ASSUME NEW v \in Vectors PROVE Read(v)' = Read(v)
    OBVIOUS
  <2>1. vec[v] \in Image /\ toHost \in Seq(HostPacket)
    BY ReadType DEF IInv, TypeOK
  <2>2. After(vec[v], toHost, v) = After(Reads(vec[v], p, v), Tail(toHost), v)
    BY <1>1, <2>1, AfterTail DEF p
  <2> QED  BY <1>1, <1>3, <2>2 DEF Read
<1>6. TypeOK' /\ Queued(dev') /\ Unwelcomed'
  BY <1>1, <1>2, <1>4 DEF IInv, TypeOK, Unwelcomed, Image
<1>7. RestartComing => RestartComing'
  BY <1>1 DEF RestartComing
<1>8. AllCovered'
  BY <1>1, <1>5, <1>7 DEF IInv, AllCovered
<1> QED  BY <1>6, <1>8 DEF IInv

LEMMA NewRequestInv == ASSUME NEW v \in Vectors, IInv, NewRequest(v) PROVE IInv'
<1>1. /\ up /\ vec[v] # None /\ host' = [host EXCEPT !.request = Request(v)]
      /\ UNCHANGED <<cur, dev, toHost, toDev, up, vec, lost>>
  BY Zenon DEF NewRequest, devVars
<1>2. events' \in 0 .. MaxEvents
  BY LinkAssumption, SMT DEF IInv, TypeOK, NewRequest, Event
<1>3. Request(v) \in DevPacket
  BY DEF Request, DevPacket
<1>4. /\ host' \in [welcomed : BOOLEAN, request : DevPacket \cup {None},
                    out : DevPacket \cup {None}]
      /\ host'.welcomed = host.welcomed /\ host'.out = host.out
  BY <1>1, <1>3, Zenon DEF IInv, TypeOK
<1>5. host.welcomed
  BY <1>1 DEF IInv, Unwelcomed
<1>6. TypeOK' /\ Queued(dev') /\ Unwelcomed'
  BY <1>1, <1>2, <1>4, <1>5 DEF IInv, TypeOK, Unwelcomed
<1>7. RestartComing => RestartComing'
  BY <1>1, <1>4 DEF RestartComing
<1>8. AllCovered'
  BY <1>1, <1>7 DEF IInv, AllCovered, Covered, Way, Read
<1> QED  BY <1>6, <1>8 DEF IInv

(* Connections, and the line.                                              *)
LEMMA InitHostType ==
    /\ InitHost \in [welcomed : BOOLEAN, request : DevPacket \cup {None},
                     out : DevPacket \cup {None}]
    /\ ~InitHost.welcomed /\ InitHost.request = None /\ InitHost.out = None
  BY Zenon DEF InitHost

LEMMA ConnectInv == IInv /\ Connect => IInv'
<1> SUFFICES ASSUME IInv, Connect PROVE IInv'
  OBVIOUS
<1>1. PICK i \in 0 .. Len(toHost), j \in 0 .. Len(toDev) :
         toHost' = SubSeq(toHost, i + 1, Len(toHost)) /\ toDev' = SubSeq(toDev, 1, j)
  BY DEF Connect
<1>2. /\ ~up /\ up' = TRUE /\ host' = InitHost
      /\ UNCHANGED <<cur, dev, vec, lost, events>>
  BY DEF Connect, devVars
<1>3. toHost' \in Seq(HostPacket)
  <2>1. Len(toHost) \in Nat /\ \A k \in 1 .. Len(toHost) : toHost[k] \in HostPacket
    BY ElementOfSeq, LenProperties DEF IInv, TypeOK
  <2>2. /\ i + 1 \in Int /\ Len(toHost) \in Int
        /\ \A k \in i + 1 .. Len(toHost) : k \in 1 .. Len(toHost)
    BY <2>1, SMT
  <2>3. \A k \in i + 1 .. Len(toHost) : toHost[k] \in HostPacket
    BY <2>1, <2>2
  <2> QED  BY <1>1, <2>2, <2>3, SubSeqProperties
<1>4. toDev' \in Seq(DevPacket)
  <2>1. Len(toDev) \in Nat /\ \A k \in 1 .. Len(toDev) : toDev[k] \in DevPacket
    BY ElementOfSeq, LenProperties DEF IInv, TypeOK
  <2>2. j \in Int /\ 1 \in Int /\ \A k \in 1 .. j : k \in 1 .. Len(toDev)
    BY <2>1, SMT
  <2>3. \A k \in 1 .. j : toDev[k] \in DevPacket
    BY <2>1, <2>2
  <2> QED  BY <1>1, <2>2, <2>3, SubSeqProperties
<1>5. TypeOK' /\ Queued(dev')
  BY <1>2, <1>3, <1>4, InitHostType DEF IInv, TypeOK
<1>6. Unwelcomed'
  BY <1>2, InitHostType DEF IInv, Unwelcomed
<1>7. AllCovered'
  BY <1>2, InitHostType DEF AllCovered, RestartComing
<1> QED  BY <1>5, <1>6, <1>7 DEF IInv

LEMMA DisconnectInv == IInv /\ Disconnect => IInv'
<1> SUFFICES ASSUME IInv, Disconnect PROVE IInv'
  OBVIOUS
<1>1. /\ up' = FALSE /\ host' = InitHost /\ vec' = [v \in Vectors |-> None] /\ lost' = FALSE
      /\ UNCHANGED <<cur, dev, toHost, toDev>>
  BY DEF Disconnect, devVars
<1>2. events' \in 0 .. MaxEvents
  BY LinkAssumption, SMT DEF IInv, TypeOK, Disconnect, Event
<1> QED  BY <1>1, <1>2, InitHostType DEF IInv, TypeOK, Unwelcomed, AllCovered

LEMMA UnreadInv == IInv /\ Unread => IInv'
<1> SUFFICES ASSUME IInv, Unread PROVE IInv'
  OBVIOUS
<1>1. /\ ~up /\ toHost # << >> /\ toHost' = Tail(toHost)
      /\ UNCHANGED <<cur, dev, toDev, up, host, vec, lost, events>>
  BY DEF Unread, devVars, hostVars
<1>2. toHost' \in Seq(HostPacket)
  BY <1>1, HeadTailProperties DEF IInv, TypeOK
<1> QED  BY <1>1, <1>2 DEF IInv, TypeOK, Unwelcomed, AllCovered

(* A packet less is a sequence of packets still.                           *)
LEMMA RemoveAtType ==
    ASSUME NEW S, NEW q \in Seq(S), NEW i \in 1 .. Len(q)
    PROVE  RemoveAt(q, i) \in Seq(S)
<1> DEFINE a == SubSeq(q, 1, i - 1)
           b == SubSeq(q, i + 1, Len(q))
<1>1. Len(q) \in Nat /\ i \in Int /\ \A k \in 1 .. Len(q) : q[k] \in S
  BY ElementOfSeq, LenProperties, SMT
<1>2. /\ i - 1 \in Int /\ i + 1 \in Int /\ 1 \in Int /\ Len(q) \in Int
      /\ \A k \in 1 .. i - 1 : k \in 1 .. Len(q)
      /\ \A k \in i + 1 .. Len(q) : k \in 1 .. Len(q)
  BY <1>1, SMT
<1>3. a \in Seq(S) /\ b \in Seq(S)
  <2>1. \A k \in 1 .. i - 1 : q[k] \in S
    BY <1>1, <1>2
  <2>2. \A k \in i + 1 .. Len(q) : q[k] \in S
    BY <1>1, <1>2
  <2>3. a \in Seq(S)
    BY <1>2, <2>1, SubSeqProperties
  <2>4. b \in Seq(S)
    BY <1>2, <2>2, SubSeqProperties
  <2> QED  BY <2>3, <2>4
<1> HIDE DEF a, b
<1>4. a \o b \in Seq(S)
  BY <1>3, ConcatProperties
<1> QED  BY <1>4 DEF RemoveAt, a, b

LEMMA NoiseInv == IInv /\ Noise => IInv'
<1> SUFFICES ASSUME IInv, Noise PROVE IInv'
  OBVIOUS
<1>1. PICK i \in 1 .. Len(toDev) :
         \/ toDev' = RemoveAt(toDev, i)
         \/ \E p \in IF toDev[i] = Restarted THEN {Bad} ELSE DevPacket :
               toDev' = [toDev EXCEPT ![i] = p]
  BY Zenon DEF Noise
<1>2. /\ UNCHANGED <<cur, dev, toHost, up, host, vec>>
      /\ lost' = (lost \/ (RestartComing /\ ~RestartComing'))
  BY DEF Noise, devVars, hostVars
<1>3. events' \in 0 .. MaxEvents
  BY LinkAssumption, SMT DEF IInv, TypeOK, Noise, Event
<1>4. toDev \in Seq(DevPacket) /\ Bad \in DevPacket /\ lost \in BOOLEAN
  BY DEF IInv, TypeOK, DevPacket
<1>5. toDev' \in Seq(DevPacket)
  <2>1. CASE toDev' = RemoveAt(toDev, i)
    BY <1>4, <2>1, RemoveAtType
  <2>2. ASSUME NEW p \in DevPacket, toDev' = [toDev EXCEPT ![i] = p] PROVE toDev' \in Seq(DevPacket)
    BY <1>4, <2>2, ExceptSeq
  <2> QED  BY <1>1, <1>4, <2>1, <2>2
<1>6. lost' \in BOOLEAN
  BY <1>2, <1>4, Zenon
<1>7. TypeOK' /\ Queued(dev') /\ Unwelcomed'
  BY <1>2, <1>3, <1>5, <1>6 DEF IInv, TypeOK, Unwelcomed
<1>8. (RestartComing /\ ~lost') => RestartComing'
  BY <1>2
<1>9. AllCovered'
  BY <1>2, <1>8 DEF IInv, AllCovered, Covered, Way, Read
<1> QED  BY <1>7, <1>9 DEF IInv

LEMMA NextIInv == IInv /\ [Next]_vars => IInv'
<1> SUFFICES ASSUME IInv, [Next]_vars PROVE IInv'
  OBVIOUS
<1>1. CASE Link
  BY <1>1, TickInv, ReceiveInv, HostFillInv, HostWriteInv, HostReadInv DEF Link
<1>2. CASE Environment
  BY <1>2, WorkInv, RebootInv, ConnectInv, DisconnectInv, NoiseInv, UnreadInv,
     NewRequestInv DEF Environment
<1>3. CASE UNCHANGED vars
  BY <1>3 DEF vars, IInv, TypeOK, Unwelcomed, AllCovered, RestartComing, Read
<1> QED  BY <1>1, <1>2, <1>3 DEF Next

-----------------------------------------------------------------------------
(* The invariant of the line between the device and the driver.            *)
THEOREM Invariance == Spec => []IInv
<1>1. Init => IInv
  BY InitIInv
<1>2. IInv /\ [Next]_vars => IInv'
  BY NextIInv
<1> QED  BY <1>1, <1>2, PTL DEF Spec

(* Whatever is sent, received, garbled or cut, the buffers and queues of   *)
(* both ends hold packets, vectors and flags.                              *)
THEOREM TypeCorrect == Spec => []TypeOK
<1>1. IInv => TypeOK
  BY DEF IInv
<1> QED  BY <1>1, Invariance, PTL

(* No change of a vector is ever lost between the device and a connected   *)
(* driver whose RESTARTED did not vanish on the line, with any number of   *)
(* vectors and packets there.                                              *)
THEOREM NoChangeIsLost == Spec => []CurrentOrComing
<1>1. IInv => CurrentOrComing
  BY Forms DEF IInv, AllCovered, Covered, CurrentOrComing
<1> QED  BY <1>1, Invariance, PTL

(* A request that ISNewNumber, ISNewText or ISNewSwitch accepted is        *)
(* written before anything else takes its place.                           *)
THEOREM RequestsAreSent == Spec => RequestNotOverwritten
<1> DEFINE A == host.request # None /\ up' => \/ host'.request = host.request
                                              \/ host'.out = host.request
<1>1. IInv /\ [Next]_vars => [A]_vars
  <2> SUFFICES ASSUME IInv, Next PROVE A
    BY DEF vars
  <2>1. CASE HostFill
    <3>1. host.request # None => host.welcomed
      BY DEF IInv, Unwelcomed
    <3>2. host' = [welcomed |-> TRUE, request |-> None,
                   out |-> IF host.welcomed THEN host.request ELSE Restarted]
      BY <2>1 DEF HostFill
    <3>3. host'.out = IF host.welcomed THEN host.request ELSE Restarted
      BY <3>2, Zenon
    <3> QED  BY <3>1, <3>3
  <2>2. CASE HostWrite
    <3>1. host' = [host EXCEPT !.out = None]
      BY <2>2 DEF HostWrite
    <3>2. host'.request = host.request
      BY <3>1, Zenon DEF IInv, TypeOK
    <3> QED  BY <3>2
  <2>3. CASE \E v \in Vectors : NewRequest(v)
    BY <2>3 DEF NewRequest
  <2>4. CASE Connect
    <3>1. host.request = None
      BY <2>4 DEF IInv, Unwelcomed, Connect
    <3> QED  BY <3>1
  <2>5. CASE Disconnect
    BY <2>5 DEF Disconnect
  <2>6. CASE Tick \/ Receive \/ HostRead \/ Work \/ Reboot \/ Unread \/ Noise
    <3>1. host' = host
      BY <2>6, Zenon DEF Tick, Receive, HostRead, Work, Reboot, Unread, Noise, hostVars
    <3> QED  BY <3>1
  <2> QED  BY <2>1, <2>2, <2>3, <2>4, <2>5, <2>6 DEF Next, Link, Environment
<1>2. [][A]_vars => RequestNotOverwritten
  BY PTL DEF RequestNotOverwritten
<1> QED  BY <1>1, <1>2, Invariance, PTL DEF Spec
=============================================================================
