----------------------------- MODULE RequestsProofs -----------------------------
(***************************************************************************)
(* Proofs about requests, for any vectors, any requests of the clients and *)
(* any number of packets, cut, garbled and lost anywhere: what is applied  *)
(* is what was received, as far as it was read before anything came over   *)
(* it, and that is what a client asked for, if no byte of the packet       *)
(* became another one unnoticed; one member of a switch vector is on, and  *)
(* it is the one that was wanted; what changed is told.                    *)
(***************************************************************************)
EXTENDS Requests, Arithmetic, SequenceTheorems

-----------------------------------------------------------------------------
\* The rest of packet p, after its first m bytes, is on the line.
FromDriver(p, m) ==
    /\ Len(line) = Len(p) - m
    /\ \A i \in 1 .. Len(line) : line[i] = p[m + i]

\* What was received is the beginning of p.
Holds(p) ==
    /\ size \in 1 .. Len(p) /\ (ready <=> size = Len(p))
    /\ \A i \in 0 .. size - 1 : buf[i] = p[i + 1]

\* There is a byte in it that no request has.
Spoilt == \E i \in 1 .. size - 1 : buf[i] = Garbled

\* A packet that is complete ends so.
Ended == ready => buf[size - 1] = PACKET_END

\* What was received comes before what is on the line, in the same packet
\* or in another, unless a byte of it was garbled; the beginning of a packet
\* may be lost, and then the rest of it is.
Reception ==
    \E p \in Packets \cup {<< >>} : \E m \in 0 .. Len(p) :
        /\ FromDriver(p, m)
        /\ \/ wrong \/ Spoilt
           \/ size = 0 /\ ~ready
           \/ size = m /\ Holds(p)
           \/ m = 0 /\ \E q \in Packets : Holds(q)

\* What the first pass noted is a request that a client sent.
Asks(r) ==
    /\ job.vec = r.vec /\ job.members = r.members /\ job.sent = r.values
    /\ job.n = Len(r.members)

\* It is a value for each of some members, in their order, in any case.
Shape ==
    /\ Len(job.members) = job.n /\ Len(job.sent) = job.n
    /\ \A i, j \in 1 .. job.n : i < j => job.members[i] < job.members[j]

OneOn(v) == On(value[v]) = {active[v]}

\* While the members are read.
ReadingInv ==
    /\ ~job.torn => \A j \in 1 .. job.n : buf[ValueAt(j)] = job.sent[j]
    /\ job.torn \/ job.yields => job.changed # {} /\ job.vec \in Stored
    /\ \A j \in Exact : Got(j) = job.sent[j]
    /\ job.vec \in Exclusive =>
          /\ \A j \in 1 .. job.n : job.sent[j] \in {0, 1}
          /\ job.changed = {} => OneOn(job.vec)

CalledInv ==
    job.vec \in Exclusive => OneOn(job.vec) /\ AsWanted(active[job.vec])

JobInv ==
    /\ job.wrong \/ \E r \in Asked : Asks(r)
    /\ Shape
    /\ job.changed \subseteq Done
    /\ IF job.phase = "members" THEN ReadingInv ELSE CalledInv

\* A vector that is not at work has one member on, and is told or news.
Quiet(v) ==
    /\ v \in Exclusive => OneOn(v)
    /\ news[v] \/ (shown[v] = "true" /\ ack # BusyAck(v))

BufferType == /\ buf \in [0 .. BufSize - 1 -> Bytes]
              /\ size \in 0 .. BufSize /\ ready \in BOOLEAN /\ wrong \in BOOLEAN
              /\ IF ready THEN size > 1 ELSE size < BufSize

ValueType == /\ DOMAIN value = Vectors
             /\ \A v \in Vectors : value[v] \in [1 .. NMembers[v] -> Data]

ActiveType == /\ DOMAIN active = Exclusive
              /\ \A v \in Exclusive : active[v] \in 1 .. NMembers[v]

ToldType == /\ saved \in 0 .. NMembers[Mode]
            /\ news \in [Vectors -> BOOLEAN]
            /\ ack \in {None, Restarted} \cup {BusyAck(v) : v \in Vectors}
            /\ shown \in [Vectors -> {"true", "old", "BUSY"}]

JobType ==
    \/ job = None
    \/ /\ job \in Jobs /\ job.k \in 1 .. job.n + 1
       /\ \A i \in 1 .. job.n : job.members[i] \in 1 .. NMembers[job.vec]

IInv ==
    /\ line \in Seq(Bytes) /\ events \in 0 .. MaxEvents
    /\ BufferType /\ ValueType /\ ActiveType /\ ToldType /\ JobType
    /\ Reception /\ Ended
    /\ job # None => JobInv
    /\ \A v \in Vectors : (job = None \/ v # job.vec) => Quiet(v)

-----------------------------------------------------------------------------
(* Packets.                                                                *)

(* What is assumed of a vector and of a request.                           *)
LEMMA Numbers ==
    /\ BufSize \in Nat /\ BufSize > 3 /\ MaxEvents \in Nat
    /\ \A v \in Vectors : v \in Data /\ v \in Int /\ NMembers[v] \in Int
                          /\ 1 <= NMembers[v] /\ NMembers[v] <= 127
    /\ Data \subseteq Bytes /\ Data \subseteq Nat /\ Bytes \subseteq Nat
<1>1. /\ BufSize \in Nat /\ BufSize > 3 /\ MaxEvents \in Nat
      /\ \A v \in Vectors : v \in Data /\ NMembers[v] \in 1 .. 127
  BY RequestAssumption
<1>2. Data \subseteq Bytes /\ Data \subseteq Nat /\ Bytes \subseteq Nat
  BY SMT DEF Data, Bytes, Garbled
<1>3. \A v \in Vectors : v \in Int
  <2>1. Data \subseteq Int
    BY SMT DEF Data
  <2> QED  BY <1>1, <2>1
<1>4. \A v \in Vectors : /\ NMembers[v] \in Int
                         /\ 1 <= NMembers[v] /\ NMembers[v] <= 127
  <2>1. \A n \in 1 .. 127 : n \in Int /\ 1 <= n /\ n <= 127
    BY SMT
  <2> QED  BY <1>1, <2>1
<1> QED  BY <1>1, <1>2, <1>3, <1>4

LEMMA BufferSize == BufSize \in Nat /\ BufSize > 3
  BY RequestAssumption

(* Controls, data and garbled bytes are told apart.                        *)
LEMMA Controls ==
    /\ \A c \in {PACKET_REQUEST, PACKET_RESTARTED} :
          c \notin Data /\ IsStart(c) /\ c # PACKET_END
    /\ \A c \in Data \cup {Garbled} : ~IsStart(c) /\ c # PACKET_END
    /\ ~IsStart(PACKET_END)
    /\ Garbled \notin Data /\ PACKET_END \notin Data
    /\ Garbled >= ListSize
  BY SMT DEF PACKET_REQUEST, PACKET_RESTARTED, PACKET_END, IsStart, Data, Garbled, ListSize

LEMMA AskedType ==
    ASSUME NEW r \in Asked
    PROVE  /\ r.vec \in Vectors
           /\ Len(r.members) \in Nat /\ 2 * Len(r.members) + 3 < BufSize
           /\ r.members \in Seq(Nat) /\ r.values \in Seq(Data)
           /\ Len(r.values) = Len(r.members)
           /\ \A i \in 1 .. Len(r.members) :
                 r.members[i] \in 1 .. 127 /\ r.values[i] \in Data
           /\ \A i, j \in 1 .. Len(r.members) : i < j => r.members[i] < r.members[j]
<1>1. /\ r.vec \in Vectors
      /\ r.members \in Seq(1 .. 127) /\ r.values \in Seq(Data)
      /\ Len(r.values) = Len(r.members)
      /\ \A i, j \in 1 .. Len(r.members) : i < j => r.members[i] < r.members[j]
      /\ 2 * Len(r.members) + 3 < BufSize
  BY RequestAssumption
<1>2. Len(r.members) \in Nat
  BY <1>1, LenProperties
<1>3. \A i \in 1 .. Len(r.members) : r.members[i] \in 1 .. 127 /\ r.values[i] \in Data
  BY <1>1, ElementOfSeq
<1>4. 1 .. 127 \subseteq Nat
  BY SMT
<1>5. r.members \in Seq(Nat)
  BY <1>1, <1>4, SeqMonotonic
<1> QED  BY <1>1, <1>2, <1>3, <1>5

(* The numbers of members to skip.                                         *)
LEMMA SkipType ==
    ASSUME NEW r \in Asked, NEW i \in 1 .. Len(r.members)
    PROVE  /\ Skip(r, i) \in Data
           /\ i = 1 => Skip(r, i) + 1 = r.members[i]
           /\ i > 1 => r.members[i - 1] + Skip(r, i) + 1 = r.members[i]
<1> DEFINE n == Len(r.members)
<1>1. n \in Nat /\ r.members[i] \in 1 .. 127
  BY AskedType
<1> HIDE DEF n
<1>2. CASE i = 1
  <2> DEFINE x == r.members[i]
             s == Skip(r, i)
  <2>1. s = x - 0 - 1 /\ x \in 1 .. 127
    BY <1>1, <1>2 DEF Skip
  <2> HIDE DEF x, s
  <2>2. s \in Data /\ s + 1 = x
    BY <2>1, SMT DEF Data
  <2> QED  BY <1>2, <2>2, SMT DEF x, s
<1>3. CASE i > 1
  <2>1. i - 1 \in 1 .. n /\ i \in 1 .. n /\ i - 1 < i /\ i # 1
    BY <1>1, <1>3, SMT DEF n
  <2>2. r.members[i - 1] \in 1 .. 127 /\ r.members[i - 1] < r.members[i]
    BY <2>1, AskedType DEF n
  <2> DEFINE x == r.members[i]
             y == r.members[i - 1]
             s == Skip(r, i)
  <2>3. s = x - y - 1 /\ x \in 1 .. 127 /\ y \in 1 .. 127 /\ y < x
    BY <1>1, <2>1, <2>2 DEF Skip
  <2> HIDE DEF x, y, s
  <2>4. s \in Data /\ y + s + 1 = x
    BY <2>3, SMT DEF Data
  <2> QED  BY <2>1, <2>4 DEF x, y, s
<1>4. i \in Int /\ i >= 1
  BY <1>1, SMT DEF n
<1> QED  BY <1>2, <1>3, <1>4, SMT

(* A request, byte by byte.                                                *)
LEMMA EncodedIs ==
    ASSUME NEW r \in Asked
    PROVE  /\ Encoded(r) \in Seq(Bytes)
           /\ Len(Encoded(r)) = 2 * Len(r.members) + 3
           /\ Encoded(r)[1] = PACKET_REQUEST /\ Encoded(r)[2] = r.vec
           /\ Encoded(r)[2 * Len(r.members) + 3] = PACKET_END
           /\ \A i \in 1 .. Len(r.members) : /\ Encoded(r)[2 * i + 1] = Skip(r, i)
                                             /\ Encoded(r)[2 * i + 2] = r.values[i]
           /\ \A i \in 2 .. 2 * Len(r.members) + 2 : Encoded(r)[i] \in Data
<1> DEFINE n == Len(r.members)
           a == <<PACKET_REQUEST, r.vec>>
           c == <<PACKET_END>>
           item(k) == IF k % 2 = 1 THEN Skip(r, (k + 1) \div 2) ELSE r.values[k \div 2]
           b == [k \in 1 .. 2 * n |-> item(k)]
           e == Encoded(r)
<1>1. n \in Nat /\ r.vec \in Data /\ \A i \in 1 .. n : r.values[i] \in Data
  BY AskedType, Numbers
<1>2. \A i \in 1 .. n : Skip(r, i) \in Data
  BY SkipType
<1>3. PACKET_REQUEST \in Bytes /\ PACKET_END \in Bytes /\ Data \subseteq Bytes
  BY Numbers, SMT DEF PACKET_REQUEST, PACKET_END, Bytes
<1> HIDE DEF n
<1>4. \A k \in 1 .. 2 * n : item(k) \in Data
  <2> SUFFICES ASSUME NEW k \in 1 .. 2 * n PROVE item(k) \in Data
    OBVIOUS
  <2>1. k % 2 = 1 => (k + 1) \div 2 \in 1 .. n
    BY <1>1, SMT
  <2>2. k % 2 # 1 => k \div 2 \in 1 .. n
    BY <1>1, SMT
  <2> QED  BY <1>1, <1>2, <2>1, <2>2
<1>5. \A i \in 1 .. n : item(2 * i - 1) = Skip(r, i) /\ item(2 * i) = r.values[i]
  <2> SUFFICES ASSUME NEW i \in 1 .. n
               PROVE  item(2 * i - 1) = Skip(r, i) /\ item(2 * i) = r.values[i]
    OBVIOUS
  <2>1. (2 * i - 1) % 2 = 1 /\ (2 * i - 1 + 1) \div 2 = i
    BY <1>1, SMT
  <2>2. (2 * i) % 2 # 1 /\ (2 * i) \div 2 = i
    BY <1>1, SMT
  <2> QED  BY <2>1, <2>2
<1> HIDE DEF item
<1>6. /\ a \in Seq(Bytes) /\ Len(a) = 2 /\ a[1] = PACKET_REQUEST /\ a[2] = r.vec
      /\ c \in Seq(Bytes) /\ Len(c) = 1 /\ c[1] = PACKET_END
  <2>1. r.vec \in Bytes
    BY <1>1, <1>3
  <2> HIDE DEF Bytes
  <2> QED  BY <1>3, <2>1, SMT
<1>7. b \in Seq(Bytes) /\ Len(b) = 2 * n /\ \A k \in 1 .. 2 * n : b[k] = item(k)
  <2>1. 2 * n \in Nat
    BY <1>1, SMT
  <2>2. \A k \in 1 .. 2 * n : item(k) \in Bytes
    BY <1>3, <1>4
  <2>3. b \in [1 .. 2 * n -> Bytes]
    BY <2>2
  <2>4. b \in Seq(Bytes)
    BY <2>1, <2>3, SeqDef
  <2>5. DOMAIN b = 1 .. Len(b) /\ Len(b) \in Nat
    BY <2>4, LenProperties
  <2>6. DOMAIN b = 1 .. 2 * n
    OBVIOUS
  <2> HIDE DEF b
  <2>7. Len(b) = 2 * n
    BY <2>1, <2>5, <2>6, SMT
  <2> QED  BY <2>4, <2>7 DEF b
<1>8. e = (a \o b) \o c
  BY DEF Encoded, item, n
<1> HIDE DEF a, b, c, e
<1>9. /\ a \o b \in Seq(Bytes) /\ Len(a \o b) = 2 * n + 2
      /\ \A i \in 1 .. 2 * n + 2 : (a \o b)[i] = IF i <= 2 THEN a[i] ELSE b[i - 2]
  <2>1. /\ a \o b \in Seq(Bytes) /\ Len(a \o b) = Len(a) + Len(b)
        /\ \A i \in 1 .. Len(a) + Len(b) :
              (a \o b)[i] = IF i <= Len(a) THEN a[i] ELSE b[i - Len(a)]
    BY <1>6, <1>7, ConcatProperties
  <2>2. Len(a) + Len(b) = 2 * n + 2
    BY <1>1, <1>6, <1>7, SMT
  <2> QED  BY <1>6, <2>1, <2>2
<1>10. /\ e \in Seq(Bytes) /\ Len(e) = 2 * n + 3
       /\ \A i \in 1 .. 2 * n + 3 :
             e[i] = IF i <= 2 * n + 2 THEN (a \o b)[i] ELSE c[i - (2 * n + 2)]
  <2> DEFINE d == a \o b
  <2>1. /\ d \o c \in Seq(Bytes) /\ Len(d \o c) = Len(d) + Len(c)
        /\ \A i \in 1 .. Len(d) + Len(c) :
              (d \o c)[i] = IF i <= Len(d) THEN d[i] ELSE c[i - Len(d)]
    <3> HIDE DEF d
    <3> QED  BY <1>6, <1>9, ConcatProperties DEF d
  <2>2. Len(d) + Len(c) = 2 * n + 3
    BY <1>1, <1>6, <1>9, SMT
  <2> QED  BY <1>6, <1>8, <1>9, <2>1, <2>2
<1>11. e[1] = PACKET_REQUEST /\ e[2] = r.vec
  <2>1. /\ 1 \in 1 .. 2 * n + 3 /\ 1 \in 1 .. 2 * n + 2 /\ 1 <= 2 * n + 2 /\ 1 <= 2
        /\ 2 \in 1 .. 2 * n + 3 /\ 2 \in 1 .. 2 * n + 2 /\ 2 <= 2 * n + 2 /\ 2 <= 2
    BY <1>1, SMT
  <2>2. e[1] = (a \o b)[1] /\ e[2] = (a \o b)[2]
    BY <1>10, <2>1, Zenon
  <2>3. (a \o b)[1] = a[1] /\ (a \o b)[2] = a[2]
    BY <1>9, <2>1, Zenon
  <2> QED  BY <1>6, <2>2, <2>3
<1>12. e[2 * n + 3] = PACKET_END
  <2> DEFINE j == 2 * n + 3
             w == 2 * n + 2
  <2>1. j \in 1 .. j /\ ~(j <= w) /\ j - w = 1
    BY <1>1, SMT
  <2>2. \A i \in 1 .. j : e[i] = IF i <= w THEN (a \o b)[i] ELSE c[i - w]
    BY <1>10
  <2> HIDE DEF j, w
  <2>3. e[j] = c[j - w]
    BY <2>1, <2>2
  <2>4. e[j] = PACKET_END
    BY <1>6, <2>1, <2>3
  <2> QED  BY <2>4 DEF j
<1>13. \A k \in 1 .. 2 * n : e[k + 2] = item(k)
  <2> SUFFICES ASSUME NEW k \in 1 .. 2 * n PROVE e[k + 2] = item(k)
    OBVIOUS
  <2> DEFINE j == k + 2
             w == 2 * n + 2
  <2>1. j \in 1 .. 2 * n + 3 /\ j \in 1 .. w /\ j <= w /\ ~(j <= 2) /\ j - 2 = k
    BY <1>1, SMT
  <2>2. /\ \A i \in 1 .. 2 * n + 3 : e[i] = IF i <= w THEN (a \o b)[i] ELSE c[i - w]
        /\ \A i \in 1 .. w : (a \o b)[i] = IF i <= 2 THEN a[i] ELSE b[i - 2]
    BY <1>9, <1>10
  <2> HIDE DEF j, w
  <2>3. e[j] = (a \o b)[j] /\ (a \o b)[j] = b[j - 2]
    BY <2>1, <2>2
  <2>4. e[j] = item(k)
    BY <1>7, <2>1, <2>3
  <2> QED  BY <2>4 DEF j
<1>14. \A i \in 1 .. n : e[2 * i + 1] = Skip(r, i) /\ e[2 * i + 2] = r.values[i]
  <2> SUFFICES ASSUME NEW i \in 1 .. n
               PROVE  e[2 * i + 1] = Skip(r, i) /\ e[2 * i + 2] = r.values[i]
    OBVIOUS
  <2>1. 2 * i - 1 \in 1 .. 2 * n /\ 2 * i \in 1 .. 2 * n /\ 2 * i - 1 + 2 = 2 * i + 1
    BY <1>1, SMT
  <2> QED  BY <1>5, <1>13, <2>1
<1>15. \A i \in 2 .. 2 * n + 2 : e[i] \in Data
  <2> SUFFICES ASSUME NEW i \in 2 .. 2 * n + 2 PROVE e[i] \in Data
    OBVIOUS
  <2>1. CASE i = 2
    BY <1>1, <1>11, <2>1
  <2>2. CASE i # 2
    <3>1. i - 2 \in 1 .. 2 * n /\ i - 2 + 2 = i
      BY <1>1, <2>2, SMT
    <3> QED  BY <1>4, <1>13, <3>1
  <2> QED  BY <2>1, <2>2
<1> QED  BY <1>10, <1>11, <1>12, <1>14, <1>15 DEF n, e

(* A packet starts with a control, ends with another one, and has data in  *)
(* between; it fits into the buffer.                                       *)
LEMMA PacketShape ==
    ASSUME NEW p \in Packets
    PROVE  /\ p \in Seq(Bytes) /\ Len(p) \in Nat /\ 2 <= Len(p) /\ Len(p) < BufSize
           /\ p[1] \in {PACKET_REQUEST, PACKET_RESTARTED}
           /\ p[Len(p)] = PACKET_END
           /\ \A i \in 2 .. Len(p) - 1 : p[i] \in Data
<1>1. ASSUME NEW r \in Asked, p = Encoded(r)
      PROVE  /\ p \in Seq(Bytes) /\ Len(p) \in Nat /\ 2 <= Len(p) /\ Len(p) < BufSize
             /\ p[1] \in {PACKET_REQUEST, PACKET_RESTARTED}
             /\ p[Len(p)] = PACKET_END
             /\ \A i \in 2 .. Len(p) - 1 : p[i] \in Data
  <2> DEFINE n == Len(r.members)
  <2>1. n \in Nat /\ 2 * n + 3 < BufSize
    BY AskedType
  <2>2. /\ p \in Seq(Bytes) /\ Len(p) = 2 * n + 3
        /\ p[1] = PACKET_REQUEST /\ p[2 * n + 3] = PACKET_END
        /\ \A i \in 2 .. 2 * n + 2 : p[i] \in Data
    BY <1>1, EncodedIs
  <2> HIDE DEF n
  <2>3. Len(p) \in Nat /\ 2 <= Len(p) /\ Len(p) < BufSize /\ Len(p) - 1 = 2 * n + 2
    BY <2>1, <2>2, SMT
  <2> QED  BY <2>2, <2>3
<1>2. ASSUME p = <<PACKET_RESTARTED, PACKET_END>>
      PROVE  /\ p \in Seq(Bytes) /\ Len(p) \in Nat /\ 2 <= Len(p) /\ Len(p) < BufSize
             /\ p[1] \in {PACKET_REQUEST, PACKET_RESTARTED}
             /\ p[Len(p)] = PACKET_END
             /\ \A i \in 2 .. Len(p) - 1 : p[i] \in Data
  <2>1. PACKET_RESTARTED \in Bytes /\ PACKET_END \in Bytes
    BY SMT DEF PACKET_RESTARTED, PACKET_END, Bytes
  <2> HIDE DEF Bytes
  <2>2. p \in Seq(Bytes) /\ Len(p) = 2 /\ p[1] = PACKET_RESTARTED /\ p[2] = PACKET_END
    BY <1>2, <2>1, SMT
  <2>3. 2 < BufSize /\ 2 .. 2 - 1 = {}
    BY Numbers, SMT
  <2> QED  BY <2>2, <2>3, SMT
<1> QED  BY <1>1, <1>2 DEF Packets

-----------------------------------------------------------------------------
(* Reading a request.                                                      *)

(* The members of the items, counted from the first.                       *)
LEMMA Counts ==
    ASSUME NItems \in Nat, NEW w \in [0 .. NItems -> Nat], w[0] = 0,
           \A i \in 1 .. NItems : w[i] = w[i - 1] + buf[2 * i] + 1
    PROVE  \A j \in 1 .. NItems : ItemMember(j) = w[j]
<1> DEFINE n == NItems
           Steps(f) == [i \in 0 .. NItems |-> IF i = 0 THEN 0 ELSE f[i - 1] + buf[2 * i] + 1]
<1>1. n \in Nat /\ 0 \in 0 .. n /\ \A i \in 1 .. n : i \in 0 .. n /\ i # 0 /\ i - 1 \in 0 .. n
  BY SMT
<1>2. \A i \in 0 .. n : i # 0 => i \in 1 .. n
  BY SMT
<1>3. w = Steps(w)
  BY <1>2
<1> DEFINE g == CHOOSE h : h = Steps(h)
<1>4. g = Steps(g)
  BY <1>3
<1>5. \A j \in 1 .. n : ItemMember(j) = g[j]
  BY DEF ItemMember
<1> HIDE DEF g
<1>6. g[0] = 0 /\ \A i \in 1 .. n : g[i] = g[i - 1] + buf[2 * i] + 1
  <2>1. \A i \in 0 .. NItems : g[i] = IF i = 0 THEN 0 ELSE g[i - 1] + buf[2 * i] + 1
    BY <1>4
  <2> QED  BY <1>1, <2>1
<1> DEFINE P == {i \in 0 .. n : g[i] = w[i]}
<1> HIDE DEF n
<1>8. 0 \in P
  BY <1>1, <1>6
<1>9. ASSUME NEW i \in 0 .. n - 1, i \in P PROVE i + 1 \in P
  <2> DEFINE k == i + 1
  <2>1. k \in 1 .. n /\ k \in 0 .. n /\ k - 1 = i
    BY <1>1, SMT
  <2> HIDE DEF k
  <2>2. g[k] = g[k - 1] + buf[2 * k] + 1 /\ w[k] = w[k - 1] + buf[2 * k] + 1
    BY <1>6, <2>1 DEF n
  <2>3. g[k] = w[k]
    BY <1>9, <2>1, <2>2
  <2> QED  BY <2>1, <2>3 DEF k
<1> HIDE DEF P
<1>10. \A i \in 0 .. n : i \in P
  BY <1>1, <1>8, <1>9, Induction
<1>12. \A i \in 1 .. n : g[i] = w[i]
  BY <1>1, <1>10 DEF P
<1> QED  BY <1>5, <1>12 DEF n

(* The members of any items ascend.                                        *)
LEMMA Ascend ==
    ASSUME NItems \in Nat, \A i \in 1 .. NItems : buf[2 * i] \in Nat
    PROVE  /\ \A j \in 1 .. NItems : ItemMember(j) \in Nat /\ ItemMember(j) >= 1
           /\ \A i, j \in 1 .. NItems : i < j => ItemMember(i) < ItemMember(j)
<1> DEFINE n == NItems
           G == [i \in 1 .. n |-> [x \in Nat |-> x + buf[2 * i] + 1]]
<1>1. \A i \in 1 .. n : buf[2 * i] \in Nat
  OBVIOUS
<1>2. \A i \in 1 .. n : \A x \in Nat : x + buf[2 * i] + 1 \in Nat
  <2> SUFFICES ASSUME NEW i \in 1 .. n, NEW x \in Nat PROVE x + buf[2 * i] + 1 \in Nat
    OBVIOUS
  <2> DEFINE b == buf[2 * i]
  <2>1. b \in Nat
    BY <1>1
  <2> HIDE DEF b
  <2>2. x + b + 1 \in Nat
    BY <2>1, SMT
  <2> QED  BY <2>2 DEF b
<1>3. G \in [1 .. n -> [Nat -> Nat]]
  BY <1>2
<1>4. Runs(n, Nat, 0, G) # {}
  BY <1>3, Recursion
<1>5. PICK w \in [0 .. n -> Nat] : w[0] = 0 /\ \A i \in 1 .. n : w[i] = G[i][w[i - 1]]
  BY <1>4 DEF Runs
<1>6. \A i \in 1 .. n : i - 1 \in 0 .. n /\ i \in 0 .. n
  BY SMT
<1>7. \A i \in 1 .. n : w[i] = w[i - 1] + buf[2 * i] + 1
  BY <1>5, <1>6
<1>8. \A j \in 1 .. n : ItemMember(j) = w[j]
  BY <1>5, <1>7, Counts
<1> HIDE DEF n, G
<1>9. \A i \in 1 .. n : w[i] \in Nat /\ w[i - 1] \in Nat /\ w[i - 1] < w[i]
  <2> SUFFICES ASSUME NEW i \in 1 .. n PROVE w[i] \in Nat /\ w[i - 1] \in Nat /\ w[i - 1] < w[i]
    OBVIOUS
  <2> DEFINE a == w[i - 1]
             b == buf[2 * i]
  <2>1. a \in Nat /\ b \in Nat /\ w[i] \in Nat /\ w[i] = a + b + 1
    BY <1>1, <1>5, <1>6, <1>7
  <2> HIDE DEF a, b
  <2>2. a < w[i]
    BY <2>1, SMT
  <2> QED  BY <2>1, <2>2 DEF a
<1>10. n \in Nat
  BY DEF n
<1>11. \A i, j \in 0 .. n : i < j => w[i] < w[j]
  <2> SUFFICES ASSUME NEW i \in 0 .. n PROVE \A j \in 0 .. n : i < j => w[i] < w[j]
    OBVIOUS
  <2> DEFINE P == {j \in 0 .. n : i < j => w[i] < w[j]}
  <2>1. 0 \in P
    BY <1>10, SMT
  <2>2. ASSUME NEW k \in 0 .. n - 1, k \in P PROVE k + 1 \in P
    <3> DEFINE l == k + 1
    <3>1. l \in 1 .. n /\ l \in 0 .. n /\ l - 1 = k /\ (i < l => i = k \/ i < k)
      BY <1>10, SMT
    <3> HIDE DEF l
    <3>2. w[k] < w[l] /\ w[l] \in Nat /\ w[k] \in Nat /\ w[i] \in Nat
      BY <1>5, <1>9, <3>1
    <3>3. i < l => w[i] < w[l]
      BY <2>2, <3>1, <3>2
    <3> QED  BY <3>1, <3>3 DEF l
  <2> HIDE DEF P
  <2>3. \A j \in 0 .. n : j \in P
    BY <1>10, <2>1, <2>2, Induction
  <2> QED  BY <2>3 DEF P
<1>12. ASSUME NEW j \in 1 .. n PROVE w[j] >= 1
  <2>1. 0 \in 0 .. n /\ j \in 0 .. n /\ 0 < j
    BY <1>10, SMT
  <2>2. w[0] < w[j] /\ w[0] = 0 /\ w[j] \in Nat
    BY <1>5, <1>11, <2>1
  <2> QED  BY <2>2, SMT
<1> QED  BY <1>6, <1>8, <1>9, <1>11, <1>12 DEF n

(* The counts of members to skip lead back to the members.                 *)
LEMMA Counted ==
    ASSUME NEW r \in Asked, NItems = Len(r.members),
           \A i \in 1 .. Len(r.members) : buf[2 * i] = Skip(r, i)
    PROVE  \A j \in 1 .. Len(r.members) : ItemMember(j) = r.members[j]
<1> DEFINE n == Len(r.members)
           w == [i \in 0 .. n |-> IF i = 0 THEN 0 ELSE r.members[i]]
<1>1. n \in Nat /\ \A i \in 1 .. n : r.members[i] \in 1 .. 127
  BY AskedType
<1>2. \A i \in 1 .. n : w[i] = w[i - 1] + buf[2 * i] + 1
  <2> SUFFICES ASSUME NEW i \in 1 .. n PROVE w[i] = w[i - 1] + buf[2 * i] + 1
    OBVIOUS
  <2>1. /\ i = 1 => Skip(r, i) + 1 = r.members[i]
        /\ i > 1 => r.members[i - 1] + Skip(r, i) + 1 = r.members[i]
        /\ Skip(r, i) \in Nat
    BY SkipType, Numbers
  <2>2. buf[2 * i] = Skip(r, i)
    OBVIOUS
  <2> HIDE DEF n
  <2>3. i \in 0 .. n /\ i # 0 /\ i - 1 \in 0 .. n
    BY <1>1, SMT
  <2>4. w[i] = r.members[i] /\ w[i - 1] = IF i - 1 = 0 THEN 0 ELSE r.members[i - 1]
    BY <2>3
  <2> DEFINE s == Skip(r, i)
             x == r.members[i]
             y == r.members[i - 1]
  <2> HIDE DEF w, s, x, y
  <2>5. CASE i = 1
    <3>1. w[i] = x /\ w[i - 1] = 0 /\ s + 1 = x /\ s \in Nat
      BY <2>1, <2>4, <2>5, SMT DEF x, s
    <3>2. 0 + s + 1 = s + 1
      BY <3>1, SMT
    <3> QED  BY <2>2, <3>1, <3>2 DEF s
  <2>6. CASE i # 1
    <3>1. i > 1 /\ i - 1 # 0
      BY <2>3, <2>6, SMT
    <3> QED  BY <2>1, <2>2, <2>4, <3>1
  <2> QED  BY <2>5, <2>6
<1>3. w \in [0 .. n -> Nat] /\ w[0] = 0 /\ \A i \in 1 .. n : w[i] = r.members[i]
  <2>1. \A i \in 0 .. n : i # 0 => i \in 1 .. n
    BY <1>1, SMT
  <2>2. 0 \in 0 .. n /\ 1 .. 127 \subseteq Nat /\ 0 \in Nat /\ \A i \in 1 .. n : i \in 0 .. n /\ i # 0
    BY <1>1, SMT
  <2> QED  BY <1>1, <2>1, <2>2
<1> HIDE DEF w
<1>4. \A j \in 1 .. n : ItemMember(j) = w[j]
  BY <1>1, <1>2, <1>3, Counts
<1> QED  BY <1>3, <1>4

(* A packet that is complete is one that was sent, or a garbled one.  That *)
(* is noticed, or it is wrong.                                             *)
LEMMA ReadyHolds ==
    ASSUME Reception, ready, ~wrong, ~Spoilt
    PROVE  \E q \in Packets : Holds(q) /\ size = Len(q)
<1>1. PICK p \in Packets \cup {<< >>} : \E m \in 0 .. Len(p) :
        \/ size = m /\ Holds(p)
        \/ m = 0 /\ \E q \in Packets : Holds(q)
  BY DEF Reception
<1>2. p = << >> => ~Holds(p)
  BY SMT DEF Holds
<1>3. PICK q \in Packets : Holds(q)
  BY <1>1, <1>2
<1> QED  BY <1>3 DEF Holds

(* The first pass stops at a byte that no request has.                     *)
LEMMA WellIsNotSpoilt ==
    ASSUME BufferType, Ended, ready, WellFormed
    PROVE  ~Spoilt
<1> SUFFICES ASSUME NEW i \in 1 .. size - 1, buf[i] = Garbled PROVE FALSE
  BY DEF Spoilt
<1>1. /\ size >= 3 /\ buf[1] \in Vectors
      /\ \A k \in 2 .. size - 2 : buf[k] \in Data
  BY DEF WellFormed
<1>2. i = 1 \/ i \in 2 .. size - 2 \/ i = size - 1
  BY BufferSize, SMT DEF BufferType
<1>3. buf[1] \in Data /\ buf[size - 1] = PACKET_END
  BY <1>1, Numbers DEF Ended
<1>4. Garbled \notin Data /\ Garbled # PACKET_END
  BY Controls
<1> QED  BY <1>1, <1>2, <1>3, <1>4

(* What the first pass accepts is a request that a client sent, if no byte *)
(* of it became another one unnoticed.                                     *)
LEMMA ReadsAsSent ==
    ASSUME BufferType, Reception, ready, WellFormed, Ended, ~wrong
    PROVE  \E r \in Asked :
              /\ buf[1] = r.vec /\ size = 2 * Len(r.members) + 3
              /\ NItems = Len(r.members)
              /\ \A j \in 1 .. Len(r.members) :
                    ItemMember(j) = r.members[j] /\ buf[2 * j + 1] = r.values[j]
<1>2. /\ buf[0] = PACKET_REQUEST /\ size >= 3 /\ buf[1] \in Vectors
      /\ \A i \in 2 .. size - 2 : buf[i] \in Data
  BY DEF WellFormed
<1>1. PICK q \in Packets : Holds(q) /\ size = Len(q)
  BY WellIsNotSpoilt, ReadyHolds
<1>3. /\ Len(q) \in Nat /\ size \in Nat
      /\ \A i \in 0 .. size - 1 : buf[i] = q[i + 1]
  BY <1>1, PacketShape DEF Holds
<1>4. buf[0] = q[1] /\ buf[1] = q[2]
  <2>1. /\ 0 \in 0 .. size - 1 /\ 0 + 1 = 1
        /\ 1 \in 0 .. size - 1 /\ 1 + 1 = 2
    BY <1>2, <1>3, SMT
  <2>2. buf[0] = q[0 + 1] /\ buf[1] = q[1 + 1]
    BY <1>3, <2>1
  <2> QED  BY <2>1, <2>2
<1>5. PICK r \in Asked : q = Encoded(r)
  <2>1. q # <<PACKET_RESTARTED, PACKET_END>>
    <3>1. q[1] # PACKET_RESTARTED
      BY <1>2, <1>4, SMT DEF PACKET_REQUEST, PACKET_RESTARTED
    <3> QED  BY <3>1
  <2> QED  BY <2>1 DEF Packets
<1> DEFINE n == Len(r.members)
<1>6. n \in Nat
  BY AskedType
<1>7. /\ Len(q) = 2 * n + 3 /\ q[2] = r.vec
      /\ \A i \in 1 .. n : q[2 * i + 1] = Skip(r, i) /\ q[2 * i + 2] = r.values[i]
  BY <1>5, EncodedIs
<1> HIDE DEF n
<1>8. size = 2 * n + 3 /\ NItems = n
  <2>1. size = 2 * n + 3
    BY <1>1, <1>7
  <2> QED  BY <1>6, <2>1, SMT DEF NItems
<1>9. \A i \in 2 .. 2 * n + 1 : buf[i] = q[i + 1]
  <2>1. \A i \in 2 .. 2 * n + 1 : i \in 0 .. size - 1
    BY <1>6, <1>8, SMT
  <2> QED  BY <1>3, <2>1
<1>10. \A i \in 1 .. n : buf[2 * i] = Skip(r, i) /\ buf[2 * i + 1] = r.values[i]
  <2> SUFFICES ASSUME NEW i \in 1 .. n
               PROVE  buf[2 * i] = Skip(r, i) /\ buf[2 * i + 1] = r.values[i]
    OBVIOUS
  <2>1. /\ 2 * i \in 2 .. 2 * n + 1
        /\ 2 * i + 1 \in 2 .. 2 * n + 1 /\ 2 * i + 1 + 1 = 2 * i + 2
    BY <1>6, SMT
  <2>2. buf[2 * i] = q[2 * i + 1] /\ buf[2 * i + 1] = q[2 * i + 1 + 1]
    BY <1>9, <2>1
  <2> QED  BY <1>7, <2>1, <2>2
<1>11. \A j \in 1 .. n : ItemMember(j) = r.members[j]
  BY <1>8, <1>10, Counted DEF n
<1> QED  BY <1>4, <1>7, <1>8, <1>10, <1>11 DEF n

(* N numbers that ascend up to N are all of them.                         *)
LEMMA AllOfThem ==
    ASSUME NEW N \in Nat, NEW m \in [1 .. N -> 1 .. N],
           \A i, j \in 1 .. N : i < j => m[i] < m[j]
    PROVE  \A j \in 1 .. N : m[j] = j
<1>1. ASSUME 1 <= N PROVE \A j \in 1 .. N : m[j] >= j
  <2> DEFINE P == {j \in 0 .. N : j = 0 \/ m[j] >= j}
  <2>1. 0 \in P
    BY SMT
  <2>2. ASSUME NEW i \in 0 .. N - 1, i \in P PROVE i + 1 \in P
    <3>1. i + 1 \in 1 .. N /\ i + 1 \in 0 .. N /\ m[i + 1] \in 1 .. N
      BY SMT
    <3>2. CASE i = 0
      BY <3>1, <3>2, SMT
    <3>3. CASE i # 0
      <4>1. i \in 1 .. N /\ i < i + 1
        BY <3>3, SMT
      <4>2. m[i] < m[i + 1] /\ m[i] >= i /\ m[i] \in 1 .. N
        BY <2>2, <3>1, <3>3, <4>1
      <4> QED  BY <3>1, <4>2, SMT
    <3> QED  BY <3>2, <3>3
  <2> HIDE DEF P
  <2>3. \A j \in 0 .. N : j \in P
    BY <2>1, <2>2, Induction
  <2> QED  BY <2>3, SMT DEF P
<1>2. ASSUME 1 <= N PROVE \A j \in 1 .. N : m[j] <= j
  <2> DEFINE P == {j \in 0 .. N : j = N \/ m[N - j] <= N - j}
  <2>1. 0 \in P
    BY <1>2, SMT
  <2>2. ASSUME NEW i \in 0 .. N - 1, i \in P PROVE i + 1 \in P
    <3> DEFINE a == N - i
               b == N - (i + 1)
    <3>1. a \in 1 .. N /\ i # N /\ i + 1 \in 0 .. N /\ b = a - 1
      BY SMT
    <3>2. m[a] <= a /\ m[a] \in 1 .. N
      BY <2>2, <3>1
    <3> SUFFICES ASSUME i + 1 # N PROVE m[b] <= b
      BY <3>1
    <3>3. b \in 1 .. N /\ b < a
      BY SMT
    <3>4. m[b] < m[a] /\ m[b] \in 1 .. N
      BY <3>1, <3>3
    <3> HIDE DEF a, b
    <3> QED  BY <3>1, <3>2, <3>3, <3>4, SMT
  <2> HIDE DEF P
  <2>3. \A j \in 0 .. N : j \in P
    BY <2>1, <2>2, Induction
  <2>4. ASSUME NEW j \in 1 .. N PROVE m[j] <= j
    <3> DEFINE k == N - j
    <3>1. k \in 0 .. N /\ k # N /\ N - k = j
      BY SMT
    <3> HIDE DEF k
    <3>2. m[N - k] <= N - k
      BY <2>3, <3>1 DEF P
    <3> QED  BY <3>1, <3>2
  <2> QED  BY <2>4
<1>3. ASSUME NEW j \in 1 .. N PROVE m[j] = j
  <2>1. m[j] >= j /\ m[j] <= j /\ m[j] \in 1 .. N
    <3>1. 1 <= N
      BY SMT
    <3> QED  BY <1>1, <1>2, <3>1
  <2> QED  BY <2>1, SMT
<1> QED  BY <1>3

-----------------------------------------------------------------------------
(* Reception.                                                              *)

(* A buffer that is cleared is a buffer.                                   *)
LEMMA LeftType ==
    ASSUME NEW b \in [0 .. BufSize - 1 -> Bytes], NEW n
    PROVE  /\ Left(b, n) \in [0 .. BufSize - 1 -> Bytes]
           /\ \A i \in 0 .. BufSize - 1 : i < n => Left(b, n)[i] = b[i]
<1>1. 0 \in Bytes
  BY SMT DEF Bytes, Data
<1> HIDE DEF Bytes
<1> QED  BY <1>1 DEF Left

(* Nothing changes for the reception when what was received stays.         *)
LEMMA ReceptionStays ==
    ASSUME Reception, Ended, BufferType, line' = line, size' = size, ready' = ready,
           wrong' = wrong, \A i \in 0 .. BufSize - 1 : i < size => buf'[i] = buf[i]
    PROVE  Reception' /\ Ended'
<1>1. \A i \in 0 .. size - 1 : buf'[i] = buf[i]
  <2>1. \A i \in 0 .. size - 1 : i \in 0 .. BufSize - 1 /\ i < size
    BY BufferSize, SMT DEF BufferType
  <2> QED  BY <2>1
<1>2. \A q : Holds(q) => Holds(q)'
  BY <1>1 DEF Holds
<1>3. \A p, m : FromDriver(p, m) => FromDriver(p, m)'
  BY DEF FromDriver
<1>4. Spoilt => Spoilt'
  <2>1. \A i \in 1 .. size - 1 : i \in 0 .. size - 1
    BY SMT DEF BufferType
  <2> QED  BY <1>1, <2>1 DEF Spoilt
<1>5. Ended'
  <2>1. ready => size - 1 \in 0 .. size - 1
    BY BufferSize, SMT DEF BufferType
  <2> QED  BY <1>1, <2>1 DEF Ended
<1> QED  BY <1>2, <1>3, <1>4, <1>5 DEF Reception

(* Nor when all of it is dropped.                                          *)
LEMMA ReceptionStarts ==
    ASSUME Reception, line' = line, size' = 0, ready' = FALSE
    PROVE  Reception' /\ Ended'
<1>1. \A p, m : FromDriver(p, m) => FromDriver(p, m)'
  BY DEF FromDriver
<1> QED  BY <1>1 DEF Reception, Ended

(* A packet is written, or cut: another packet, or none, comes next.       *)
LEMMA NextPacket ==
    ASSUME Reception, NEW l \in Packets \cup {<< >>}, line' = l,
           UNCHANGED <<buf, size, ready, wrong>>
    PROVE  Reception' /\ line' \in Seq(Bytes)
<1>2. l \in Seq(Bytes) /\ Len(l) \in Nat
  <2>1. << >> \in Seq(Bytes) /\ Len(<< >>) \in Nat
    BY EmptySeq
  <2> QED  BY <2>1, PacketShape
<1>3. PICK p \in Packets \cup {<< >>} : \E n \in 0 .. Len(p) :
        \/ wrong \/ Spoilt
        \/ size = 0 /\ ~ready
        \/ size = n /\ Holds(p)
        \/ n = 0 /\ \E q \in Packets : Holds(q)
  BY DEF Reception
<1>4. FromDriver(l, 0)'
  <2>1. Len(l) = Len(l) - 0 /\ \A i \in 1 .. Len(l) : l[i] = l[0 + i]
    BY <1>2, SMT
  <2> QED  BY <2>1 DEF FromDriver
<1>5. \A q : Holds(q) => Holds(q)'
  BY DEF Holds
<1>6. p \in Packets \/ ~Holds(p)
  BY SMT DEF Holds
<1>7. \/ wrong' \/ Spoilt'
      \/ size' = 0 /\ ~ready'
      \/ \E q \in Packets : Holds(q)'
  BY <1>3, <1>5, <1>6 DEF Spoilt
<1>8. 0 \in 0 .. Len(l)
  BY <1>2, SMT
<1> QED  BY <1>2, <1>4, <1>7, <1>8 DEF Reception

(* The next byte on the line.                                              *)
LEMMA NextByte ==
    ASSUME NEW p \in Packets \cup {<< >>}, NEW m \in 0 .. Len(p), FromDriver(p, m),
           line \in Seq(Bytes), line # << >>, line' = Tail(line)
    PROVE  /\ p \in Packets /\ m + 1 \in 1 .. Len(p) /\ m \in Nat /\ m < Len(p)
           /\ Head(line) = p[m + 1] /\ Head(line) \in Bytes
           /\ FromDriver(p, m + 1)' /\ line' \in Seq(Bytes)
<1>3. /\ Len(line) \in Nat \ {0} /\ Head(line) = line[1] /\ line' \in Seq(Bytes)
      /\ Len(line') = Len(line) - 1
      /\ \A i \in 1 .. Len(line') : line'[i] = line[i + 1]
  BY HeadTailProperties, EmptySeq DEF Head
<1>4. p \in Packets
  <2>1. p = << >> => Len(line) = 0
    BY EmptySeq, SMT DEF FromDriver
  <2> QED  BY <1>3, <2>1
<1>5. Len(p) \in Nat
  BY <1>4, PacketShape
<1> HIDE DEF FromDriver
<1>6. Len(line) = Len(p) - m /\ \A i \in 1 .. Len(line) : line[i] = p[m + i]
  BY DEF FromDriver
<1>7. m \in Nat /\ m + 1 \in 1 .. Len(p) /\ m < Len(p) /\ 1 \in 1 .. Len(line)
      /\ Len(line') = Len(p) - (m + 1)
  BY <1>3, <1>5, <1>6, SMT
<1>8. ASSUME NEW i \in 1 .. Len(line') PROVE line'[i] = p[m + 1 + i]
  <2> DEFINE k == i + 1
  <2>1. k \in 1 .. Len(line) /\ m + k = m + 1 + i
    BY <1>3, <1>7, SMT
  <2>2. line'[i] = line[k]
    BY <1>3
  <2> HIDE DEF k
  <2> QED  BY <1>6, <2>1, <2>2
<1>9. Head(line) \in Bytes
  BY <1>3, <1>7, ElementOfSeq
<1> QED  BY <1>3, <1>4, <1>6, <1>7, <1>8, <1>9 DEF FromDriver

(* A byte is lost.                                                         *)
LEMMA LoseReceived ==
    ASSUME Reception, line \in Seq(Bytes), Lose
    PROVE  Reception' /\ line' \in Seq(Bytes)
<1>1. line # << >> /\ line' = Tail(line) /\ wrong'
  BY DEF Lose
<1>5. PICK p \in Packets \cup {<< >>} : \E n \in 0 .. Len(p) : FromDriver(p, n)
  BY DEF Reception
<1>2. PICK m \in 0 .. Len(p) : FromDriver(p, m)
  BY <1>5
<1>3. /\ p \in Packets /\ m + 1 \in 1 .. Len(p)
      /\ FromDriver(p, m + 1)' /\ line' \in Seq(Bytes)
  BY <1>1, <1>2, NextByte
<1>4. m + 1 \in 0 .. Len(p)
  BY <1>3, SMT
<1> QED  BY <1>1, <1>3, <1>4 DEF Reception

(* A byte is received.                                                     *)
LEMMA ReceiveReceived ==
    ASSUME Reception, Ended, BufferType, line \in Seq(Bytes), Receive
    PROVE  /\ Reception' /\ Ended' /\ BufferType' /\ line' \in Seq(Bytes)
<1>6. PICK p \in Packets \cup {<< >>} : \E n \in 0 .. Len(p) :
        /\ FromDriver(p, n)
        /\ \/ wrong \/ Spoilt
           \/ size = 0 /\ ~ready
           \/ size = n /\ Holds(p)
           \/ n = 0 /\ \E q \in Packets : Holds(q)
  BY DEF Reception
<1>1. PICK m \in 0 .. Len(p) :
        /\ FromDriver(p, m)
        /\ \/ wrong \/ Spoilt
           \/ size = 0 /\ ~ready
           \/ size = m /\ Holds(p)
           \/ m = 0 /\ \E q \in Packets : Holds(q)
  BY <1>6
<1>2. line # << >> /\ ~ready /\ line' = Tail(line)
  BY DEF Receive
<1> DEFINE h == Head(line)
<1>3. /\ p \in Packets /\ m + 1 \in 1 .. Len(p) /\ m \in Nat /\ m < Len(p)
      /\ h = p[m + 1] /\ h \in Bytes
      /\ FromDriver(p, m + 1)' /\ line' \in Seq(Bytes)
  BY <1>1, <1>2, NextByte
<1>4. m + 1 \in 0 .. Len(p)
  BY <1>3, SMT
<1>5. /\ p \in Seq(Bytes) /\ Len(p) \in Nat /\ 2 <= Len(p) /\ Len(p) < BufSize
      /\ p[1] \in {PACKET_REQUEST, PACKET_RESTARTED}
      /\ p[Len(p)] = PACKET_END
      /\ \A i \in 2 .. Len(p) - 1 : p[i] \in Data
  BY <1>3, PacketShape
<1>7. PICK b \in {h} \cup Noise :
        LET next == IF IsStart(b) THEN 1 ELSE IF size = 0 THEN 0 ELSE size + 1
            last == [buf EXCEPT ![size] = b]
            new  == IF IsStart(b) THEN [last EXCEPT ![0] = b] ELSE last
        IN  /\ InList(b)
            /\ ready' = (b = PACKET_END /\ size > 0)
            /\ size' = IF next >= BufSize /\ ~ready' THEN 0 ELSE next
            /\ buf' = IF job = None THEN Left(new, size') ELSE new
            /\ wrong' = IF IsStart(b) THEN b # h ELSE wrong \/ b \notin {h, Garbled}
  BY DEF Receive
<1> DEFINE next == IF IsStart(b) THEN 1 ELSE IF size = 0 THEN 0 ELSE size + 1
           last == [buf EXCEPT ![size] = b]
           new  == IF IsStart(b) THEN [last EXCEPT ![0] = b] ELSE last
<1>8. /\ InList(b)
      /\ ready' = (b = PACKET_END /\ size > 0)
      /\ size' = IF next >= BufSize /\ ~ready' THEN 0 ELSE next
      /\ buf' = IF job = None THEN Left(new, size') ELSE new
      /\ wrong' = IF IsStart(b) THEN b # h ELSE wrong \/ b \notin {h, Garbled}
  BY <1>7
<1>9. b \in Bytes
  BY <1>3, <1>7, RequestAssumption
<1>10. new \in [0 .. BufSize - 1 -> Bytes]
  BY <1>9 DEF BufferType
<1>11. size \in Nat /\ size < BufSize /\ wrong \in BOOLEAN
  BY <1>2, BufferSize, SMT DEF BufferType
<1>12. /\ IsStart(b) => new[0] = b
       /\ ~IsStart(b) => new[size] = b
       /\ \A i \in 0 .. BufSize - 1 : i # size /\ i # 0 => new[i] = buf[i]
       /\ (~IsStart(b) /\ size # 0) => new[0] = buf[0]
  <2>1. 0 \in 0 .. BufSize - 1 /\ size \in 0 .. BufSize - 1
    BY <1>11, BufferSize, SMT
  <2> QED  BY <2>1 DEF BufferType
<1> HIDE DEF h, new
<1>13. /\ buf' \in [0 .. BufSize - 1 -> Bytes]
       /\ \A i \in 0 .. BufSize - 1 : i < size' => buf'[i] = new[i]
  BY <1>8, <1>10, LeftType
<1>14. wrong' \in BOOLEAN
  BY <1>8, <1>11
\* The first byte of a packet, or one taken for it.
<1>15. CASE IsStart(b)
  <2>1. b # PACKET_END
    BY <1>15, Controls
  <2>2. next = 1 /\ ready' = FALSE
    BY <1>8, <1>15, <2>1
  <2> HIDE DEF next
  <2>3. size' = 1
    BY <1>8, <2>2, BufferSize, SMT
  <2>4. BufferType' /\ Ended'
    <3>1. 1 \in 0 .. BufSize /\ 1 < BufSize
      BY BufferSize, SMT
    <3> QED  BY <1>13, <1>14, <2>2, <2>3, <3>1 DEF BufferType, Ended
  <2>5. CASE b # h
    <3>1. wrong'
      BY <1>8, <1>15, <2>5
    <3> QED  BY <1>3, <1>4, <2>4, <3>1 DEF Reception
  <2>6. CASE b = h
    <3>1. m = 0
      <4>1. m # 0 => m + 1 = Len(p) \/ m + 1 \in 2 .. Len(p) - 1
        BY <1>3, <1>5, SMT
      <4>2. m # 0 => ~IsStart(h)
        BY <1>3, <1>5, <4>1, Controls
      <4> QED  BY <1>15, <2>6, <4>2
    <3>2. 0 + 1 = 1 /\ 1 - 1 = 0 /\ 1 \in 1 .. Len(p) /\ 1 # Len(p) /\ \A i \in 0 .. 0 : i = 0
      BY <1>5, SMT
    <3>3. buf'[0] = p[1]
      <4>1. 0 \in 0 .. BufSize - 1 /\ 0 < 1
        BY BufferSize, SMT
      <4> QED  BY <1>3, <1>12, <1>13, <1>15, <2>3, <2>6, <3>1, <3>2, <4>1
    <3>4. Holds(p)'
      BY <2>2, <2>3, <3>2, <3>3 DEF Holds
    <3>5. size' = m + 1
      BY <2>3, <3>1, <3>2
    <3> QED  BY <1>3, <1>4, <2>4, <3>4, <3>5 DEF Reception
  <2> QED  BY <2>5, <2>6
\* One out of any packet.
<1>16. CASE ~IsStart(b) /\ size = 0
  <2>1. next = 0 /\ ready' = FALSE
    <3>1. ~(0 > 0)
      BY SMT
    <3> QED  BY <1>8, <1>16, <3>1
  <2> HIDE DEF next
  <2>2. size' = 0
    BY <1>8, <2>1
  <2>3. BufferType' /\ Ended'
    <3>1. 0 \in 0 .. BufSize /\ 0 < BufSize
      BY BufferSize, SMT
    <3> QED  BY <1>13, <1>14, <2>1, <2>2, <3>1 DEF BufferType, Ended
  <2> QED  BY <1>3, <1>4, <2>1, <2>2, <2>3 DEF Reception
\* The next one of a packet.
<1>17. CASE ~IsStart(b) /\ size # 0
  <2>1. next = size + 1 /\ size > 0 /\ ready' = (b = PACKET_END)
    <3>1. size > 0
      BY <1>11, <1>17, SMT
    <3> QED  BY <1>8, <1>17, <3>1
  <2> HIDE DEF next
  <2>2. /\ size' = size + 1 \/ (size' = 0 /\ ~ready')
        /\ size' = size + 1 => size + 1 < BufSize \/ ready'
    BY <1>8, <1>11, <2>1, BufferSize, SMT
  <2>3. CASE size' = 0 /\ ~ready'
    <3>1. BufferType' /\ Ended'
      <4>1. 0 \in 0 .. BufSize /\ 0 < BufSize /\ ready' \in BOOLEAN
        BY <2>1, BufferSize, SMT
      <4> QED  BY <1>13, <1>14, <2>3, <4>1 DEF BufferType, Ended
    <3> QED  BY <1>3, <1>4, <2>3, <3>1 DEF Reception
  <2>4. CASE size' = size + 1
    <3>1. /\ size \in 0 .. BufSize - 1 /\ size < size' /\ size' - 1 = size
          /\ size' \in 0 .. BufSize /\ size' > 1 /\ (size' < BufSize \/ ready')
      BY <1>11, <2>1, <2>2, <2>4, BufferSize, SMT
    <3>2. buf'[size] = b /\ \A i \in 0 .. size - 1 : buf'[i] = buf[i]
      <4>1. \A i \in 0 .. size - 1 : i \in 0 .. BufSize - 1 /\ i < size' /\ i # size
        BY <1>11, <3>1, BufferSize, SMT
      <4> QED  BY <1>12, <1>13, <1>17, <3>1, <4>1
    <3>3. BufferType'
      BY <1>13, <1>14, <2>1, <3>1 DEF BufferType
    <3>4. Ended'
      BY <2>1, <3>1, <3>2 DEF Ended
    <3>5. SUFFICES \/ wrong' \/ Spoilt'
                   \/ size' = m + 1 /\ Holds(p)'
      BY <1>3, <1>4, <3>3, <3>4 DEF Reception
    <3>6. CASE wrong \/ b \notin {h, Garbled}
      BY <1>8, <1>17, <3>6
    <3>7. CASE Spoilt
      <4>1. \A i \in 1 .. size - 1 : i \in 0 .. size - 1 /\ i \in 1 .. size' - 1
        BY <1>11, <2>4, SMT
      <4> QED  BY <3>2, <3>7, <4>1 DEF Spoilt
    <3>8. CASE b = Garbled
      <4>1. size \in 1 .. size' - 1
        BY <1>11, <2>1, <2>4, SMT
      <4> QED  BY <3>2, <3>8, <4>1 DEF Spoilt
    <3>9. CASE b = h /\ ~wrong /\ ~Spoilt
      <4>1. m # 0
        <5>1. m = 0 => h = p[1]
          BY <1>3, SMT
        <5>2. m = 0 => IsStart(h)
          BY <1>5, <5>1, Controls
        <5> QED  BY <1>17, <3>9, <5>2
      <4>2. size = m /\ Holds(p)
        BY <1>1, <1>17, <3>9, <4>1
      <4>3. b = PACKET_END <=> m + 1 = Len(p)
        <5>1. m + 1 # Len(p) => m + 1 \in 2 .. Len(p) - 1
          BY <1>3, <1>5, <4>1, SMT
        <5>2. PACKET_END \notin Data
          BY Controls
        <5> QED  BY <1>3, <1>5, <3>9, <5>1, <5>2
      <4>4. \A i \in 0 .. size' - 1 : buf'[i] = p[i + 1]
        <5>1. \A i \in 0 .. size' - 1 : i = size \/ i \in 0 .. size - 1
          BY <1>11, <2>4, SMT
        <5> QED  BY <1>3, <3>2, <3>9, <4>2, <5>1 DEF Holds
      <4>5. Holds(p)'
        BY <1>3, <2>1, <2>4, <4>2, <4>3, <4>4 DEF Holds
      <4> QED  BY <2>4, <4>2, <4>5
    <3> QED  BY <3>6, <3>7, <3>8, <3>9
  <2> QED  BY <2>2, <2>3, <2>4
<1> QED  BY <1>15, <1>16, <1>17

-----------------------------------------------------------------------------
(* What stays.                                                             *)

(* A request at work is not "no request", and answers to two vectors are   *)
(* two answers.                                                            *)
LEMMA Apart ==
    /\ \A x \in Jobs : x # None
    /\ \A v, w : BusyAck(v) # None /\ BusyAck(v) # Restarted
                 /\ (BusyAck(v) = BusyAck(w) => v = w)
<1>1. ASSUME NEW x \in Jobs PROVE x # None
  <2>1. DOMAIN x = {"vec", "n", "members", "sent", "end", "k", "changed",
                    "phase", "call", "yields", "torn", "wrong"}
    BY Zenon DEF Jobs
  <2>2. DOMAIN None = {"kind"}
    BY Zenon DEF None
  <2> QED  BY <2>1, <2>2
<1>2. \A v, w : BusyAck(v) # None /\ BusyAck(v) # Restarted
                /\ (BusyAck(v) = BusyAck(w) => v = w)
  BY SMT DEF BusyAck, None, Restarted
<1> QED  BY <1>1, <1>2

(* The vectors of switches, and those of a dew heater.                     *)
LEMMA Switches ==
    /\ Exclusive \subseteq Vectors /\ Stored \cap Exclusive = {}
    /\ Mode \in Exclusive /\ Config \in Exclusive /\ Mode # Config
    /\ NMembers[Config] = 3
  BY RequestAssumption

(* What is shown when values change.                                       *)
LEMMA BehindType ==
    ASSUME ToldType, NEW x
    PROVE  /\ Behind(x) \in [Vectors -> {"true", "old", "BUSY"}]
           /\ \A v \in Vectors : x[v] = value[v] => Behind(x)[v] = shown[v]
  BY DEF Behind, ToldType

(* A vector that nothing happens to stays quiet; one that becomes news is. *)
LEMMA QuietStays ==
    ASSUME NEW v \in Vectors, Quiet(v),
           value'[v] = value[v], v \in Exclusive => active'[v] = active[v],
           \/ news'[v]
           \/ /\ news[v] => news'[v]
              /\ shown'[v] = shown[v]
              /\ ack' = ack \/ ack' # BusyAck(v)
    PROVE  Quiet(v)'
  BY DEF Quiet, OneOn, On

(* What is known of the request at work.                                   *)
LEMMA AtWork ==
    ASSUME IInv, job # None
    PROVE  /\ job \in Jobs /\ job.k \in 1 .. job.n + 1
           /\ job.n \in Nat /\ job.k \in Nat /\ job.vec \in Vectors
           /\ \A i \in 1 .. job.n : job.members[i] \in 1 .. NMembers[job.vec]
           /\ \A i, j \in 1 .. job.n : i < j => job.members[i] < job.members[j]
           /\ \A i \in 1 .. job.n : job.sent[i] \in Data
           /\ job.members \in Seq(Nat) /\ Len(job.members) = job.n
<1>1. /\ job \in Jobs /\ job.k \in 1 .. job.n + 1
      /\ \A i \in 1 .. job.n : job.members[i] \in 1 .. NMembers[job.vec]
  BY DEF IInv, JobType
<1>2. job.n \in Nat /\ job.k \in Nat /\ job.vec \in Vectors
  BY <1>1, Zenon DEF Jobs
<1>3. Shape
  BY DEF IInv, JobInv
<1>4. job.members \in Seq(Nat) /\ job.sent \in Seq(Data)
  BY <1>1, Zenon DEF Jobs
<1>5. \A i \in 1 .. job.n : job.sent[i] \in Data
  BY <1>3, <1>4, ElementOfSeq DEF Shape
<1> QED  BY <1>1, <1>2, <1>3, <1>4, <1>5 DEF Shape

(* The callback and a request of switches are not interrupted by bytes.    *)
LEMMA SwitchesAsSent ==
    ASSUME IInv, job # None, job.phase = "members", job.vec \in Exclusive
    PROVE  /\ ~job.torn /\ ~job.yields
           /\ \A j \in 1 .. job.n : /\ buf[ValueAt(j)] = job.sent[j]
                                    /\ job.sent[j] \in {0, 1}
           /\ \A j \in 1 .. job.k - 1 : Got(j) = job.sent[j]
<1>1. ReadingInv
  BY DEF IInv, JobInv
<1>2. ~job.torn /\ ~job.yields
  BY <1>1, Switches DEF ReadingInv
<1>3. \A j \in 1 .. job.k - 1 : j \in Exact
  BY <1>2 DEF Exact, Done
<1> QED  BY <1>1, <1>2, <1>3 DEF ReadingInv

-----------------------------------------------------------------------------
(* Steps.                                                                  *)

(* What is not about the job, the answer or the buffer.                    *)
LEMMA Rest ==
    ASSUME IInv
    PROVE  /\ line \in Seq(Bytes) /\ events \in 0 .. MaxEvents
           /\ BufferType /\ ValueType /\ ActiveType /\ ToldType /\ JobType
           /\ Reception /\ Ended
           /\ \A v \in Vectors : (job = None \/ v # job.vec) => Quiet(v)
  BY DEF IInv

(* The items that the first pass accepts.                                  *)
LEMMA Items ==
    ASSUME BufferType, WellFormed
    PROVE  /\ NItems \in Nat /\ size \in Nat /\ size - 1 \in Nat
           /\ \A i \in 1 .. NItems : buf[2 * i] \in Nat /\ buf[2 * i + 1] \in Data
<1>1. /\ size >= 3 /\ size % 2 = 1 /\ \A i \in 2 .. size - 2 : buf[i] \in Data
  BY DEF WellFormed
<1>2. size \in Nat
  BY BufferSize, SMT DEF BufferType
<1>3. NItems \in Nat /\ size = 2 * NItems + 3 /\ size - 1 \in Nat
  BY <1>1, <1>2, SMT DEF NItems
<1> DEFINE n == NItems
<1> HIDE DEF n
<1>4. \A i \in 1 .. n : 2 * i \in 2 .. size - 2 /\ 2 * i + 1 \in 2 .. size - 2
  BY <1>3, SMT DEF n
<1>5. \A i \in 1 .. n : buf[2 * i] \in Data /\ buf[2 * i + 1] \in Data
  BY <1>1, <1>4
<1> QED  BY <1>2, <1>3, <1>5, Numbers DEF n

(* A packet is begun: what the first pass accepts was sent by a client,    *)
(* unless it is wrong.                                                     *)
LEMMA BeginKeeps ==
    ASSUME IInv, Begin
    PROVE  IInv'
<1>1. /\ ready /\ job = None
      /\ line' = line /\ value' = value /\ active' = active /\ saved' = saved
      /\ events' = events /\ shown' = shown
  BY DEF Begin
<1>2. /\ line' \in Seq(Bytes) /\ events' \in 0 .. MaxEvents /\ ValueType' /\ ActiveType'
  BY <1>1, Rest DEF ValueType, ActiveType
<1>3. \A v \in Vectors : Quiet(v)
  BY <1>1, Rest
<1>4. CASE WellFormed
  <2> PICK u : u = buf[1]
    OBVIOUS
  <2> PICK n : n = NItems
    OBVIOUS
  <2> DEFINE e == size - 1
             m == [i \in 1 .. n |-> ItemMember(i)]
             s == [i \in 1 .. n |-> buf[2 * i + 1]]
  <2>1. /\ n \in Nat /\ e \in Nat
        /\ \A i \in 1 .. n : buf[2 * i] \in Nat /\ buf[2 * i + 1] \in Data
        /\ u \in Vectors /\ ItemMember(n) <= NMembers[u]
        /\ \A i \in 1 .. n : IsValue(u, buf[2 * i + 1])
    BY <1>4, Rest, Items DEF WellFormed
  <2>2. /\ job' = [vec |-> u, n |-> n, end |-> e, members |-> m, sent |-> s,
                   k |-> 1, changed |-> {}, phase |-> "members",
                   call |-> FALSE, yields |-> FALSE, torn |-> FALSE, wrong |-> wrong]
        /\ ack' = BusyAck(u)
        /\ size' = 0 /\ ready' = FALSE /\ buf' = buf /\ news' = news /\ wrong' = wrong
    BY <1>4, Zenon DEF Begin
  <2>3. /\ \A j \in 1 .. n : ItemMember(j) \in Nat /\ ItemMember(j) >= 1
        /\ \A i, j \in 1 .. n : i < j => ItemMember(i) < ItemMember(j)
    BY <2>1, Ascend
  <2>4. /\ m \in Seq(Nat) /\ Len(m) = n /\ s \in Seq(Data) /\ Len(s) = n
        /\ \A i \in 1 .. n : m[i] = ItemMember(i) /\ s[i] = buf[2 * i + 1]
    <3>1. m \in [1 .. n -> Nat] /\ s \in [1 .. n -> Data]
      BY <2>1, <2>3
    <3>2. DOMAIN m = 1 .. n /\ DOMAIN s = 1 .. n
      OBVIOUS
    <3>3. \A i \in 1 .. n : m[i] = ItemMember(i) /\ s[i] = buf[2 * i + 1]
      OBVIOUS
    <3> HIDE DEF m, s
    <3>4. m \in Seq(Nat) /\ s \in Seq(Data)
      BY <2>1, <3>1, SeqDef
    <3>5. /\ DOMAIN m = 1 .. Len(m) /\ Len(m) \in Nat
          /\ DOMAIN s = 1 .. Len(s) /\ Len(s) \in Nat
      BY <3>4, LenProperties
    <3>6. Len(m) = n /\ Len(s) = n
      BY <2>1, <3>2, <3>5, SMT
    <3> QED  BY <3>3, <3>4, <3>6
  <2> HIDE DEF e, m, s
  <2>5. /\ job'.vec = u /\ job'.n = n /\ job'.members = m /\ job'.sent = s
        /\ job'.k = 1 /\ job'.changed = {} /\ job'.phase = "members"
        /\ job'.yields = FALSE /\ job'.torn = FALSE /\ job'.wrong = wrong
    BY <2>2
  <2>6. job' \in Jobs
    <3>1. /\ wrong \in BOOLEAN /\ 1 \in Nat /\ {} \in SUBSET Nat
      BY Rest DEF BufferType
    <3> QED  BY <2>1, <2>2, <2>4, <3>1, Zenon DEF Jobs
  <2>7. \A i \in 1 .. n : m[i] \in 1 .. NMembers[u]
    <3> SUFFICES ASSUME NEW i \in 1 .. n PROVE m[i] \in 1 .. NMembers[u]
      OBVIOUS
    <3>1. n \in 1 .. n /\ (i = n \/ i < n)
      BY <2>1, SMT
    <3> DEFINE x == ItemMember(i)
               y == ItemMember(n)
               z == NMembers[u]
    <3>2. /\ x \in Nat /\ x >= 1 /\ y \in Nat /\ (x = y \/ x < y) /\ y <= z
          /\ z \in Int /\ m[i] = x
      BY <2>1, <2>3, <2>4, <3>1, Numbers
    <3> HIDE DEF x, y, z
    <3>3. x \in 1 .. z
      BY <3>2, SMT
    <3> QED  BY <3>2, <3>3 DEF z
  <2>8. JobType'
    <3>1. 1 \in 1 .. n + 1
      BY <2>1, SMT
    <3>2. job'.k \in 1 .. job'.n + 1 /\ \A i \in 1 .. job'.n : job'.members[i] \in 1 .. NMembers[job'.vec]
      BY <2>5, <2>7, <3>1
    <3> QED  BY <2>6, <3>2 DEF JobType
  <2>9. Reception' /\ Ended' /\ BufferType'
    <3>1. 0 \in 0 .. BufSize /\ 0 < BufSize
      BY BufferSize, SMT
    <3> QED  BY <1>1, <2>2, <3>1, Rest, ReceptionStarts DEF BufferType
  <2>10. ToldType'
    BY <1>1, <2>1, <2>2, Rest DEF ToldType
  <2>11. JobInv'
    <3>1. wrong \/ \E r \in Asked : Asks(r)'
      <4> SUFFICES ASSUME ~wrong PROVE \E r \in Asked : Asks(r)'
        OBVIOUS
      <4>1. PICK r \in Asked :
              /\ buf[1] = r.vec /\ NItems = Len(r.members)
              /\ \A j \in 1 .. Len(r.members) :
                    ItemMember(j) = r.members[j] /\ buf[2 * j + 1] = r.values[j]
        BY <1>1, <1>4, Rest, ReadsAsSent
      <4>2. /\ u = r.vec /\ n = Len(r.members)
            /\ \A j \in 1 .. n : m[j] = r.members[j] /\ s[j] = r.values[j]
        BY <2>4, <4>1
      <4>3. r.members \in Seq(Nat) /\ r.values \in Seq(Data) /\ Len(r.values) = n
        BY <4>2, AskedType
      <4>4. m = r.members /\ s = r.values
        BY <2>4, <4>2, <4>3, SeqEqual
      <4> QED  BY <2>5, <4>2, <4>4 DEF Asks
    <3>2. Shape'
      BY <2>3, <2>4, <2>5 DEF Shape
    <3>3. job'.k - 1 = 0 /\ 1 .. 0 = {}
      BY <2>5, SMT
    <3>4. Done' = {} /\ Exact' = {}
      BY <3>3 DEF Done, Exact
    <3>5. u \in Exclusive => \A j \in 1 .. n : s[j] \in {0, 1}
      BY <2>1, <2>4 DEF IsValue
    <3>6. u \in Exclusive => OneOn(u)'
      BY <1>1, <1>3, <2>1 DEF Quiet, OneOn, On
    <3>7. ReadingInv'
      BY <2>2, <2>4, <2>5, <3>4, <3>5, <3>6 DEF ReadingInv, ValueAt
    <3> QED  BY <2>5, <3>1, <3>2, <3>4, <3>7 DEF JobInv
  <2>12. ASSUME NEW v \in Vectors, v # job'.vec PROVE Quiet(v)'
    <3>1. ack' # BusyAck(v)
      BY <2>2, <2>5, <2>12, Apart
    <3> QED  BY <1>1, <1>3, <2>2, <3>1, QuietStays
  <2>13. job' # None
    BY <2>6, Apart
  <2> QED  BY <1>2, <2>8, <2>9, <2>10, <2>11, <2>12, <2>13 DEF IInv
<1>5. CASE ~WellFormed
  <2>1. /\ ResetProtocol /\ job' = job
        /\ ack' = IF buf[0] = PACKET_RESTARTED THEN Restarted ELSE None
    BY <1>5 DEF Begin
  <2>2. /\ buf' = Left(buf, 0) /\ size' = 0 /\ ready' = FALSE /\ wrong' = wrong
        /\ news' = [v \in Vectors |-> TRUE]
    BY <2>1 DEF ResetProtocol
  <2>3. Reception' /\ Ended' /\ BufferType'
    <3>1. 0 \in 0 .. BufSize /\ 0 < BufSize
      BY BufferSize, SMT
    <3>2. Left(buf, 0) \in [0 .. BufSize - 1 -> Bytes]
      BY Rest, LeftType DEF BufferType
    <3> QED  BY <1>1, <2>2, <3>1, <3>2, Rest, ReceptionStarts DEF BufferType
  <2>4. ToldType'
    BY <1>1, <2>1, <2>2, Rest DEF ToldType
  <2>5. JobType' /\ job' = None
    BY <1>1, <2>1 DEF JobType
  <2>6. ASSUME NEW v \in Vectors PROVE Quiet(v)'
    BY <1>1, <1>3, <2>2, QuietStays
  <2> QED  BY <1>2, <2>3, <2>4, <2>5, <2>6 DEF IInv
<1> QED  BY <1>4, <1>5

(* The job is the same, and so is all that its invariant is about.         *)
LEMMA JobStays ==
    ASSUME JobInv, job # None, job' = job, value' = value, active' = active, buf' = buf
    PROVE  JobInv'
<1>1. Exact' = Exact /\ Done' = Done /\ SentOn' = SentOn
  BY DEF Exact, Done, SentOn
<1>2. \A j : Got(j)' = Got(j) /\ ValueAt(j)' = ValueAt(j)
  BY DEF Got, ValueAt
<1>3. \A v : OneOn(v) => OneOn(v)'
  BY DEF OneOn, On
<1>4. AsWanted(active[job.vec]) => AsWanted(active[job.vec])'
  BY <1>1 DEF AsWanted
<1>5. ReadingInv => ReadingInv'
  BY <1>1, <1>2, <1>3 DEF ReadingInv
<1>6. CalledInv => CalledInv'
  BY <1>3, <1>4 DEF CalledInv
<1>7. (\A r : Asks(r) => Asks(r)') /\ Shape'
  BY DEF Asks, Shape, JobInv
<1> QED  BY <1>1, <1>5, <1>6, <1>7 DEF JobInv

(* The driver writes a packet, or stops, or a byte is lost.                *)
LEMMA DriverKeeps ==
    ASSUME IInv, Driver
    PROVE  IInv'
<1>1. /\ buf' = buf /\ size' = size /\ ready' = ready
      /\ value' = value /\ active' = active /\ saved' = saved /\ news' = news
      /\ ack' = ack /\ job' = job /\ shown' = shown
  BY DEF Driver, Send, Cut, Lose, bufVars
<1>2. Reception' /\ line' \in Seq(Bytes) /\ wrong' \in BOOLEAN
  <2>1. CASE Send
    BY <2>1, Rest, NextPacket DEF Send, bufVars, BufferType
  <2>2. CASE Cut
    BY <2>2, Rest, NextPacket DEF Cut, bufVars, BufferType
  <2>3. CASE Lose
    BY <2>3, Rest, LoseReceived DEF Lose
  <2> QED  BY <2>1, <2>2, <2>3 DEF Driver
<1>3. events' \in 0 .. MaxEvents
  <2>1. CASE Cut
    BY <2>1, Rest DEF Cut
  <2>2. CASE Send \/ Lose
    <3>1. events' = events + 1 /\ events < MaxEvents
      BY <2>2 DEF Send, Lose
    <3> QED  BY <3>1, Rest, Numbers, SMT
  <2> QED  BY <2>1, <2>2 DEF Driver
<1>4. BufferType' /\ ValueType' /\ ActiveType' /\ ToldType' /\ JobType' /\ Ended'
  BY <1>1, <1>2, Rest DEF BufferType, ValueType, ActiveType, ToldType, JobType, Ended
<1>5. job' # None => JobInv'
  BY <1>1, JobStays DEF IInv
<1>6. \A v \in Vectors : (job' = None \/ v # job'.vec) => Quiet(v)'
  BY <1>1, Rest, QuietStays
<1> QED  BY <1>2, <1>3, <1>4, <1>5, <1>6 DEF IInv

(* The answer is sent, or a vector that is news.                           *)
LEMMA SendingKeeps ==
    ASSUME IInv, SendAck \/ \E w \in Vectors : SendNews(w)
    PROVE  IInv'
<1>1. /\ job = None /\ line' = line /\ buf' = buf /\ size' = size /\ ready' = ready
      /\ wrong' = wrong /\ value' = value /\ active' = active /\ saved' = saved /\ events' = events
      /\ job' = job
  BY DEF SendAck, SendNews, bufVars
<1>2. /\ line' \in Seq(Bytes) /\ events' \in 0 .. MaxEvents
      /\ BufferType' /\ ValueType' /\ ActiveType' /\ JobType'
  BY <1>1, Rest DEF BufferType, ValueType, ActiveType, JobType
<1>3. Reception' /\ Ended'
  BY <1>1, Rest, ReceptionStays
<1>4. \A v \in Vectors : Quiet(v)
  BY <1>1, Rest
<1>5. CASE SendAck
  <2>1. /\ ack' = None /\ news' = news
        /\ shown' = [v \in Vectors |-> IF ack = BusyAck(v) THEN "BUSY" ELSE shown[v]]
    BY <1>5 DEF SendAck
  <2>2. ToldType'
    BY <1>1, <2>1, Rest DEF ToldType
  <2>3. ASSUME NEW v \in Vectors PROVE Quiet(v)'
    BY <1>1, <1>4, <2>1, Apart DEF Quiet, OneOn, On
  <2> QED  BY <1>1, <1>2, <1>3, <2>2, <2>3 DEF IInv
<1>6. ASSUME NEW w \in Vectors, SendNews(w) PROVE IInv'
  <2>1. /\ ack = None /\ ack' = None
        /\ news' = [news EXCEPT ![w] = FALSE]
        /\ shown' = [shown EXCEPT ![w] = "true"]
    BY <1>6 DEF SendNews
  <2>2. ToldType'
    BY <1>1, <2>1, Rest DEF ToldType
  <2>3. ASSUME NEW v \in Vectors PROVE Quiet(v)'
    BY <1>1, <1>4, <2>1, Apart, Rest DEF Quiet, OneOn, On, ToldType
  <2> QED  BY <1>1, <1>2, <1>3, <2>2, <2>3 DEF IInv
<1> QED  BY <1>5, <1>6

(* A byte is received, while no request is at work or over one.            *)
LEMMA ReceiveKeeps ==
    ASSUME IInv, Receive
    PROVE  IInv'
<1>1. /\ value' = value /\ active' = active /\ saved' = saved /\ news' = news
      /\ ack' = ack /\ shown' = shown
      /\ (events' = events \/ (events < MaxEvents /\ events' = events + 1))
      /\ (job # None => job.yields)
      /\ job' = IF job = None THEN None ELSE [job EXCEPT !.torn = TRUE]
  BY DEF Receive
<1>2. Reception' /\ Ended' /\ BufferType' /\ line' \in Seq(Bytes)
  BY Rest, ReceiveReceived
<1>3. events' \in 0 .. MaxEvents /\ ValueType' /\ ActiveType' /\ ToldType'
  <2>1. events' \in 0 .. MaxEvents
    BY <1>1, Rest, Numbers, SMT
  <2> QED  BY <1>1, <2>1, Rest DEF ValueType, ActiveType, ToldType
<1>4. CASE job = None
  <2>1. job' = None /\ JobType'
    BY <1>1, <1>4 DEF JobType
  <2>2. \A v \in Vectors : Quiet(v)'
    BY <1>1, <1>4, Rest, QuietStays
  <2> QED  BY <1>2, <1>3, <2>1, <2>2 DEF IInv
<1>5. CASE job # None
  <2>1. job \in Jobs /\ job' = [job EXCEPT !.torn = TRUE] /\ job.yields
    BY <1>1, <1>5, AtWork
  <2>2. job' \in Jobs
    BY <2>1, Zenon DEF Jobs
  <2>3. /\ job'.vec = job.vec /\ job'.n = job.n /\ job'.members = job.members
        /\ job'.sent = job.sent /\ job'.k = job.k /\ job'.changed = job.changed
        /\ job'.phase = job.phase /\ job'.yields = job.yields /\ job'.torn = TRUE
        /\ job'.wrong = job.wrong
    BY <2>1, Zenon DEF Jobs
  <2>4. JobType'
    BY <1>5, <2>2, <2>3, AtWork DEF JobType
  <2>5. JobInv
    BY <1>5 DEF IInv
  <2>6. JobInv'
    <3>1. Done' = Done /\ SentOn' = SentOn /\ Exact' \subseteq Exact
      BY <2>3 DEF Exact, Done, SentOn
    <3>2. \A j : Got(j)' = Got(j)
      BY <1>1, <2>3 DEF Got
    <3>3. \A v : OneOn(v) => OneOn(v)'
      BY <1>1 DEF OneOn, On
    <3>4. AsWanted(active[job.vec]) => AsWanted(active[job.vec])'
      BY <1>1, <2>3, <3>1 DEF AsWanted
    <3>5. ReadingInv => ReadingInv'
      <4>1. ReadingInv => job.changed # {} /\ job.vec \in Stored
        BY <2>1 DEF ReadingInv
      <4> QED  BY <2>3, <3>1, <3>2, <4>1, Switches DEF ReadingInv
    <3>6. CalledInv => CalledInv'
      BY <1>1, <2>3, <3>3, <3>4 DEF CalledInv
    <3>7. (\A r : Asks(r) => Asks(r)') /\ Shape'
      BY <2>3, <2>5 DEF Asks, Shape, JobInv
    <3> QED  BY <2>3, <2>5, <3>1, <3>5, <3>6, <3>7 DEF JobInv
  <2>7. \A v \in Vectors : v # job'.vec => Quiet(v)'
    BY <1>1, <2>3, Rest, QuietStays
  <2> QED  BY <1>2, <1>3, <2>2, <2>4, <2>6, <2>7, Apart DEF IInv
<1> QED  BY <1>4, <1>5

(* One value of a function is replaced.                                    *)
LEMMA Replaced ==
    ASSUME NEW S, NEW T, NEW f \in [S -> T], NEW a \in S, NEW d \in T
    PROVE  /\ [f EXCEPT ![a] = d] \in [S -> T]
           /\ [f EXCEPT ![a] = d][a] = d
           /\ \A l \in S : l # a => [f EXCEPT ![a] = d][l] = f[l]
  OBVIOUS

(* A member is read.                                                       *)
LEMMA ApplyKeeps ==
    ASSUME IInv, Apply
    PROVE  IInv'
<1> PICK v : v = job.vec
  OBVIOUS
<1> PICK k : k = job.k
  OBVIOUS
<1> PICK i : i = job.members[k]
  OBVIOUS
<1> PICK b : b = buf[ValueAt(k)]
  OBVIOUS
<1>1. /\ job # None /\ job.phase = "members" /\ k <= job.n
      /\ line' = line /\ active' = active /\ saved' = saved /\ ack' = ack /\ events' = events
  BY DEF Apply
<1>2. /\ job \in Jobs /\ job.n \in Nat /\ v \in Vectors
      /\ \A j \in 1 .. job.n : job.members[j] \in 1 .. NMembers[v]
      /\ \A j, l \in 1 .. job.n : j < l => job.members[j] < job.members[l]
      /\ k \in 1 .. job.n + 1
  BY <1>1, AtWork
<1>3. k \in 1 .. job.n /\ k + 1 \in 1 .. job.n + 1 /\ k + 1 \in Nat /\ k + 1 - 1 = k
  BY <1>1, <1>2, SMT
<1>4. JobInv /\ ReadingInv
  BY <1>1 DEF IInv, JobInv
<1>5. /\ line' \in Seq(Bytes) /\ events' \in 0 .. MaxEvents /\ ActiveType'
  BY <1>1, Rest DEF ActiveType
<1>6. CASE ~IsValue(v, b)
  <2>1. Fail /\ value' = value /\ shown' = shown
    BY <1>6 DEF Apply
  <2>2. /\ job' = None /\ buf' = Left(buf, 0) /\ size' = 0 /\ ready' = FALSE
        /\ wrong' = wrong
        /\ news' = [w \in Vectors |-> TRUE]
    BY <2>1 DEF Fail, ResetProtocol
  <2>3. v \notin Exclusive
    <3> SUFFICES ASSUME v \in Exclusive PROVE FALSE
      OBVIOUS
    <3>1. b \in {0, 1}
      BY <1>1, <1>3, SwitchesAsSent
    <3> QED  BY <1>6, <3>1 DEF IsValue
  <2>4. Reception' /\ Ended' /\ BufferType'
    <3>1. 0 \in 0 .. BufSize /\ 0 < BufSize
      BY BufferSize, SMT
    <3>2. Left(buf, 0) \in [0 .. BufSize - 1 -> Bytes]
      BY Rest, LeftType DEF BufferType
    <3> QED  BY <1>1, <2>2, <3>1, <3>2, Rest, ReceptionStarts DEF BufferType
  <2>5. ToldType' /\ ValueType' /\ JobType'
    BY <1>1, <2>1, <2>2, Rest DEF ToldType, ValueType, JobType
  <2>6. ASSUME NEW w \in Vectors PROVE Quiet(w)'
    <3>1. CASE w = v
      BY <2>2, <2>3, <3>1 DEF Quiet
    <3>2. CASE w # v
      BY <1>1, <2>1, <2>2, <3>2, Rest, QuietStays
    <3> QED  BY <3>1, <3>2
  <2> QED  BY <1>5, <2>2, <2>4, <2>5, <2>6 DEF IInv
<1>7. CASE IsValue(v, b)
  <2> DEFINE c == IF value[v][i] # b THEN job.changed \cup {k} ELSE job.changed
             y == value[v][i] # b /\ v \in Stored
  <2>1. /\ value' = [value EXCEPT ![v][i] = b] /\ shown' = Behind(value')
        /\ buf' = buf /\ size' = size /\ ready' = ready /\ wrong' = wrong /\ news' = news
    BY <1>7 DEF Apply, bufVars
  <2>2. job' = [job EXCEPT !.k = k + 1, !.changed = c, !.yields = y]
    BY <1>7 DEF Apply
  <2>3. b \in Data
    <3>1. {0, 1} \subseteq Data
      BY SMT DEF Data
    <3> QED  BY <1>7, <3>1 DEF IsValue
  <2>4. /\ DOMAIN value = Vectors /\ value[v] \in [1 .. NMembers[v] -> Data]
        /\ i \in 1 .. NMembers[v]
    BY <1>2, <1>3, Rest DEF ValueType
  <2>5. /\ DOMAIN value' = Vectors
        /\ \A w \in Vectors : w # v => value'[w] = value[w]
        /\ value'[v] = [value[v] EXCEPT ![i] = b]
    BY <1>2, <2>1, <2>4
  <2>6. /\ value'[v][i] = b /\ value'[v] \in [1 .. NMembers[v] -> Data]
        /\ \A l \in 1 .. NMembers[v] : l # i => value'[v][l] = value[v][l]
    <3> DEFINE f == value[v]
               S == 1 .. NMembers[v]
    <3>1. f \in [S -> Data] /\ i \in S
      BY <2>4
    <3> HIDE DEF f, S
    <3>2. /\ [f EXCEPT ![i] = b] \in [S -> Data] /\ [f EXCEPT ![i] = b][i] = b
          /\ \A l \in S : l # i => [f EXCEPT ![i] = b][l] = f[l]
      BY <2>3, <3>1, Replaced
    <3>3. value'[v] = [f EXCEPT ![i] = b]
      BY <2>5 DEF f
    <3>4. /\ value'[v][i] = b /\ value'[v] \in [S -> Data]
          /\ \A l \in S : l # i => value'[v][l] = f[l]
      BY <3>2, <3>3
    <3> QED  BY <3>4 DEF f, S
  <2>7. ValueType'
    BY <2>5, <2>6, Rest DEF ValueType
  <2>8. BufferType' /\ Reception' /\ Ended'
    BY <1>1, <2>1, Rest, ReceptionStays DEF BufferType
  <2>9. ToldType'
    BY <1>1, <2>1, Rest, BehindType DEF ToldType
  <2> HIDE DEF c, y
  <2>10. /\ job'.vec = v /\ job'.n = job.n /\ job'.members = job.members
         /\ job'.sent = job.sent /\ job'.k = k + 1 /\ job'.changed = c
         /\ job'.phase = job.phase /\ job'.yields = y /\ job'.torn = job.torn
         /\ job'.wrong = job.wrong
    BY <1>2, <2>2, Zenon DEF Jobs
  <2>11. c \subseteq 1 .. k /\ job.changed \subseteq c
         /\ c \in SUBSET Nat /\ job.changed \subseteq 1 .. k - 1
    <3>1. job.changed \subseteq 1 .. k - 1
      BY <1>4 DEF JobInv, Done
    <3>2. k \in 1 .. k /\ 1 .. k - 1 \subseteq 1 .. k /\ 1 .. k \subseteq Nat
      BY <1>3, SMT
    <3> QED  BY <3>1, <3>2 DEF c
  <2>12. job' \in Jobs
    <3>1. y \in BOOLEAN
      BY DEF y
    <3> QED  BY <1>2, <1>3, <2>2, <2>11, <3>1, Zenon DEF Jobs
  <2>13. JobType'
    BY <1>2, <1>3, <2>10, <2>12 DEF JobType
  <2>14. \A j \in 1 .. k - 1 : Got(j)' = Got(j) /\ j \in 1 .. job.n
    <3> SUFFICES ASSUME NEW j \in 1 .. k - 1 PROVE Got(j)' = Got(j) /\ j \in 1 .. job.n
      OBVIOUS
    <3>1. j \in 1 .. job.n /\ j < k
      BY <1>2, <1>3, SMT
    <3>2. job.members[j] < i /\ job.members[j] \in 1 .. NMembers[v]
      BY <1>2, <1>3, <3>1
    <3>3. job.members[j] # i
      <4>1. NMembers[v] \in Int
        BY <1>2, Numbers
      <4> QED  BY <2>4, <3>2, <4>1, SMT
    <3> QED  BY <2>6, <2>10, <3>1, <3>2, <3>3 DEF Got
  <2>15. Got(k)' = b
    BY <2>6, <2>10 DEF Got
  <2>16. ASSUME NEW j \in Exact' PROVE Got(j)' = job'.sent[j]
    <3>1. j \in 1 .. k /\ (~job.torn \/ \A l \in c : j <= l)
      BY <1>3, <2>10 DEF Exact, Done
    <3>2. CASE j = k
      <4>1. ~job.torn
        <5> SUFFICES ASSUME job.torn PROVE FALSE
          OBVIOUS
        <5>1. PICK l \in job.changed : TRUE
          BY <1>4 DEF ReadingInv
        <5>2. k <= l /\ l \in 1 .. k - 1
          BY <2>11, <3>1, <3>2, <5>1
        <5> QED  BY <1>3, <5>2, SMT
      <4>2. b = job.sent[k]
        BY <1>3, <1>4, <4>1 DEF ReadingInv
      <4> QED  BY <2>10, <2>15, <3>2, <4>2
    <3>3. CASE j # k
      <4>1. j \in 1 .. k - 1
        BY <1>3, <3>1, <3>3, SMT
      <4>2. j \in Exact
        BY <2>11, <3>1, <4>1 DEF Exact, Done
      <4> QED  BY <1>4, <2>10, <2>14, <4>1, <4>2 DEF ReadingInv
    <3> QED  BY <3>2, <3>3
  <2>17. ReadingInv'
    <3>1. ~job'.torn => \A j \in 1 .. job'.n : buf'[ValueAt(j)] = job'.sent[j]
      BY <1>4, <2>1, <2>10 DEF ReadingInv
    <3>2. job'.torn \/ job'.yields => job'.changed # {} /\ job'.vec \in Stored
      <4>1. job.torn => job.changed # {} /\ v \in Stored
        BY <1>4 DEF ReadingInv
      <4>2. y => k \in c /\ v \in Stored
        BY DEF y, c
      <4> QED  BY <2>10, <2>11, <4>1, <4>2
    <3>3. (v \in Exclusive /\ c = {}) => OneOn(v)'
      <4> SUFFICES ASSUME v \in Exclusive, c = {} PROVE OneOn(v)'
        OBVIOUS
      <4>1. value[v][i] = b /\ job.changed = {}
        BY DEF c
      <4>2. value'[v] = value[v]
        BY <2>4, <2>5, <4>1
      <4>3. OneOn(v)
        BY <1>4, <4>1 DEF ReadingInv
      <4> QED  BY <1>1, <4>2, <4>3 DEF OneOn, On
    <3>4. v \in Exclusive => \A j \in 1 .. job.n : job.sent[j] \in {0, 1}
      BY <1>4 DEF ReadingInv
    <3> QED  BY <2>10, <2>16, <3>1, <3>2, <3>3, <3>4 DEF ReadingInv
  <2>18. JobInv'
    <3>1. job.wrong \/ \E r \in Asked : Asks(r)
      BY <1>4 DEF JobInv
    <3>2. (job'.wrong \/ \E r \in Asked : Asks(r)') /\ Shape'
      BY <1>4, <2>10, <3>1 DEF Asks, Shape, JobInv
    <3>3. job'.changed \subseteq Done'
      BY <1>3, <2>10, <2>11 DEF Done
    <3> QED  BY <1>1, <2>10, <2>17, <3>2, <3>3 DEF JobInv
  <2>19. ASSUME NEW w \in Vectors, w # job'.vec PROVE Quiet(w)'
    <3>1. w # v /\ Quiet(w)
      BY <2>10, <2>19, Rest
    <3>2. value'[w] = value[w] /\ shown'[w] = shown[w]
      <4>1. value'[w] = value[w]
        BY <2>5, <3>1
      <4>2. Behind(value')[w] = shown[w]
        BY <4>1, Rest, BehindType
      <4> QED  BY <2>1, <4>1, <4>2
    <3> QED  BY <1>1, <2>1, <3>1, <3>2, QuietStays
  <2>20. job' # None
    BY <2>12, Apart
  <2> QED  BY <1>5, <2>7, <2>8, <2>9, <2>13, <2>18, <2>19, <2>20 DEF IInv
<1> QED  BY <1>6, <1>7

-----------------------------------------------------------------------------
(* The member that is on.                                                  *)

(* One of the members that are on stays on; the last one that was set, if  *)
(* it is; when none is, it is not the one that was just turned off, unless *)
(* there is no other.                                                      *)
LEMMA ActiveOneIs ==
    ASSUME NEW N \in Nat, 1 <= N, NEW T \in SUBSET (1 .. N), NEW last
    PROVE  /\ ActiveOne(T, last, N) \in 1 .. N
           /\ T # {} => ActiveOne(T, last, N) \in T
           /\ last \in T => ActiveOne(T, last, N) = last
           /\ (T = {} /\ N > 1) => ActiveOne(T, last, N) # last
<1>1. CASE T = {}
  <2>1. ActiveOne(T, last, N) = IF last = 1 /\ N > 1 THEN 2 ELSE 1
    BY <1>1 DEF ActiveOne
  <2>2. 1 \in 1 .. N /\ (N > 1 => 2 \in 1 .. N)
    BY SMT
  <2>3. 1 # 2
    BY SMT
  <2> QED  BY <1>1, <2>1, <2>2, <2>3
<1>2. CASE T # {}
  <2>1. Min(T) \in T
    <3>1. T \in SUBSET Nat
      BY SMT
    <3>2. \E x \in T : \A y \in T : x =< y
      BY <1>2, <3>1, First
    <3> QED  BY <3>2 DEF Min
  <2> QED  BY <1>2, <2>1 DEF ActiveOne
<1> QED  BY <1>1, <1>2

(* A switch vector of which one member is turned on.                       *)
LEMMA OnlyOne ==
    ASSUME NEW N, NEW x \in [1 .. N -> Data], NEW a \in 1 .. N
    PROVE  Only(x, a) \in [1 .. N -> Data] /\ On(Only(x, a)) = {a}
<1>1. 0 \in Data /\ 1 \in Data /\ 0 # 1
  BY SMT DEF Data
<1> QED  BY <1>1 DEF Only, On

(* When all members of a request of switches are set, the one that stays   *)
(* on is the one that was wanted.                                          *)
LEMMA WantedIs ==
    ASSUME IInv, job # None, job.phase = "members", job.k > job.n,
           job.vec \in Exclusive,
           NEW one, one = ActiveOne(On(value[job.vec]), job.members[1], NMembers[job.vec])
    PROVE  one \in 1 .. NMembers[job.vec] /\ AsWanted(one)
<1> DEFINE v == job.vec
           n == job.n
           m == job.members
           s == job.sent
           N == NMembers[v]
           T == On(value[v])
           last == m[1]
<1>1. /\ n \in Nat /\ job.k \in 1 .. n + 1 /\ v \in Vectors
      /\ \A i \in 1 .. n : m[i] \in 1 .. N
      /\ \A i, j \in 1 .. n : i < j => m[i] < m[j]
      /\ m \in Seq(Nat) /\ Len(m) = n
  BY AtWork
<1>2. N \in Nat /\ 1 <= N /\ value[v] \in [1 .. N -> Data]
  <2>1. N \in Int /\ 1 <= N
    BY <1>1, Numbers
  <2> HIDE DEF N
  <2>2. N \in Nat
    BY <2>1, SMT
  <2> QED  BY <1>1, <2>1, <2>2, Rest DEF ValueType, N
<1>3. \A j \in 1 .. n : s[j] \in {0, 1} /\ value[v][m[j]] = s[j]
  <2>1. job.k - 1 = n
    BY <1>1, SMT
  <2>2. /\ \A j \in 1 .. n : s[j] \in {0, 1}
        /\ \A j \in 1 .. job.k - 1 : Got(j) = s[j]
    BY SwitchesAsSent
  <2> QED  BY <2>1, <2>2 DEF Got
<1>4. T = {i \in 1 .. N : value[v][i] = 1}
  BY <1>2 DEF On
<1>5. SentOn = {m[j] : j \in {i \in 1 .. n : s[i] = 1}}
  BY DEF SentOn
<1>6. /\ one \in 1 .. N
      /\ T # {} => one \in T
      /\ last \in T => one = last
      /\ (T = {} /\ N > 1) => one # last
  <2>1. T \in SUBSET (1 .. N)
    BY <1>4
  <2>2. one = ActiveOne(T, last, N)
    OBVIOUS
  <2> HIDE DEF T, last, N
  <2> QED  BY <1>2, <2>1, <2>2, ActiveOneIs
<1> HIDE DEF n, m, s, N, v, T
<1>7. SentOn \subseteq T
  BY <1>1, <1>3, <1>4, <1>5
<1>8. ASSUME NEW i, SentOn = {i}, i = last \/ n = N PROVE one = i
  <2>1. CASE i = last
    BY <1>6, <1>7, <1>8, <2>1
  <2>2. CASE n = N
    <3>1. m \in [1 .. N -> 1 .. N]
      <4>1. DOMAIN m = 1 .. n /\ m = [j \in DOMAIN m |-> m[j]]
        BY <1>1, LenProperties
      <4> QED  BY <1>1, <2>2, <4>1
    <3>2. \A j \in 1 .. N : m[j] = j
      BY <1>1, <1>2, <2>2, <3>1, AllOfThem
    <3>3. T \subseteq SentOn
      BY <1>3, <1>4, <1>5, <2>2, <3>2
    <3> QED  BY <1>6, <1>7, <1>8, <3>3
  <2> QED  BY <1>8, <2>1, <2>2
<1>9. ASSUME SentOn = {}, n > 0, N > 1 PROVE one # last
  <2>1. 1 \in 1 .. n
    BY <1>1, <1>9, SMT
  <2>2. last \notin T
    <3>1. s[1] # 1
      BY <1>5, <1>9, <2>1
    <3> QED  BY <1>3, <1>4, <2>1, <3>1
  <2> QED  BY <1>6, <1>9, <2>2
<1>10. AsWanted(one)
  BY <1>8, <1>9 DEF AsWanted, n, m, N, v
<1> QED  BY <1>6, <1>10 DEF N, v

(* What is left of the members of a request is the callback.               *)
LEMMA AppliedKeeps ==
    ASSUME IInv, Applied
    PROVE  IInv'
<1> PICK v : v = job.vec
  OBVIOUS
<1> PICK one : one = ActiveOne(On(value[v]), job.members[1], NMembers[v])
  OBVIOUS
<1> PICK sw : sw = (v \in Exclusive /\ job.changed # {})
  OBVIOUS
<1>1. /\ job # None /\ job.phase = "members" /\ job.k > job.n
      /\ line' = line /\ buf' = buf /\ size' = size /\ ready' = ready /\ wrong' = wrong
      /\ ack' = ack /\ events' = events /\ shown' = Behind(value')
  BY DEF Applied, bufVars
<1> DEFINE call == IF v \in Exclusive THEN active' # active ELSE job.changed # {}
           yields == v = Config /\ active' # active /\ active'[v] = Save
<1>2. /\ value' = IF sw THEN [value EXCEPT ![v] = Only(value[v], one)] ELSE value
      /\ active' = IF sw THEN [active EXCEPT ![v] = one] ELSE active
      /\ news' = [news EXCEPT ![v] = news[v] \/ job.changed # {}]
      /\ job' = [job EXCEPT !.phase = "callback", !.call = call, !.yields = yields]
      /\ saved' = IF job'.yields /\ v = Config THEN active[Mode] ELSE saved
  BY DEF Applied
<1>3. /\ job \in Jobs /\ job.n \in Nat /\ v \in Vectors
      /\ \A j \in 1 .. job.n : job.members[j] \in 1 .. NMembers[v]
      /\ job.k \in 1 .. job.n + 1
  BY <1>1, AtWork
<1>4. JobInv /\ ReadingInv
  BY <1>1 DEF IInv, JobInv
<1>5. v \in Exclusive => one \in 1 .. NMembers[v] /\ AsWanted(one)
  BY <1>1, WantedIs
<1>6. /\ DOMAIN value = Vectors /\ value[v] \in [1 .. NMembers[v] -> Data]
      /\ DOMAIN active = Exclusive
  BY <1>3, Rest DEF ValueType, ActiveType
<1>7. /\ DOMAIN value' = Vectors /\ DOMAIN active' = Exclusive
      /\ \A w \in Vectors : w # v => value'[w] = value[w]
      /\ \A w \in Exclusive : w # v => active'[w] = active[w]
      /\ sw => value'[v] = Only(value[v], one) /\ active'[v] = one
      /\ ~sw => value'[v] = value[v] /\ active'[v] = active[v]
  BY <1>2, <1>3, <1>6
<1>8. ValueType'
  <2>1. value'[v] \in [1 .. NMembers[v] -> Data]
    <3>1. sw => one \in 1 .. NMembers[v]
      BY <1>5
    <3>2. \A x \in [1 .. NMembers[v] -> Data], a \in 1 .. NMembers[v] :
             Only(x, a) \in [1 .. NMembers[v] -> Data]
      BY OnlyOne
    <3>3. sw => Only(value[v], one) \in [1 .. NMembers[v] -> Data]
      BY <1>6, <3>1, <3>2
    <3> QED  BY <1>6, <1>7, <3>3
  <2> QED  BY <1>7, <2>1, Rest DEF ValueType
<1>9. ActiveType'
  BY <1>5, <1>7, Rest DEF ActiveType
<1> HIDE DEF call, yields
<1>10. /\ job'.vec = v /\ job'.n = job.n /\ job'.members = job.members
       /\ job'.sent = job.sent /\ job'.k = job.k /\ job'.changed = job.changed
       /\ job'.phase = "callback" /\ job'.yields = yields /\ job'.call = call
       /\ job'.wrong = job.wrong
  BY <1>2, <1>3, Zenon DEF Jobs
<1>11. job' \in Jobs
  <2>1. call \in BOOLEAN /\ yields \in BOOLEAN
    BY DEF call, yields
  <2>2. "callback" \in {"members", "callback"}
    OBVIOUS
  <2> QED  BY <1>2, <1>3, <2>1, <2>2, Zenon DEF Jobs
<1>12. JobType'
  BY <1>3, <1>10, <1>11 DEF JobType
<1>13. ToldType'
  <2>1. saved' \in 0 .. NMembers[Mode]
    <3>1. active[Mode] \in 1 .. NMembers[Mode] /\ NMembers[Mode] \in Int
      BY Rest, Switches, Numbers DEF ActiveType
    <3>2. active[Mode] \in 0 .. NMembers[Mode]
      BY <3>1, SMT
    <3> QED  BY <1>2, <3>2, Rest DEF ToldType
  <2>2. news' \in [Vectors -> BOOLEAN]
    BY <1>2, Rest DEF ToldType
  <2>3. shown' \in [Vectors -> {"true", "old", "BUSY"}]
    BY <1>1, Rest, BehindType
  <2> QED  BY <1>1, <2>1, <2>2, <2>3, Rest DEF ToldType
<1>14. /\ line' \in Seq(Bytes) /\ events' \in 0 .. MaxEvents
       /\ BufferType' /\ Reception' /\ Ended'
  BY <1>1, Rest, ReceptionStays DEF BufferType
<1>15. CalledInv'
  <2> SUFFICES ASSUME v \in Exclusive
               PROVE  On(value'[v]) = {active'[v]} /\ AsWanted(active'[v])
    <3>1. SentOn' = SentOn
      BY <1>10 DEF SentOn
    <3>2. AsWanted(active'[v]) => AsWanted(active[job.vec])'
      BY <1>10, <3>1 DEF AsWanted
    <3>3. On(value'[v]) = {active'[v]} => OneOn(job.vec)'
      BY <1>10 DEF OneOn, On
    <3> QED  BY <1>10, <3>2, <3>3 DEF CalledInv
  <2>1. CASE sw
    BY <1>5, <1>6, <1>7, <2>1, OnlyOne
  <2>2. CASE ~sw
    <3>1. On(value[v]) = {active[v]}
      BY <1>4, <2>2 DEF ReadingInv, OneOn
    <3> DEFINE N == NMembers[v]
               T == On(value[v])
               last == job.members[1]
    <3>2. N \in Nat /\ 1 <= N /\ T \in SUBSET (1 .. N)
      <4>1. N \in Int /\ 1 <= N
        BY <1>3, Numbers
      <4>2. T \in SUBSET (1 .. N)
        BY <1>6 DEF On
      <4> HIDE DEF N, T
      <4> QED  BY <4>1, <4>2, SMT
    <3>3. one = ActiveOne(T, last, N) /\ T = {active[v]}
      BY <3>1
    <3> HIDE DEF N, T, last
    <3>4. T # {} => ActiveOne(T, last, N) \in T
      BY <3>2, ActiveOneIs
    <3>5. one = active[v]
      BY <3>3, <3>4
    <3> QED  BY <1>5, <1>7, <2>2, <3>1, <3>5
  <2> QED  BY <2>1, <2>2
<1>16. JobInv'
  <2>1. job.wrong \/ \E r \in Asked : Asks(r)
    BY <1>4 DEF JobInv
  <2>2. (job'.wrong \/ \E r \in Asked : Asks(r)') /\ Shape'
    BY <1>4, <1>10, <2>1 DEF Asks, Shape, JobInv
  <2>3. job'.changed \subseteq Done'
    BY <1>4, <1>10 DEF JobInv, Done
  <2> QED  BY <1>10, <1>15, <2>2, <2>3 DEF JobInv
<1>17. ASSUME NEW w \in Vectors, w # job'.vec PROVE Quiet(w)'
  <2>1. w # v /\ Quiet(w)
    BY <1>10, <1>17, Rest
  <2>2. value'[w] = value[w] /\ (w \in Exclusive => active'[w] = active[w])
    BY <1>7, <2>1
  <2>3. shown'[w] = shown[w]
    <3>1. Behind(value')[w] = shown[w]
      BY <2>2, Rest, BehindType
    <3> QED  BY <1>1, <3>1
  <2>4. news'[w] = news[w]
    BY <1>2, <2>1, Rest DEF ToldType
  <2> QED  BY <1>1, <2>1, <2>2, <2>3, <2>4, QuietStays
<1>18. job' # None
  BY <1>11, Apart
<1> QED  BY <1>8, <1>9, <1>12, <1>13, <1>14, <1>16, <1>17, <1>18 DEF IInv

(* What is set on: one member of each of some switch vectors; one member   *)
(* of each stays on.                                                       *)
LEMMA SetOnKeeps ==
    ASSUME ValueType, ActiveType, ToldType,
           NEW S, DOMAIN S \subseteq Exclusive,
           \A w \in DOMAIN S : S[w] \in 1 .. NMembers[w], SetOn(S)
    PROVE  /\ ValueType' /\ ActiveType'
           /\ shown' \in [Vectors -> {"true", "old", "BUSY"}]
           /\ \A w \in Exclusive : OneOn(w) => OneOn(w)'
           /\ \A w \in Vectors \ Moved(S) :
                 /\ value'[w] = value[w] /\ shown'[w] = shown[w]
                 /\ w \in Exclusive => active'[w] = active[w]
<1> PICK M : M = Moved(S)
  OBVIOUS
<1>1. /\ value' = [v \in Vectors |-> IF v \in M THEN Only(value[v], S[v]) ELSE value[v]]
      /\ active' = [v \in Exclusive |-> IF v \in M THEN S[v] ELSE active[v]]
      /\ shown' = Behind(value')
  BY DEF SetOn
<1>2. M \subseteq Exclusive /\ \A w \in M : S[w] \in 1 .. NMembers[w]
  BY DEF Moved
<1>3. \A w \in Vectors : IF w \in M THEN value'[w] = Only(value[w], S[w])
                         ELSE value'[w] = value[w]
  BY <1>1
<1>4. \A w \in Exclusive : IF w \in M THEN active'[w] = S[w] ELSE active'[w] = active[w]
  BY <1>1
<1>5. \A w \in M : /\ Only(value[w], S[w]) \in [1 .. NMembers[w] -> Data]
                   /\ On(Only(value[w], S[w])) = {S[w]}
  <2> SUFFICES ASSUME NEW w \in M
               PROVE  /\ Only(value[w], S[w]) \in [1 .. NMembers[w] -> Data]
                      /\ On(Only(value[w], S[w])) = {S[w]}
    OBVIOUS
  <2>1. value[w] \in [1 .. NMembers[w] -> Data] /\ S[w] \in 1 .. NMembers[w]
    BY <1>2, Switches DEF ValueType
  <2> QED  BY <2>1, OnlyOne
<1>6. ValueType'
  BY <1>1, <1>3, <1>5 DEF ValueType
<1>7. ActiveType'
  BY <1>1, <1>2, <1>4 DEF ActiveType
<1>8. shown' \in [Vectors -> {"true", "old", "BUSY"}]
  BY <1>1, BehindType
<1>9. ASSUME NEW w \in Exclusive, OneOn(w) PROVE OneOn(w)'
  <2>1. On(value'[w]) = {active'[w]}
    <3>1. CASE w \in M
      BY <1>3, <1>4, <1>5, <3>1, Switches
    <3>2. CASE w \notin M
      <4>1. value'[w] = value[w] /\ active'[w] = active[w]
        BY <1>3, <1>4, <3>2, Switches
      <4> QED  BY <1>9, <4>1 DEF OneOn
    <3> QED  BY <3>1, <3>2
  <2> QED  BY <2>1 DEF OneOn, On
<1>10. ASSUME NEW w \in Vectors \ M
       PROVE  /\ value'[w] = value[w] /\ shown'[w] = shown[w]
              /\ w \in Exclusive => active'[w] = active[w]
  <2>1. value'[w] = value[w] /\ (w \in Exclusive => active'[w] = active[w])
    BY <1>3, <1>4
  <2>2. Behind(value')[w] = shown[w]
    BY <2>1, BehindType
  <2> QED  BY <1>1, <2>1, <2>2
<1> QED  BY <1>6, <1>7, <1>8, <1>9, <1>10

(* The callback of Config sets it idle, and the mode that was saved.       *)
LEMMA CallbackSetsType ==
    ASSUME ToldType
    PROVE  /\ DOMAIN CallbackSets \subseteq Exclusive
           /\ \A w \in DOMAIN CallbackSets : CallbackSets[w] \in 1 .. NMembers[w]
<1>1. Idle \in 1 .. NMembers[Config]
  BY Switches, SMT DEF Idle
<1>2. saved # 0 => saved \in 1 .. NMembers[Mode]
  <2>1. saved \in 0 .. NMembers[Mode] /\ NMembers[Mode] \in Int
    BY Switches, Numbers DEF ToldType
  <2> QED  BY <2>1, SMT
<1> DEFINE both == [w \in {Config, Mode} |-> IF w = Config THEN Idle ELSE saved]
           idle == [w \in {Config} |-> Idle]
<1>3. CASE CallbackSets = << >>
  <2>1. DOMAIN << >> = {}
    BY SMT
  <2> QED  BY <1>3, <2>1
<1>4. CASE CallbackSets = both /\ saved # 0
  BY <1>1, <1>2, <1>4, Switches
<1>5. CASE CallbackSets = idle
  BY <1>1, <1>5, Switches
<1> QED  BY <1>3, <1>4, <1>5 DEF CallbackSets

(* The callback returns, and the packet ends.                              *)
LEMMA EndKeeps ==
    ASSUME IInv, End
    PROVE  IInv'
<1> PICK S : S = CallbackSets
  OBVIOUS
<1> PICK v : v = job.vec
  OBVIOUS
<1>1. /\ job # None /\ job.phase = "callback" /\ SetOn(S) /\ job' = None
      /\ line' = line /\ saved' = saved /\ ack' = ack /\ events' = events
  BY DEF End, Fail
<1>2. \/ /\ buf' = Left(buf, size) /\ size' = size /\ ready' = ready /\ wrong' = wrong
         /\ news' = [w \in Vectors |-> news[w] \/ w \in Moved(S) \/ w = v]
      \/ /\ buf' = Left(buf, 0) /\ size' = 0 /\ ready' = FALSE /\ wrong' = wrong
         /\ news' = [w \in Vectors |-> TRUE]
  BY DEF End, Fail, ResetProtocol, Resent
<1>3. /\ ValueType' /\ ActiveType'
      /\ shown' \in [Vectors -> {"true", "old", "BUSY"}]
      /\ \A w \in Exclusive : OneOn(w) => OneOn(w)'
      /\ \A w \in Vectors \ Moved(S) :
            /\ value'[w] = value[w] /\ shown'[w] = shown[w]
            /\ w \in Exclusive => active'[w] = active[w]
  <2>1. DOMAIN S \subseteq Exclusive /\ \A w \in DOMAIN S : S[w] \in 1 .. NMembers[w]
    BY Rest, CallbackSetsType
  <2> QED  BY <1>1, <2>1, Rest, SetOnKeeps
<1>4. Reception' /\ Ended' /\ BufferType'
  <2>1. \A n : /\ Left(buf, n) \in [0 .. BufSize - 1 -> Bytes]
               /\ \A i \in 0 .. BufSize - 1 : i < n => Left(buf, n)[i] = buf[i]
    BY Rest, LeftType DEF BufferType
  <2>2. CASE buf' = Left(buf, size) /\ size' = size /\ ready' = ready /\ wrong' = wrong
    BY <1>1, <2>1, <2>2, Rest, ReceptionStays DEF BufferType
  <2>3. CASE buf' = Left(buf, 0) /\ size' = 0 /\ ready' = FALSE /\ wrong' = wrong
    <3>1. 0 \in 0 .. BufSize /\ 0 < BufSize
      BY BufferSize, SMT
    <3> QED  BY <1>1, <2>1, <2>3, <3>1, Rest, ReceptionStarts DEF BufferType
  <2> QED  BY <1>2, <2>2, <2>3
<1>5. ToldType'
  <2>1. news' \in [Vectors -> BOOLEAN]
    BY <1>2, Rest DEF ToldType
  <2> QED  BY <1>1, <1>3, <2>1, Rest DEF ToldType
<1>6. JobType'
  BY <1>1 DEF JobType
<1>7. line' \in Seq(Bytes) /\ events' \in 0 .. MaxEvents
  BY <1>1, Rest
<1>8. ASSUME NEW w \in Vectors PROVE Quiet(w)'
  <2>1. w \in Exclusive => OneOn(w)'
    <3> SUFFICES ASSUME w \in Exclusive PROVE OneOn(w)
      BY <1>3
    <3>1. CASE w = v
      <4>1. CalledInv
        BY <1>1 DEF IInv, JobInv
      <4> QED  BY <3>1, <4>1 DEF CalledInv
    <3>2. CASE w # v
      BY <3>2, Rest DEF Quiet
    <3> QED  BY <3>1, <3>2
  <2>2. CASE news'[w]
    BY <2>1, <2>2 DEF Quiet
  <2>3. CASE ~news'[w]
    <3>1. w # v /\ w \notin Moved(S) /\ ~news[w]
      BY <1>2, <2>3
    <3>2. shown[w] = "true" /\ ack # BusyAck(w)
      BY <3>1, Rest DEF Quiet
    <3>3. shown'[w] = "true" /\ ack' # BusyAck(w)
      BY <1>1, <1>3, <3>1, <3>2
    <3> QED  BY <2>1, <3>3 DEF Quiet, BusyAck
  <2> QED  BY <2>2, <2>3
<1> QED  BY <1>1, <1>3, <1>4, <1>5, <1>6, <1>7, <1>8 DEF IInv

(* The mode that was saved for a sensor is loaded.                         *)
LEMMA ScanKeeps ==
    ASSUME IInv, Scan
    PROVE  IInv'
<1> PICK S : S = [w \in {Mode} |-> saved]
  OBVIOUS
<1>1. /\ job = None /\ saved # 0 /\ SetOn(S)
      /\ news' = [w \in Vectors |-> news[w] \/ w \in Moved(S)]
      /\ line' = line /\ buf' = buf /\ size' = size /\ ready' = ready /\ wrong' = wrong
      /\ saved' = saved /\ ack' = ack /\ job' = job /\ events' = events
  BY DEF Scan, bufVars
<1>2. /\ ValueType' /\ ActiveType'
      /\ shown' \in [Vectors -> {"true", "old", "BUSY"}]
      /\ \A w \in Exclusive : OneOn(w) => OneOn(w)'
      /\ \A w \in Vectors \ Moved(S) :
            /\ value'[w] = value[w] /\ shown'[w] = shown[w]
            /\ w \in Exclusive => active'[w] = active[w]
  <2>1. saved \in 1 .. NMembers[Mode]
    <3>1. saved \in 0 .. NMembers[Mode] /\ NMembers[Mode] \in Int
      BY Switches, Numbers, Rest DEF ToldType
    <3> QED  BY <1>1, <3>1, SMT
  <2>2. DOMAIN S \subseteq Exclusive /\ \A w \in DOMAIN S : S[w] \in 1 .. NMembers[w]
    BY <2>1, Switches
  <2> QED  BY <1>1, <2>2, Rest, SetOnKeeps
<1>3. /\ line' \in Seq(Bytes) /\ events' \in 0 .. MaxEvents
      /\ BufferType' /\ Reception' /\ Ended' /\ JobType'
  BY <1>1, Rest, ReceptionStays DEF BufferType, JobType
<1>4. ToldType'
  <2>1. news' \in [Vectors -> BOOLEAN]
    BY <1>1, Rest DEF ToldType
  <2> QED  BY <1>1, <1>2, <2>1, Rest DEF ToldType
<1>5. ASSUME NEW w \in Vectors PROVE Quiet(w)'
  <2>1. Quiet(w)
    BY <1>1, Rest
  <2>2. w \in Exclusive => OneOn(w)'
    BY <1>2, <2>1 DEF Quiet
  <2>3. CASE news'[w]
    BY <2>2, <2>3 DEF Quiet
  <2>4. CASE ~news'[w]
    <3>1. w \notin Moved(S) /\ ~news[w]
      BY <1>1, <2>4
    <3>2. shown[w] = "true" /\ ack # BusyAck(w)
      BY <2>1, <3>1 DEF Quiet
    <3>3. shown'[w] = "true" /\ ack' # BusyAck(w)
      BY <1>1, <1>2, <3>1, <3>2
    <3> QED  BY <2>2, <3>3 DEF Quiet, BusyAck
  <2> QED  BY <2>3, <2>4
<1> QED  BY <1>1, <1>2, <1>3, <1>4, <1>5 DEF IInv

-----------------------------------------------------------------------------
(* The invariant.                                                          *)

LEMMA Starts == Init => IInv
<1> SUFFICES ASSUME Init PROVE IInv
  OBVIOUS
<1>1. /\ line = << >> /\ buf = [i \in 0 .. BufSize - 1 |-> 0] /\ size = 0 /\ ready = FALSE
      /\ wrong = FALSE
      /\ value = [v \in Vectors |->
                     IF v \in Exclusive THEN Only([i \in 1 .. NMembers[v] |-> 0], 1)
                     ELSE [i \in 1 .. NMembers[v] |-> 0]]
      /\ active = [v \in Exclusive |-> 1]
      /\ saved = 0 /\ news = [v \in Vectors |-> TRUE]
      /\ ack = None /\ job = None /\ events = 0
      /\ shown = [v \in Vectors |-> "old"]
  BY DEF Init
<1>2. /\ line \in Seq(Bytes) /\ events \in 0 .. MaxEvents
      /\ BufferType
  <2>1. 0 \in 0 .. BufSize /\ 0 < BufSize /\ 0 \in 0 .. MaxEvents
    BY BufferSize, Numbers, SMT
  <2>2. 0 \in Bytes
    BY SMT DEF Bytes, Data
  <2> HIDE DEF Bytes
  <2> QED  BY <1>1, <2>1, <2>2, EmptySeq DEF BufferType
<1>3. \A v \in Vectors : 1 \in 1 .. NMembers[v]
  <2> SUFFICES ASSUME NEW v \in Vectors PROVE 1 \in 1 .. NMembers[v]
    OBVIOUS
  <2> DEFINE N == NMembers[v]
  <2>1. N \in Int /\ 1 <= N
    BY Numbers
  <2> HIDE DEF N
  <2>2. 1 \in 1 .. N
    BY <2>1, SMT
  <2> QED  BY <2>2 DEF N
<1> DEFINE none(v) == [i \in 1 .. NMembers[v] |-> 0]
<1>4. \A v \in Vectors : none(v) \in [1 .. NMembers[v] -> Data]
  <2>1. 0 \in Data
    BY SMT DEF Data
  <2> QED  BY <2>1
<1> HIDE DEF none
<1>5. ASSUME NEW v \in Vectors
      PROVE  /\ Only(none(v), 1) \in [1 .. NMembers[v] -> Data]
             /\ On(Only(none(v), 1)) = {1}
  BY <1>3, <1>4, OnlyOne
<1>6. \A v \in Vectors : value[v] = IF v \in Exclusive THEN Only(none(v), 1) ELSE none(v)
  BY <1>1 DEF none
<1>7. ValueType
  BY <1>1, <1>4, <1>5, <1>6 DEF ValueType
<1>8. ActiveType
  BY <1>1, <1>3, Switches DEF ActiveType
<1>9. ToldType
  <2>1. 0 \in 0 .. NMembers[Mode]
    <3>1. NMembers[Mode] \in Int /\ 1 <= NMembers[Mode]
      BY Switches, Numbers
    <3> QED  BY <3>1, SMT
  <2> QED  BY <1>1, <2>1 DEF ToldType
<1>10. Reception /\ Ended
  <2>1. FromDriver(<< >>, 0) /\ 0 \in 0 .. Len(<< >>)
    BY <1>1, EmptySeq, SMT DEF FromDriver
  <2> QED  BY <1>1, <2>1 DEF Reception, Ended
<1>11. ASSUME NEW v \in Vectors PROVE Quiet(v)
  BY <1>1, <1>5, <1>6 DEF Quiet, OneOn
<1> QED  BY <1>1, <1>2, <1>7, <1>8, <1>9, <1>10, <1>11 DEF IInv, JobType

LEMMA StepKeeps == IInv /\ [Next]_vars => IInv'
<1> SUFFICES ASSUME IInv, [Next]_vars PROVE IInv'
  OBVIOUS
<1>1. CASE Receive
  BY <1>1, ReceiveKeeps
<1>2. CASE Begin
  BY <1>2, BeginKeeps
<1>3. CASE Apply
  BY <1>3, ApplyKeeps
<1>4. CASE Applied
  BY <1>4, AppliedKeeps
<1>5. CASE End
  BY <1>5, EndKeeps
<1>6. CASE Scan
  BY <1>6, ScanKeeps
<1>7. CASE SendAck \/ \E v \in Vectors : SendNews(v)
  BY <1>7, SendingKeeps
<1>8. CASE Driver
  BY <1>8, DriverKeeps
<1>9. CASE UNCHANGED vars
  <2>1. /\ line' = line /\ buf' = buf /\ size' = size /\ ready' = ready /\ wrong' = wrong
        /\ value' = value /\ active' = active /\ saved' = saved /\ news' = news
        /\ ack' = ack /\ job' = job /\ events' = events /\ shown' = shown
    BY <1>9 DEF vars, bufVars
  <2>2. /\ line' \in Seq(Bytes) /\ events' \in 0 .. MaxEvents
        /\ BufferType' /\ ValueType' /\ ActiveType' /\ ToldType' /\ JobType'
    BY <2>1, Rest DEF BufferType, ValueType, ActiveType, ToldType, JobType
  <2>3. Reception' /\ Ended'
    BY <2>1, Rest, ReceptionStays
  <2>4. job' # None => JobInv'
    BY <2>1, JobStays DEF IInv
  <2>5. \A v \in Vectors : (job' = None \/ v # job'.vec) => Quiet(v)'
    BY <2>1, Rest, QuietStays
  <2> QED  BY <2>2, <2>3, <2>4, <2>5 DEF IInv
<1> QED  BY <1>1, <1>2, <1>3, <1>4, <1>5, <1>6, <1>7, <1>8, <1>9 DEF Next, Device

(* In every state what was received is the beginning of a packet of the    *)
(* driver, followed by what is on the line, unless a byte of it was lost   *)
(* or garbled; the request at work is one that a client sent, or a byte of *)
(* it became another one that may stand there, and its values are those    *)
(* that were received, as far as nothing came over them; the vectors that  *)
(* are not at work have one member on and are told or due                  *)
(* (IndiProtocol::tick, doUpdate, received, fillBuffer).                   *)
THEOREM Invariance == Spec => []IInv
<1>1. Init => IInv
  BY Starts
<1>2. IInv /\ [Next]_vars => IInv'
  BY StepKeeps
<1> QED  BY <1>1, <1>2, PTL DEF Spec

(* The state has its type: the buffer is never overrun, a member that is   *)
(* applied is one of its vector.                                           *)
THEOREM TypeCorrect == Spec => []TypeOK
<1>1. IInv => TypeOK
  BY DEF IInv, TypeOK, BufferType, ValueType, ActiveType, ToldType, JobType
<1> QED  BY <1>1, Invariance, PTL

(* What IndiProtocol::doUpdate applies, up to and with the first member    *)
(* that was saved to the EEPROM, are the bytes that were in the packet     *)
(* when it was complete; and that is what a client asked for, unless a     *)
(* byte of this packet was lost or became another one that may stand       *)
(* there: nothing that was cut, lost or garbled before gets into it.       *)
THEOREM ReadsWhatWasAsked == Spec => []ExactUntilSaved
<1>1. IInv => ExactUntilSaved
  <2> SUFFICES ASSUME IInv, job # None, job.phase = "members"
               PROVE  /\ \A j \in Exact : Got(j) = job.sent[j]
                      /\ job.wrong \/ \E r \in Asked : Is(r, Exact)
    BY DEF ExactUntilSaved
  <2>1. JobInv /\ ReadingInv
    BY DEF IInv, JobInv
  <2>2. ASSUME NEW r \in Asked, Asks(r) PROVE Is(r, Exact)
    BY <2>1, <2>2 DEF Is, Asks, ReadingInv
  <2> QED  BY <2>1, <2>2 DEF JobInv, ReadingInv
<1> QED  BY <1>1, Invariance, PTL

(* One member of each switch vector is on between two ticks, after any     *)
(* requests, callbacks and failures, and refreshActiveOne keeps the one    *)
(* that was wanted.                                                        *)
THEOREM OneSwitchIsOn == Spec => []OneIsOn
<1>1. IInv => OneIsOn
  <2>1. ASSUME IInv, job = None, NEW v \in Exclusive PROVE On(value[v]) = {active[v]}
    BY <2>1, Rest, Switches DEF Quiet, OneOn
  <2>2. ASSUME IInv, job # None, job.phase = "callback", job.vec \in Exclusive
        PROVE  AsWanted(active[job.vec])
    BY <2>2 DEF IInv, JobInv, CalledInv
  <2> QED  BY <2>1, <2>2 DEF OneIsOn
<1> QED  BY <1>1, Invariance, PTL

(* Between two ticks a vector whose value the driver does not have, or     *)
(* that it shows or will show BUSY, is dirty.                              *)
THEOREM WhatChangedIsTold == Spec => []ToldOrDue
<1>1. IInv => ToldOrDue
  BY Rest DEF ToldOrDue, Quiet
<1> QED  BY <1>1, Invariance, PTL
=============================================================================
