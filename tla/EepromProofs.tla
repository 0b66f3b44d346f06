------------------------------ MODULE EepromProofs ------------------------------
(***************************************************************************)
(* Proofs about the EEPROM store, for any size of the EEPROM, any marker,  *)
(* any firmwares and any places that fullRewrite draws: what is at rest is *)
(* found again, a power cut damages one value, and the counter is not      *)
(* behind the writes of any item.                                          *)
(***************************************************************************)
EXTENDS EepromStored, Arithmetic, FiniteSetTheorems, SequenceTheorems

-----------------------------------------------------------------------------
\* The records of the items g at the places p are apart, behind the marker.
Apart(g, p) ==
    /\ \A a \in DOMAIN g : Start <= p[a] /\ p[a] + HeadSize + g[a] <= Length
    /\ \A a, b \in DOMAIN g :
          a # b => p[a] + HeadSize + g[a] <= p[b] \/ p[b] + HeadSize + g[b] <= p[a]

\* They are in the cells m, with zeros between them.
Holds(m, g, p) ==
    /\ IsValid(m)
    /\ \A a \in DOMAIN g : /\ m[p[a]] = PackHead(a, g[a])
                           /\ \A i \in 1 .. g[a] : m[p[a] + i] \in Bytes
    /\ \A c \in Start .. Length - 1 :
          (\A a \in DOMAIN g : c \notin Extent(p[a], g[a])) => m[c] = 0

\* The value of item a of firmware f, one of the items r, is in the cells m.
Keeps(m, p, f, r, a) == \A i \in 1 .. f[a] : m[p[a] + i] = r[a].value[i]

\* The counter in the cells m.
CountAt(m, p) == m[p[Counter] + 1] + Base * m[p[Counter] + 2]

\* It tells the writes of any item, unless it was cut.
Counts(m, p) ==
    (~cut /\ CountAt(m, p) < MaxCount) => \A a \in Addrs : wear[a] <= CountAt(m, p)

Placed(g) == [DOMAIN g -> Cells]

\* The records are where the items write them, whatever part of the job was
\* done; what is being written is one item, and maybe the counter.
ReadyInv(g, p) ==
    /\ Apart(g, p)
    /\ \A n \in 0 .. Len(job) : Holds(Written(n), g, p)
    /\ \A a \in Items : a \in DOMAIN g /\ g[a] = fw[a] /\ item[a].pos = p[a]
    /\ \A a \in Items : Keeps(Complete, p, fw, item, a)
    /\ \E a \in Items : \A b \in Items \ {a, Counter} :
          \A n \in 0 .. Len(job) : Keeps(Written(n), p, fw, item, b)

\* Before everything is written again, the EEPROM has the records of an
\* earlier time, or nothing is read from it.
StaleInv ==
    \/ mem = Blank
    \/ \E g \in Firmwares : \E p \in Placed(g) :
          Apart(g, p) /\ Holds(mem, g, p) /\ Counts(mem, p)

\* While everything is written again, the marker is broken until the end.
ItemPlaces == [a \in Items |-> item[a].pos]
RewriteInv ==
    /\ job # << >>
    /\ Apart(fw, ItemPlaces) /\ Holds(Complete, fw, ItemPlaces)
    /\ \A a \in Items : Keeps(Complete, ItemPlaces, fw, item, a)
    /\ \A n \in 1 .. Len(job) : IsValid(Written(n)) => Written(n) = Complete
    /\ item[Counter].value = Zeros(2)

LevelInv ==
    /\ \A a \in Items : item[a].level <= highest
    /\ highest < Base - 1
    /\ phase # "ready" => highest = 0

\* The level of an item, which starts at 0 in a boot.
Level(a) == IF a \in Items THEN item[a].level ELSE 0

WearInv ==
    (phase = "ready" /\ ~cut /\ Count < MaxCount) =>
        \A a \in Addrs : wear[a] + highest <= Count + Level(a)

IInv ==
    /\ TypeOK /\ LevelInv /\ WearInv
    /\ phase = "boot" => job = << >>
    /\ phase # "ready" => StaleInv
    /\ phase = "rewrite" => RewriteInv
    /\ phase = "ready" => \E g \in Firmwares : \E p \in Placed(g) : ReadyInv(g, p)

-----------------------------------------------------------------------------
(* What is assumed of the EEPROM and of a firmware.                        *)
LEMMA Numbers ==
    /\ Base \in Nat /\ Base > 1 /\ Length \in Nat /\ MaxSize \in Nat /\ MaxWear \in Nat
    /\ Start \in Nat /\ Start >= 1 /\ HeadSize = 1 /\ Counter = 1
    /\ \A i \in 1 .. Start : Marker[i] \in Bytes /\ Marker[i] # 0
    /\ 0 \in Bytes /\ Bytes \subseteq Contents
<1>1. /\ Base \in Nat /\ Base > 1 /\ Length \in Nat /\ MaxSize \in Nat /\ MaxWear \in Nat
      /\ Marker \in Seq(Bytes \ {0}) /\ Marker # << >>
  BY StoreAssumption
<1>2. Start \in Nat
  BY <1>1, LenProperties DEF Start
<1>3. Start # 0
  BY <1>1, EmptySeq DEF Start
<1>4. \A i \in 1 .. Start : Marker[i] \in Bytes \ {0}
  BY <1>1, ElementOfSeq DEF Start
<1>5. 0 \in Bytes /\ Bytes \subseteq Contents
  BY <1>1, SMT DEF Bytes, Contents
<1> QED  BY <1>1, <1>2, <1>3, <1>4, <1>5, SMT DEF HeadSize, Counter

LEMMA FirmwareIs ==
    ASSUME NEW f \in Firmwares
    PROVE  /\ Counter \in DOMAIN f /\ f[Counter] = 2
           /\ DOMAIN f \subseteq Addrs /\ IsFiniteSet(DOMAIN f)
           /\ \A a \in DOMAIN f : /\ a \in Nat /\ a > 0 /\ f[a] \in Nat
                                  /\ f[a] > 0 /\ f[a] <= MaxSize /\ f[a] \in 1 .. MaxSize
           /\ Start <= Length /\ Length >= 1 /\ 0 \in Cells /\ MaxSize >= 2
<1>1. /\ Counter \in DOMAIN f /\ f[Counter] = 2 /\ IsFiniteSet(DOMAIN f)
      /\ \A a \in DOMAIN f : a \in Nat \ {0} /\ f[a] \in 1 .. MaxSize
      /\ Required(f) \in 0 .. Length - Start
  BY StoreAssumption
<1>2. DOMAIN f \subseteq Addrs
  BY DEF Addrs
<1>3. \A a \in DOMAIN f : /\ a \in Nat /\ a > 0 /\ f[a] \in Nat
                          /\ f[a] > 0 /\ f[a] <= MaxSize
  BY <1>1, Numbers, SMT
<1>4. 0 .. Length - Start # {}
  BY <1>1
<1>5. Start <= Length
  BY <1>4, Numbers, SMT
<1>6. Length >= 1 /\ 0 \in Cells
  BY <1>5, Numbers, SMT DEF Cells
<1>7. MaxSize >= 2
  BY <1>1, <1>3
<1> QED  BY <1>1, <1>2, <1>3, <1>5, <1>6, <1>7

LEMMA AddrType == \A a \in Addrs : a \in Nat /\ a > 0
  BY FirmwareIs DEF Addrs

(* A head tells the address and the size that it was made of.              *)
LEMMA PackHeadIs ==
    ASSUME NEW a \in Nat, a > 0, NEW n \in 1 .. MaxSize
    PROVE  /\ HeadAddr(PackHead(a, n)) = a /\ HeadSizeOf(PackHead(a, n)) = n
           /\ PackHead(a, n) \in Nat /\ PackHead(a, n) > 0
<1> DEFINE q == a - 1
           r == n - 1
<1>1. MaxSize \in Nat \ {0} /\ q \in Nat /\ r \in 0 .. MaxSize - 1
  BY Numbers, SMT
<1>2. q \in Int
  BY <1>1, SMT
<1>3. (q * MaxSize + r) \div MaxSize = q /\ (q * MaxSize + r) % MaxSize = r
  <2> HIDE DEF q, r
  <2> QED  BY <1>1, <1>2, Division
<1> DEFINE u == q * MaxSize
<1>4. u \in Nat
  <2> HIDE DEF q
  <2> QED  BY <1>1, SMT
<1>5. PackHead(a, n) = u + n
  BY DEF PackHead
<1> HIDE DEF u
<1>6. PackHead(a, n) \in Nat /\ PackHead(a, n) > 0
  BY <1>4, <1>5, SMT
<1>7. HeadAddr(PackHead(a, n)) = q + 1 /\ HeadSizeOf(PackHead(a, n)) = r + 1
  <2>1. PackHead(a, n) - 1 = u + r
    BY <1>4, <1>5, SMT
  <2>2. PackHead(a, n) - 1 = q * MaxSize + r
    BY <2>1 DEF u
  <2> HIDE DEF q, r
  <2> QED  BY <1>3, <2>2 DEF HeadAddr, HeadSizeOf
<1> QED  BY <1>6, <1>7, SMT

LEMMA HeadInCells ==
    ASSUME NEW f \in Firmwares, NEW a \in DOMAIN f
    PROVE  /\ PackHead(a, f[a]) \in Contents /\ PackHead(a, f[a]) # 0
           /\ HeadAddr(PackHead(a, f[a])) = a /\ HeadSizeOf(PackHead(a, f[a])) = f[a]
<1>1. a \in Addrs /\ a \in Nat /\ a > 0 /\ f[a] \in 1 .. MaxSize
  BY FirmwareIs
<1>2. PackHead(a, f[a]) \in Contents
  BY <1>1 DEF Contents
<1> QED  BY <1>1, <1>2, PackHeadIs

(* Any cell, read as a head, tells a size.                                 *)
LEMMA SizeType ==
    ASSUME NEW f \in Firmwares, NEW h \in Contents
    PROVE  h \in Nat /\ HeadSizeOf(h) \in Nat
<1>1. h \in Nat
  BY AddrType, PackHeadIs, Numbers DEF Contents, Bytes
<1>2. MaxSize \in Nat /\ MaxSize > 0
  BY FirmwareIs, Numbers
<1>3. (h - 1) % MaxSize \in Nat
  BY <1>1, <1>2, SMT
<1> QED  BY <1>1, <1>3, SMT DEF HeadSizeOf

(* The two bytes of the counter.                                           *)
LEMMA CountIs ==
    ASSUME NEW n \in 0 .. MaxCount
    PROVE  /\ Len(CountBytes(n)) = 2 /\ CountBytes(n) \in [1 .. 2 -> Bytes]
           /\ CountOf(CountBytes(n)) = n
<1> DEFINE q == n \div Base
           r == n % Base
           u == Base * q
           s == Base * Base
<1>1. Base \in Nat \ {0} /\ n \in Int /\ s \in Nat
  BY Numbers, SMT DEF MaxCount
<1>2. r \in 0 .. Base - 1 /\ q \in Int
  BY <1>1, SMT
<1>3. n = u + r
  <2>1. r = n - u
    BY <1>1, SMT
  <2>2. u \in Int
    <3> HIDE DEF q
    <3> QED  BY <1>1, <1>2, SMT
  <2> HIDE DEF r, u
  <2> QED  BY <1>1, <1>2, <2>1, <2>2, SMT
<1>4. n >= 0 /\ n < s
  BY <1>1, SMT DEF MaxCount
<1> HIDE DEF q, r
<1>5. q >= 0
  <2> SUFFICES ASSUME q <= -1 PROVE FALSE
    BY <1>2, SMT
  <2>1. u <= -Base
    BY <1>1, <1>2, SMT
  <2>2. u \in Int
    BY <1>1, <1>2, SMT
  <2> HIDE DEF u
  <2> QED  BY <1>1, <1>2, <1>3, <1>4, <2>1, <2>2, SMT
<1>6. q <= Base - 1
  <2> SUFFICES ASSUME q >= Base PROVE FALSE
    BY <1>1, <1>2, SMT
  <2>1. u >= s
    BY <1>1, <1>2, SMT
  <2>2. u \in Int
    BY <1>1, <1>2, SMT
  <2> HIDE DEF u, s
  <2> QED  BY <1>1, <1>2, <1>3, <1>4, <2>1, <2>2, SMT
<1>7. q \in Bytes /\ r \in Bytes
  BY <1>1, <1>2, <1>5, <1>6, SMT DEF Bytes
<1>8. CountBytes(n) = <<r, q>>
  BY DEF CountBytes, q, r
<1>9. u \in Int
  BY <1>1, <1>2, SMT
<1>10. CountOf(<<r, q>>) = r + u
  BY DEF CountOf
<1> HIDE DEF u
<1>11. r + u = n
  BY <1>2, <1>3, <1>9, SMT
<1>12. <<r, q>> \in [1 .. 2 -> Bytes] /\ Len(<<r, q>>) = 2
  BY <1>7, SMT
<1> QED  BY <1>8, <1>10, <1>11, <1>12

LEMMA CountType ==
    ASSUME NEW v, v[1] \in Bytes, v[2] \in Bytes
    PROVE  CountOf(v) \in 0 .. MaxCount
<1> DEFINE x == v[1]
           y == v[2]
           u == Base * y
           s == Base * Base
<1>1. Base \in Nat /\ Base > 1 /\ x \in 0 .. Base - 1 /\ y \in 0 .. Base - 1
  BY Numbers DEF Bytes
<1>2. CountOf(v) = x + u
  BY DEF CountOf
<1> HIDE DEF x, y
<1>3. u >= 0 /\ u <= s - Base /\ u \in Int /\ s \in Int
  <2>1. u \in Int /\ s \in Int /\ u >= 0
    BY <1>1, SMT
  <2> DEFINE k == Base - 1 - y
  <2>2. k \in Nat
    BY <1>1, SMT
  <2>3. Base * k >= 0
    <3> HIDE DEF k
    <3> QED  BY <1>1, <2>2, SMT
  <2>4. Base * k = s - Base - u
    BY <1>1, SMT
  <2> HIDE DEF k, u, s
  <2> QED  BY <1>1, <2>1, <2>3, <2>4, SMT
<1>4. MaxCount = s - 1
  BY DEF MaxCount
<1> HIDE DEF u, s
<1> QED  BY <1>1, <1>2, <1>3, <1>4, SMT

-----------------------------------------------------------------------------
(* Writing cells.                                                          *)

(* A set of numbers up to n has a last one.                                *)
LEMMA MaxIs ==
    ASSUME NEW n \in Nat, NEW T \in SUBSET (0 .. n), T # {}
    PROVE  Max(T) \in T /\ \A x \in T : x <= Max(T)
<1> DEFINE U == {n - x : x \in T}
<1>1. U \in SUBSET Nat /\ U # {}
  <2>1. \A x \in T : n - x \in Nat
    BY SMT
  <2> QED  BY <2>1
<1>2. PICK u \in U : \A y \in U : u <= y
  BY <1>1, First
<1>3. PICK m \in T : u = n - m
  BY <1>2
<1>4. \A x \in T : n - m <= n - x
  BY <1>2, <1>3
<1>5. \A x \in T : m >= x
  BY <1>4, SMT
<1>6. Max(T) \in T /\ \A x \in T : Max(T) >= x
  BY <1>5 DEF Max
<1> QED  BY <1>6, SMT

(* A cell has what was written there last, or what it had.                 *)
LEMMA AfterIs ==
    ASSUME NEW m, NEW w, NEW n \in Nat, NEW c \in Cells
    PROVE  /\ (\A i \in 1 .. n : w[i].pos # c) => After(m, w, n)[c] = m[c]
           /\ \A i \in 1 .. n :
                 (w[i].pos = c /\ \A j \in i + 1 .. n : w[j].pos # c)
                 => After(m, w, n)[c] = w[i].val
           /\ \/ After(m, w, n)[c] = m[c]
              \/ \E i \in 1 .. n : w[i].pos = c /\ After(m, w, n)[c] = w[i].val
<1> DEFINE T == {i \in 1 .. n : w[i].pos = c}
<1>1. After(m, w, n)[c] = IF T = {} THEN m[c] ELSE w[Max(T)].val
  BY DEF After
<1>2. T # {} => Max(T) \in T /\ \A x \in T : x <= Max(T)
  <2>1. T \in SUBSET (0 .. n)
    BY SMT
  <2> HIDE DEF T
  <2> QED  BY <2>1, MaxIs
<1>3. ASSUME NEW i \in 1 .. n, w[i].pos = c, \A j \in i + 1 .. n : w[j].pos # c
      PROVE  Max(T) = i /\ T # {}
  <2>1. i \in T
    BY <1>3
  <2>2. Max(T) \in 1 .. n /\ w[Max(T)].pos = c /\ i <= Max(T)
    BY <1>2, <2>1
  <2>3. Max(T) \notin i + 1 .. n
    BY <1>3, <2>2
  <2> HIDE DEF T
  <2> QED  BY <2>1, <2>2, <2>3, SMT
<1> QED  BY <1>1, <1>2, <1>3

LEMMA AfterDomain == \A m, w, n : DOMAIN After(m, w, n) = Cells
  BY DEF After

LEMMA AfterNothing ==
    ASSUME NEW m \in [Cells -> Contents], NEW w
    PROVE  After(m, w, 0) = m
<1>1. \A c \in Cells : After(m, w, 0)[c] = m[c]
  BY AfterIs, SMT
<1>2. After(m, w, 0) = [c \in Cells |-> After(m, w, 0)[c]]
  BY DEF After
<1> QED  BY <1>1, <1>2

Writes == Seq([pos : Cells, val : Contents])

LEMMA AfterType ==
    ASSUME NEW m \in [Cells -> Contents], NEW w \in Writes, NEW n \in 0 .. Len(w)
    PROVE  After(m, w, n) \in [Cells -> Contents]
<1>1. n \in Nat /\ \A i \in 1 .. n : i \in 1 .. Len(w)
  BY LenProperties, SMT DEF Writes
<1>2. \A i \in 1 .. n : w[i].val \in Contents
  <2>1. \A i \in 1 .. n : w[i] \in [pos : Cells, val : Contents]
    BY <1>1, ElementOfSeq DEF Writes
  <2> QED  BY <2>1
<1>3. \A c \in Cells : After(m, w, n)[c] \in Contents
  BY <1>1, <1>2, AfterIs
<1>4. After(m, w, n) = [c \in Cells |-> After(m, w, n)[c]]
  BY DEF After
<1> QED  BY <1>3, <1>4

-----------------------------------------------------------------------------
(* Records that are apart.                                                 *)
LEMMA PlaceIs ==
    ASSUME NEW g \in Firmwares, NEW p \in Placed(g), Apart(g, p), NEW a \in DOMAIN g
    PROVE  /\ p[a] \in Cells /\ p[a] \in Nat /\ p[a] >= Start /\ p[a] >= 1
           /\ g[a] \in Nat /\ g[a] > 0 /\ p[a] + 1 + g[a] <= Length
           /\ \A i \in 0 .. g[a] : p[a] + i \in Cells /\ p[a] + i >= Start
<1>1. p[a] \in Cells
  BY DEF Placed
<1>2. g[a] \in Nat /\ g[a] > 0
  BY FirmwareIs
<1>3. Start <= p[a] /\ p[a] + 1 + g[a] <= Length
  BY Numbers DEF Apart
<1> QED  BY <1>1, <1>2, <1>3, Numbers, SMT DEF Cells

LEMMA Disjoint ==
    ASSUME NEW g \in Firmwares, NEW p \in Placed(g), Apart(g, p),
           NEW a \in DOMAIN g, NEW b \in DOMAIN g, a # b
    PROVE  /\ p[a] + 1 + g[a] <= p[b] \/ p[b] + 1 + g[b] <= p[a]
           /\ \A i \in 0 .. g[a], j \in 0 .. g[b] : p[a] + i # p[b] + j
<1>1. p[a] + 1 + g[a] <= p[b] \/ p[b] + 1 + g[b] <= p[a]
  BY Numbers DEF Apart
<1>2. p[a] \in Nat /\ p[b] \in Nat /\ g[a] \in Nat /\ g[b] \in Nat
  BY PlaceIs
<1> QED  BY <1>1, <1>2, SMT

(* The cells of a record.                                                  *)
LEMMA ExtentIs ==
    ASSUME NEW p \in Nat, NEW n \in Nat, NEW c \in Int
    PROVE  c \in Extent(p, n) <=> c - p \in 0 .. n
  BY Numbers, SMT DEF Extent

(* What a cell behind the marker holds: zero outside records, the head of  *)
(* a record at its place.                                                  *)
LEMMA CellIs ==
    ASSUME NEW g \in Firmwares, NEW p \in Placed(g), Apart(g, p),
           NEW m \in [Cells -> Contents], Holds(m, g, p)
    PROVE  /\ \A a \in DOMAIN g : m[p[a]] # 0 /\ HeadAddr(m[p[a]]) = a
                                  /\ HeadSizeOf(m[p[a]]) = g[a]
           /\ \A q \in Start .. Length - 1 :
                 m[q] = 0 \/ \E a \in DOMAIN g : p[a] <= q /\ q < p[a] + 1 + g[a]
<1>1. \A a \in DOMAIN g : m[p[a]] = PackHead(a, g[a])
  BY DEF Holds
<1>2. ASSUME NEW q \in Start .. Length - 1, m[q] # 0
      PROVE  \E a \in DOMAIN g : p[a] <= q /\ q < p[a] + 1 + g[a]
  <2>1. PICK a \in DOMAIN g : q \in Extent(p[a], g[a])
    BY <1>2 DEF Holds
  <2>2. p[a] \in Nat /\ g[a] \in Nat /\ q \in Int
    BY PlaceIs, Numbers, SMT
  <2>3. p[a] <= q /\ q < p[a] + 1 + g[a]
    BY <2>1, <2>2, ExtentIs, SMT
  <2> QED  BY <2>3
<1> QED  BY <1>1, <1>2, HeadInCells

-----------------------------------------------------------------------------
(* The scan of findPos.                                                    *)

\* Where the scan for item a is after k turns: not inside a record, not
\* behind that of a, and as far as k unless it stays.
Scanned(m, g, p, a, k, q) ==
    /\ q \in Nat /\ Start <= q /\ q <= Length
    /\ \A b \in DOMAIN g : q <= p[b] \/ p[b] + 1 + g[b] <= q
    /\ a \in DOMAIN g => q <= p[a]
    /\ \/ q >= Length - 1 \/ q >= k
       \/ a \in DOMAIN g /\ q = p[a]

LEMMA TurnKeeps ==
    ASSUME NEW g \in Firmwares, NEW p \in Placed(g), Apart(g, p),
           NEW m \in [Cells -> Contents], Holds(m, g, p),
           NEW a, NEW k \in Nat, NEW q, Scanned(m, g, p, a, k, q)
    PROVE  Scanned(m, g, p, a, k + 1, Turn(m, a, q))
<1>1. /\ q \in Nat /\ Start <= q /\ q <= Length /\ Length \in Nat /\ Start \in Nat
      /\ \A b \in DOMAIN g : q <= p[b] \/ p[b] + 1 + g[b] <= q
      /\ a \in DOMAIN g => q <= p[a]
      /\ q >= Length - 1 \/ q >= k \/ (a \in DOMAIN g /\ q = p[a])
  BY Numbers DEF Scanned
<1>2. \A b \in DOMAIN g : /\ p[b] \in Nat /\ g[b] \in Nat /\ g[b] > 0
                          /\ p[b] + 1 + g[b] <= Length
  BY PlaceIs
<1>3. \A b \in DOMAIN g : m[p[b]] # 0 /\ HeadAddr(m[p[b]]) = b /\ HeadSizeOf(m[p[b]]) = g[b]
  BY CellIs
<1>4. CASE q >= Length - 1
  <2>1. Turn(m, a, q) = q
    BY <1>4, Numbers DEF Turn
  <2> QED  BY <1>1, <1>4, <2>1 DEF Scanned
<1>5. CASE ~(q >= Length - 1) /\ m[q] = 0
  <2>1. Turn(m, a, q) = q + 1
    BY <1>5, Numbers DEF Turn
  <2>2. \A b \in DOMAIN g : q # p[b]
    BY <1>3, <1>5
  <2>3. q + 1 \in Nat /\ Start <= q + 1 /\ q + 1 <= Length
    BY <1>1, <1>5, SMT
  <2>4. \A b \in DOMAIN g : q + 1 <= p[b] \/ p[b] + 1 + g[b] <= q + 1
    BY <1>1, <1>2, <2>2, SMT
  <2>5. a \in DOMAIN g => q + 1 <= p[a]
    BY <1>1, <1>2, <2>2, SMT
  <2>6. q + 1 >= k + 1
    BY <1>1, <1>5, <2>2, SMT
  <2> QED  BY <2>1, <2>3, <2>4, <2>5, <2>6 DEF Scanned
<1>6. CASE ~(q >= Length - 1) /\ m[q] # 0
  <2>1. q \in Start .. Length - 1
    BY <1>1, <1>6, SMT
  <2>2. PICK b \in DOMAIN g : p[b] <= q /\ q < p[b] + 1 + g[b]
    BY <1>6, <2>1, CellIs
  <2>3. q = p[b]
    <3>1. q <= p[b] \/ p[b] + 1 + g[b] <= q
      BY <1>1
    <3> QED  BY <1>1, <1>2, <2>2, <3>1, SMT
  <2>4. CASE b = a
    <3>1. HeadAddr(m[q]) = a
      BY <1>3, <2>3, <2>4
    <3>2. Turn(m, a, q) = q
      BY <1>6, <3>1, Numbers DEF Turn
    <3> QED  BY <1>1, <2>3, <2>4, <3>2 DEF Scanned
  <2>5. CASE b # a
    <3> DEFINE e == p[b] + 1 + g[b]
    <3>1. HeadAddr(m[q]) = b /\ HeadSizeOf(m[q]) = g[b]
      BY <1>3, <2>3
    <3>2. Turn(m, a, q) = e
      BY <1>6, <2>3, <2>5, <3>1, Numbers DEF Turn
    <3>3. e \in Nat /\ Start <= e /\ e <= Length /\ q < e
      BY <1>1, <1>2, <2>2, SMT
    <3>4. ASSUME NEW c \in DOMAIN g PROVE e <= p[c] \/ p[c] + 1 + g[c] <= e
      <4>1. CASE c = b
        BY <1>2, <4>1, SMT
      <4>2. CASE c # b
        <5>1. e <= p[c] \/ p[c] + 1 + g[c] <= p[b]
          BY <4>2, Disjoint
        <5> QED  BY <1>2, <5>1, SMT
      <4> QED  BY <4>1, <4>2
    <3>5. a \in DOMAIN g => e <= p[a]
      <4> SUFFICES ASSUME a \in DOMAIN g PROVE e <= p[a]
        OBVIOUS
      <4>1. e <= p[a] \/ p[a] + 1 + g[a] <= p[b]
        BY <2>5, Disjoint
      <4>2. p[b] <= p[a]
        BY <1>1, <2>3
      <4> QED  BY <1>2, <4>1, <4>2, SMT
    <3>6. e >= k + 1
      <4>1. ~(a \in DOMAIN g /\ q = p[a])
        BY <1>3, <2>3, <2>5
      <4>2. q >= k
        BY <1>1, <1>6, <4>1
      <4> QED  BY <1>1, <3>3, <4>2, SMT
    <3> HIDE DEF e
    <3> QED  BY <3>2, <3>3, <3>4, <3>5, <3>6 DEF Scanned
  <2> QED  BY <2>4, <2>5
<1> QED  BY <1>4, <1>5, <1>6

LEMMA TurnType ==
    ASSUME NEW f \in Firmwares, NEW m \in [Cells -> Contents], NEW a, NEW q \in Nat
    PROVE  Turn(m, a, q) \in Nat
<1>1. CASE q >= Length - 1
  BY <1>1, Numbers DEF Turn
<1>2. CASE ~(q >= Length - 1)
  <2>1. q \in Cells
    BY <1>2, Numbers, SMT DEF Cells
  <2>2. HeadSizeOf(m[q]) \in Nat
    BY <2>1, SizeType
  <2>3. q + 1 \in Nat /\ q + 1 + HeadSizeOf(m[q]) \in Nat
    BY <2>2, SMT
  <2> QED  BY <2>3, Numbers DEF Turn
<1> QED  BY <1>1, <1>2

(* The turns of findPos.                                                   *)
LEMMA FindPosSteps ==
    ASSUME NEW f \in Firmwares, NEW m \in [Cells -> Contents], NEW a
    PROVE  \E at \in [0 .. Length -> Nat] :
              /\ at[0] = Start
              /\ \A k \in 1 .. Length : at[k] = Turn(m, a, at[k - 1])
              /\ FindPos(m, a) = IF at[Length] >= Length - 1 THEN 0 ELSE at[Length]
<1> DEFINE n == Length
           G == [i \in 1 .. n |-> [y \in Nat |-> Turn(m, a, y)]]
           Steps(h) == [k \in 0 .. n |-> IF k = 0 THEN Start ELSE Turn(m, a, h[k - 1])]
<1>1. n \in Nat /\ Start \in Nat
  BY Numbers
<1>2. G \in [1 .. n -> [Nat -> Nat]]
  BY TurnType
<1>3. PICK h \in [0 .. n -> Nat] : h[0] = Start /\ \A i \in 1 .. n : h[i] = G[i][h[i - 1]]
  <2> HIDE DEF G, n
  <2>1. Runs(n, Nat, Start, G) # {}
    BY <1>1, <1>2, Recursion
  <2> QED  BY <2>1 DEF Runs
<1> HIDE DEF n
<1>4. \A i \in 1 .. n : i - 1 \in 0 .. n
  BY <1>1, SMT
<1>5. \A i \in 1 .. n : h[i] = Turn(m, a, h[i - 1])
  BY <1>3, <1>4
<1>6. h = Steps(h)
  <2>1. \A i \in 0 .. n : h[i] = Steps(h)[i]
    BY <1>1, <1>3, <1>5, SMT
  <2> QED  BY <1>3, <2>1
<1> DEFINE g == CHOOSE x : x = Steps(x)
<1>7. g = Steps(g)
  BY <1>6
<1>8. FindPos(m, a) = IF g[n] >= n - 1 THEN 0 ELSE g[n]
  BY Numbers DEF FindPos, n
<1> HIDE DEF g
<1>9. g[0] = Start /\ \A i \in 1 .. n : g[i] = Turn(m, a, g[i - 1])
  BY <1>1, <1>7, SMT
<1>10. \A i \in 0 .. n : g[i] \in Nat
  <2> DEFINE P == {i \in 0 .. n : g[i] \in Nat}
  <2>1. 0 \in P
    BY <1>1, <1>9, SMT
  <2>2. ASSUME NEW i \in 0 .. n - 1, i \in P PROVE i + 1 \in P
    <3>1. i + 1 \in 1 .. n /\ i + 1 \in 0 .. n /\ i + 1 - 1 = i
      BY <1>1, SMT
    <3>2. g[i + 1] = Turn(m, a, g[i])
      BY <1>9, <3>1
    <3> QED  BY <2>2, <3>1, <3>2, TurnType
  <2> HIDE DEF P
  <2>3. \A i \in 0 .. n : i \in P
    BY <1>1, <2>1, <2>2, Induction
  <2> QED  BY <2>3 DEF P
<1>11. g \in [0 .. n -> Nat]
  BY <1>7, <1>10
<1> QED  BY <1>8, <1>9, <1>11 DEF n

(* findPos finds the record of an item, wherever it is and whatever is     *)
(* before it, and finds nothing if there is none.                          *)
LEMMA FindPosIs ==
    ASSUME NEW g \in Firmwares, NEW p \in Placed(g), Apart(g, p),
           NEW m \in [Cells -> Contents], Holds(m, g, p), NEW a
    PROVE  FindPos(m, a) = IF a \in DOMAIN g THEN p[a] ELSE 0
<1>1. PICK at \in [0 .. Length -> Nat] :
         /\ at[0] = Start
         /\ \A k \in 1 .. Length : at[k] = Turn(m, a, at[k - 1])
         /\ FindPos(m, a) = IF at[Length] >= Length - 1 THEN 0 ELSE at[Length]
  BY FindPosSteps
<1> DEFINE P == {k \in 0 .. Length : Scanned(m, g, p, a, k, at[k])}
<1>2. Length \in Nat /\ Start \in Nat
  BY Numbers
<1>3. 0 \in P
  <2>1. Start <= Length /\ \A b \in DOMAIN g : Start <= p[b]
    BY FirmwareIs, PlaceIs
  <2>2. Scanned(m, g, p, a, 0, Start)
    BY <1>2, <2>1 DEF Scanned
  <2>3. 0 \in 0 .. Length
    BY <1>2, SMT
  <2> QED  BY <1>1, <2>2, <2>3
<1>4. ASSUME NEW k \in 0 .. Length - 1, k \in P PROVE k + 1 \in P
  <2>1. k \in Nat /\ k + 1 \in 1 .. Length /\ k + 1 \in 0 .. Length /\ k + 1 - 1 = k
    BY <1>2, SMT
  <2>2. at[k + 1] = Turn(m, a, at[k])
    BY <1>1, <2>1
  <2>3. Scanned(m, g, p, a, k + 1, Turn(m, a, at[k]))
    BY <1>4, <2>1, TurnKeeps
  <2> QED  BY <2>1, <2>2, <2>3
<1>5. Scanned(m, g, p, a, Length, at[Length])
  <2> HIDE DEF P
  <2>1. \A k \in 0 .. Length : k \in P
    BY <1>2, <1>3, <1>4, Induction
  <2>2. Length \in P
    BY <1>2, <2>1, SMT
  <2> QED  BY <2>2 DEF P
<1> DEFINE q == at[Length]
<1>6. /\ q \in Nat /\ q <= Length
      /\ a \in DOMAIN g => q <= p[a]
      /\ q >= Length - 1 \/ q >= Length \/ (a \in DOMAIN g /\ q = p[a])
  BY <1>5 DEF Scanned
<1>7. FindPos(m, a) = IF q >= Length - 1 THEN 0 ELSE q
  BY <1>1
<1> HIDE DEF q
<1>8. CASE a \in DOMAIN g
  <2>1. p[a] \in Nat /\ g[a] \in Nat /\ g[a] > 0 /\ p[a] + 1 + g[a] <= Length
    BY <1>8, PlaceIs
  <2>2. ~(q >= Length - 1) /\ q = p[a]
    BY <1>2, <1>6, <1>8, <2>1, SMT
  <2> QED  BY <1>7, <1>8, <2>2
<1>9. CASE a \notin DOMAIN g
  <2>1. q >= Length - 1
    BY <1>2, <1>6, <1>9, SMT
  <2> QED  BY <1>7, <1>9, <2>1
<1> QED  BY <1>8, <1>9

-----------------------------------------------------------------------------
(* Reading.                                                                *)

(* What is read at the place of a record.                                  *)
LEMMA StoredIs ==
    ASSUME NEW g \in Firmwares, NEW p \in Placed(g), Apart(g, p),
           NEW m \in [Cells -> Contents], Holds(m, g, p), NEW a \in DOMAIN g
    PROVE  /\ Stored(m, p[a]) \in Seq(Bytes) /\ Len(Stored(m, p[a])) = g[a]
           /\ Stored(m, p[a]) \in [1 .. g[a] -> Bytes]
           /\ \A i \in 1 .. g[a] : Stored(m, p[a])[i] = m[p[a] + i]
<1> DEFINE n == g[a]
           k == p[a]
           s == Stored(m, k)
<1>1. n \in Nat /\ k \in Nat /\ HeadSizeOf(m[k]) = n
  BY PlaceIs, CellIs
<1>2. \A i \in 1 .. n : m[k + i] \in Bytes
  BY DEF Holds
<1> HIDE DEF n, k
<1>3. \A i \in 1 .. n : k + HeadSize + i - 1 = k + i
  BY <1>1, Numbers, SMT
<1>4. s = [i \in 1 .. n |-> m[k + HeadSize + i - 1]]
  BY <1>1 DEF Stored
<1> HIDE DEF s
<1>5. \A i \in 1 .. n : s[i] = m[k + i]
  BY <1>3, <1>4
<1>6. s \in [1 .. n -> Bytes]
  BY <1>2, <1>4, <1>5
<1>7. s \in Seq(Bytes) /\ Len(s) = n
  BY <1>1, <1>6, IsASeq, LenProperties
<1> QED  BY <1>5, <1>6, <1>7 DEF s, n, k

LEMMA ZerosType == \A n \in Nat : Zeros(n) \in [1 .. n -> Bytes]
  BY Numbers DEF Zeros

LEMMA DecodedIs ==
    ASSUME NEW bytes \in Seq(Bytes), NEW n \in Nat, NEW taken
    PROVE  /\ Decoded(bytes, n, taken) \in [1 .. n -> Bytes]
           /\ Len(bytes) = n => \A i \in 1 .. n : Decoded(bytes, n, taken)[i] = bytes[i]
<1> DEFINE t == [i \in 1 .. n |-> IF i <= Len(bytes) THEN bytes[i] ELSE 0]
           k == Len(bytes)
<1>1. k \in Nat /\ \A i \in 1 .. k : bytes[i] \in Bytes
  BY ElementOfSeq, LenProperties
<1> HIDE DEF k
<1>2. \A i \in 1 .. n : i <= k => i \in 1 .. k
  BY <1>1, SMT
<1>3. \A i \in 1 .. n : t[i] = IF i <= k THEN bytes[i] ELSE 0
  BY DEF k
<1>4. t \in [1 .. n -> Bytes]
  <2>1. \A i \in 1 .. n : t[i] \in Bytes
    BY <1>1, <1>2, <1>3, Numbers
  <2> QED  BY <2>1
<1>5. k = n => \A i \in 1 .. n : t[i] = bytes[i]
  <2>1. \A i \in 1 .. n : i <= n
    BY SMT
  <2> QED  BY <1>3, <2>1
<1> HIDE DEF t
<1>6. Decoded(bytes, n, taken) = IF k = n \/ taken THEN t ELSE Zeros(n)
  BY DEF Decoded, t, k
<1> QED  BY <1>4, <1>5, <1>6, ZerosType DEF k

ItemType(n) == [pos : Cells, value : [1 .. n -> Bytes], level : Bytes]

LEMMA ReadIs ==
    ASSUME NEW g \in Firmwares, NEW p \in Placed(g), Apart(g, p),
           NEW m \in [Cells -> Contents], Holds(m, g, p),
           NEW f \in Firmwares, NEW taken, NEW a \in DOMAIN f
    PROVE  LET r == Read(m, f, taken)[a]
           IN  /\ r \in ItemType(f[a]) /\ r.level = 0
               /\ r.pos = IF a \in DOMAIN g THEN p[a] ELSE 0
               /\ (a \in DOMAIN g /\ g[a] = f[a]) =>
                     \A i \in 1 .. f[a] : r.value[i] = m[p[a] + i]
<1> DEFINE q == IF a \in DOMAIN g THEN p[a] ELSE 0
           v == IF q = 0 THEN Zeros(f[a]) ELSE Decoded(Stored(m, q), f[a], a \in taken)
           r == [pos |-> q, level |-> 0, value |-> v]
<1>1. Found(m, f, a) = q
  BY FindPosIs DEF Found, Holds
<1>2. Read(m, f, taken)[a] = r
  BY <1>1 DEF Read
<1>3. f[a] \in Nat /\ 0 \in Cells /\ 0 \in Bytes
  BY FirmwareIs, Numbers
<1>4. q \in Cells /\ v \in [1 .. f[a] -> Bytes] /\
      ((a \in DOMAIN g /\ g[a] = f[a]) => \A i \in 1 .. f[a] : v[i] = m[p[a] + i])
  <2>1. CASE a \in DOMAIN g
    <3>1. q = p[a] /\ q \in Cells /\ q # 0
      BY <2>1, PlaceIs, SMT
    <3>2. v = Decoded(Stored(m, p[a]), f[a], a \in taken)
      BY <3>1
    <3>3. /\ Stored(m, p[a]) \in Seq(Bytes) /\ Len(Stored(m, p[a])) = g[a]
          /\ \A i \in 1 .. g[a] : Stored(m, p[a])[i] = m[p[a] + i]
      BY <2>1, StoredIs
    <3> HIDE DEF v, q
    <3>4. /\ v \in [1 .. f[a] -> Bytes]
          /\ g[a] = f[a] => \A i \in 1 .. f[a] : v[i] = Stored(m, p[a])[i]
      BY <1>3, <3>2, <3>3, DecodedIs
    <3> QED  BY <3>1, <3>3, <3>4
  <2>2. CASE a \notin DOMAIN g
    <3>1. q = 0 /\ v = Zeros(f[a])
      BY <2>2
    <3> QED  BY <1>3, <2>2, <3>1, ZerosType
  <2> QED  BY <2>1, <2>2
<1> HIDE DEF q, v
<1>5. r \in ItemType(f[a]) /\ r.level = 0 /\ r.pos = q /\ r.value = v
  BY <1>3, <1>4, Zenon DEF ItemType
<1> HIDE DEF r
<1> QED  BY <1>2, <1>4, <1>5 DEF q

(* Behind a broken marker nothing is found.                                *)
LEMMA ReadNothing ==
    ASSUME NEW m, ~IsValid(m), NEW f \in Firmwares, NEW taken, NEW a \in DOMAIN f
    PROVE  LET r == Read(m, f, taken)[a]
           IN  r \in ItemType(f[a]) /\ r.level = 0 /\ r.pos = 0
<1> DEFINE z == Zeros(f[a])
           r == [pos |-> 0, level |-> 0, value |-> z]
<1>1. Read(m, f, taken)[a] = r
  BY DEF Read, Found
<1>2. z \in [1 .. f[a] -> Bytes] /\ 0 \in Cells /\ 0 \in Bytes
  BY FirmwareIs, ZerosType, Numbers
<1> HIDE DEF z
<1>3. r \in ItemType(f[a]) /\ r.level = 0 /\ r.pos = 0
  BY <1>2, Zenon DEF ItemType
<1> HIDE DEF r
<1> QED  BY <1>1, <1>3

LEMMA BlankIs ==
    ASSUME NEW f \in Firmwares
    PROVE  Blank \in [Cells -> Contents] /\ ~IsValid(Blank)
<1>1. Blank \in [Cells -> Contents]
  BY Numbers DEF Blank
<1>2. 1 \in 1 .. Start /\ 1 - 1 = 0 /\ 0 \in Cells
  BY FirmwareIs, Numbers, SMT
<1>3. Blank[1 - 1] = 0 /\ Marker[1] # 0
  BY <1>2, Numbers DEF Blank
<1>4. ~IsValid(Blank)
  BY <1>2, <1>3 DEF IsValid
<1> QED  BY <1>1, <1>4

(* If nothing has to be written again, every item has its record.          *)
LEMMA NothingNeeded ==
    ASSUME NEW g \in Firmwares, NEW p \in Placed(g), Apart(g, p),
           NEW m \in [Cells -> Contents], Holds(m, g, p),
           NEW f \in Firmwares, NEW taken, ~NeedRewrite(m, f, Read(m, f, taken))
    PROVE  \A a \in DOMAIN f : /\ a \in DOMAIN g /\ g[a] = f[a]
                               /\ Read(m, f, taken)[a].pos = p[a]
<1> SUFFICES ASSUME NEW a \in DOMAIN f
             PROVE  /\ a \in DOMAIN g /\ g[a] = f[a] /\ Read(m, f, taken)[a].pos = p[a]
  OBVIOUS
<1> DEFINE r == Read(m, f, taken)[a]
<1>1. r.pos = IF a \in DOMAIN g THEN p[a] ELSE 0
  BY ReadIs
<1>2. r.pos # 0 /\ HeadSizeOf(m[r.pos]) = f[a]
  BY DEF NeedRewrite
<1> HIDE DEF r
<1>3. a \in DOMAIN g /\ r.pos = p[a]
  BY <1>1, <1>2
<1>4. HeadSizeOf(m[p[a]]) = g[a]
  BY <1>3, CellIs
<1> QED  BY <1>2, <1>3, <1>4 DEF r

-----------------------------------------------------------------------------
(* Starting with an EEPROM.                                                *)

(* Nothing is being written, and the items are as the records say.         *)
LEMMA RestIsReady ==
    ASSUME NEW g \in Firmwares, NEW p \in Placed(g), Apart(g, p),
           NEW m \in [Cells -> Contents], Holds(m, g, p),
           mem' = m, job' = << >>, fw' \in Firmwares,
           \A a \in DOMAIN fw' :
              /\ a \in DOMAIN g /\ g[a] = fw'[a] /\ item'[a].pos = p[a]
              /\ \A i \in 1 .. fw'[a] : m[p[a] + i] = item'[a].value[i]
    PROVE  ReadyInv(g, p)'
<1>1. Len(job') = 0
  BY EmptySeq
<1>2. After(mem', job', 0) = m
  BY AfterNothing
<1>3. \A n \in 0 .. Len(job') : n = 0
  BY <1>1, SMT
<1>4. Complete' = m
  BY <1>1, <1>2 DEF Complete, Written
<1>5. \A n \in 0 .. Len(job') : After(mem', job', n) = m
  BY <1>2, <1>3
<1>6. \A n \in 0 .. Len(job') : Holds(After(mem', job', n), g, p)
  BY <1>5
<1>7. \A a \in DOMAIN fw' : Keeps(m, p, fw', item', a)
  BY DEF Keeps
<1>8. Counter \in DOMAIN fw'
  BY FirmwareIs
<1>9. \A n \in 0 .. Len(job') : \A a \in DOMAIN fw' : Keeps(After(mem', job', n), p, fw', item', a)
  BY <1>5, <1>7
<1> QED  BY <1>4, <1>6, <1>7, <1>8, <1>9 DEF ReadyInv, Written, Items

(* The counter, read from the cells.                                       *)
LEMMA CountAtType ==
    ASSUME NEW g \in Firmwares, NEW p \in Placed(g), NEW m, Holds(m, g, p)
    PROVE  /\ CountAt(m, p) \in 0 .. MaxCount
           /\ m[p[Counter] + 1] \in Bytes /\ m[p[Counter] + 2] \in Bytes
           /\ \A v : (v[1] = m[p[Counter] + 1] /\ v[2] = m[p[Counter] + 2])
                     => CountOf(v) = CountAt(m, p)
<1> DEFINE x == m[p[Counter] + 1]
           y == m[p[Counter] + 2]
           v == <<x, y>>
<1>1. Counter \in DOMAIN g /\ 1 \in 1 .. g[Counter] /\ 2 \in 1 .. g[Counter]
  BY FirmwareIs, SMT
<1>2. x \in Bytes /\ y \in Bytes
  BY <1>1 DEF Holds
<1>3. CountAt(m, p) = x + Base * y
  BY DEF CountAt
<1> HIDE DEF x, y
<1>4. v[1] = x /\ v[2] = y
  OBVIOUS
<1> HIDE DEF v
<1>5. CountOf(v) \in 0 .. MaxCount
  BY <1>2, <1>4, CountType
<1>6. \A w : (w[1] = x /\ w[2] = y) => CountOf(w) = x + Base * y
  BY DEF CountOf
<1> QED  BY <1>2, <1>3, <1>4, <1>5, <1>6 DEF x, y

(* What every boot leaves.                                                 *)
LEMMA BootType ==
    ASSUME NEW m \in [Cells -> Contents], NEW f \in Firmwares, Boot(m, f),
           \A taken : \A a \in DOMAIN f : /\ Read(m, f, taken)[a] \in ItemType(f[a])
                                          /\ Read(m, f, taken)[a].level = 0,
           cut' \in BOOLEAN, wear' \in [Addrs -> 0 .. MaxWear]
    PROVE  /\ TypeOK' /\ LevelInv' /\ \A a \in Addrs : Level(a)' = 0
           /\ (phase = "boot" => job = << >>)' /\ phase' # "rewrite" /\ job' = << >>
<1>1. PICK taken \in SUBSET DOMAIN f : item' = Read(m, f, taken)
  BY DEF Boot
<1>2. mem' = m /\ fw' = f /\ job' = << >> /\ highest' = 0 /\ phase' \in {"boot", "ready"}
  BY DEF Boot
<1>3. DOMAIN item' = DOMAIN f
  BY <1>1 DEF Read
<1>4. \A a \in DOMAIN f : item'[a] \in ItemType(f[a]) /\ item'[a].level = 0
  BY <1>1
<1>5. job' \in Seq([pos : Cells, val : Contents])
  BY <1>2, EmptySeq
<1>6. 0 \in Bytes /\ 0 < Base - 1
  <2>1. Base \in Nat /\ Base > 1 /\ 0 \in Bytes
    BY Numbers
  <2> QED  BY <2>1, SMT
<1>7. TypeOK'
  BY <1>2, <1>3, <1>4, <1>5, <1>6 DEF TypeOK, Items, ItemType
<1>8. LevelInv'
  BY <1>2, <1>4, <1>6, SMT DEF LevelInv, Items
<1>9. \A a \in Addrs : Level(a)' = 0
  BY <1>2, <1>4 DEF Level, Items
<1> QED  BY <1>2, <1>7, <1>8, <1>9

(* From the records of a firmware, any firmware starts.                    *)
LEMMA BootKeeps ==
    ASSUME NEW g \in Firmwares, NEW p \in Placed(g), Apart(g, p),
           NEW m \in [Cells -> Contents], Holds(m, g, p),
           NEW f \in Firmwares, Boot(m, f),
           cut' \in BOOLEAN, wear' = wear, wear \in [Addrs -> 0 .. MaxWear],
           (~cut' /\ CountAt(m, p) < MaxCount) => \A a \in Addrs : wear[a] <= CountAt(m, p)
    PROVE  IInv'
<1>1. PICK taken \in SUBSET DOMAIN f : item' = Read(m, f, taken)
  BY DEF Boot
<1>2. /\ mem' = m /\ fw' = f /\ job' = << >> /\ highest' = 0
      /\ phase' = IF NeedRewrite(m, f, item') THEN "boot" ELSE "ready"
  BY DEF Boot
<1>3. \A t : \A a \in DOMAIN f : /\ Read(m, f, t)[a] \in ItemType(f[a])
                                 /\ Read(m, f, t)[a].level = 0
  BY ReadIs
<1>4. /\ TypeOK' /\ LevelInv' /\ \A a \in Addrs : Level(a)' = 0
      /\ (phase = "boot" => job = << >>)' /\ phase' # "rewrite"
  BY <1>3, BootType
<1>5. CASE phase' = "boot"
  <2>1. Counts(mem, p)'
    BY <1>2 DEF Counts, CountAt
  <2>2. StaleInv'
    BY <1>2, <2>1 DEF StaleInv
  <2>3. WearInv'
    BY <1>5 DEF WearInv
  <2> QED  BY <1>4, <1>5, <2>2, <2>3 DEF IInv
<1>6. CASE phase' = "ready"
  <2>1. ~NeedRewrite(m, f, Read(m, f, taken))
    BY <1>1, <1>2, <1>6
  <2>2. \A a \in DOMAIN f : a \in DOMAIN g /\ g[a] = f[a] /\ item'[a].pos = p[a]
    BY <1>1, <2>1, NothingNeeded
  <2>3. \A a \in DOMAIN f : \A i \in 1 .. f[a] : item'[a].value[i] = m[p[a] + i]
    BY <1>1, <2>2, ReadIs
  <2>4. ReadyInv(g, p)'
    BY <1>2, <2>2, <2>3, RestIsReady
  <2>5. Count' = CountAt(m, p) /\ CountAt(m, p) \in 0 .. MaxCount
    <3>1. Counter \in DOMAIN f /\ 1 \in 1 .. f[Counter] /\ 2 \in 1 .. f[Counter]
      BY FirmwareIs, SMT
    <3>2. /\ item'[Counter].value[1] = m[p[Counter] + 1]
          /\ item'[Counter].value[2] = m[p[Counter] + 2]
      BY <2>3, <3>1
    <3> QED  BY <3>2, CountAtType DEF Count
  <2>6. WearInv'
    <3> SUFFICES ASSUME ~cut', Count' < MaxCount, NEW a \in Addrs
                 PROVE  wear'[a] + highest' <= Count' + Level(a)'
      BY DEF WearInv
    <3>1. wear[a] <= Count' /\ wear[a] \in 0 .. MaxWear
      BY <2>5
    <3>2. wear'[a] = wear[a] /\ highest' = 0 /\ Level(a)' = 0
      BY <1>2, <1>4
    <3>3. Count' \in Nat
      BY <2>5, SMT
    <3> QED  BY <3>1, <3>2, <3>3, SMT
  <2> QED  BY <1>4, <1>6, <2>4, <2>6 DEF IInv
<1>7. phase' = "boot" \/ phase' = "ready"
  BY <1>2
<1> QED  BY <1>5, <1>6, <1>7

(* From an EEPROM that nothing is read from, everything is written.        *)
LEMMA BootBlankKeeps ==
    ASSUME NEW f \in Firmwares, Boot(Blank, f),
           cut' \in BOOLEAN, wear' \in [Addrs -> 0 .. MaxWear]
    PROVE  IInv'
<1>1. PICK taken \in SUBSET DOMAIN f : item' = Read(Blank, f, taken)
  BY DEF Boot
<1>2. Blank \in [Cells -> Contents] /\ ~IsValid(Blank)
  BY BlankIs
<1>3. \A t : \A a \in DOMAIN f : /\ Read(Blank, f, t)[a] \in ItemType(f[a])
                                 /\ Read(Blank, f, t)[a].level = 0
  BY <1>2, ReadNothing
<1>4. /\ TypeOK' /\ LevelInv' /\ \A a \in Addrs : Level(a)' = 0
      /\ (phase = "boot" => job = << >>)' /\ phase' # "rewrite"
  BY <1>2, <1>3, BootType
<1>5. Counter \in DOMAIN f /\ item'[Counter].pos = 0
  BY <1>1, <1>2, FirmwareIs, ReadNothing
<1>6. NeedRewrite(Blank, f, item')
  BY <1>5 DEF NeedRewrite
<1>7. phase' = "boot" /\ mem' = Blank
  BY <1>6 DEF Boot
<1>8. StaleInv'
  BY <1>7 DEF StaleInv, Blank
<1>9. WearInv'
  BY <1>7 DEF WearInv
<1> QED  BY <1>4, <1>7, <1>8, <1>9 DEF IInv

\* The cells that were read before everything is written again.
LEMMA StaleBoot ==
    ASSUME TypeOK, StaleInv, NEW f \in Firmwares, Boot(Readable(mem), f),
           cut' \in BOOLEAN, cut => cut', wear' = wear
    PROVE  IInv'
<1>1. mem \in [Cells -> Contents] /\ wear \in [Addrs -> 0 .. MaxWear]
  BY DEF TypeOK
<1>2. CASE mem = Blank
  <2>1. Readable(mem) = Blank
    BY <1>2 DEF Readable
  <2> QED  BY <1>1, <2>1, BootBlankKeeps
<1>3. CASE mem # Blank
  <2>0. PICK g \in Firmwares : \E p \in Placed(g) :
           Apart(g, p) /\ Holds(mem, g, p) /\ Counts(mem, p)
    BY <1>3 DEF StaleInv
  <2>1. PICK p \in Placed(g) : Apart(g, p) /\ Holds(mem, g, p) /\ Counts(mem, p)
    BY <2>0
  <2>2. Readable(mem) = mem
    BY <2>1 DEF Readable, Holds
  <2>3. (~cut' /\ CountAt(mem, p) < MaxCount) => \A a \in Addrs : wear[a] <= CountAt(mem, p)
    BY <2>1 DEF Counts
  <2>4. Boot(mem, f)
    BY <2>2
  <2> QED  BY <1>1, <2>1, <2>3, <2>4, BootKeeps
<1> QED  BY <1>2, <1>3

-----------------------------------------------------------------------------
(* The counter and the levels.                                             *)
LEMMA CountInRange == TypeOK => Count \in 0 .. MaxCount
<1> SUFFICES ASSUME TypeOK PROVE Count \in 0 .. MaxCount
  OBVIOUS
<1>1. fw \in Firmwares /\ Counter \in Items /\ fw[Counter] = 2
  BY FirmwareIs DEF TypeOK, Items
<1>2. item[Counter].value \in [1 .. 2 -> Bytes]
  <2>1. item[Counter] \in [pos : Cells, value : [1 .. fw[Counter] -> Bytes], level : Bytes]
    BY <1>1 DEF TypeOK
  <2> QED  BY <1>1, <2>1
<1>3. 1 \in 1 .. 2 /\ 2 \in 1 .. 2
  BY SMT
<1> QED  BY <1>2, <1>3, CountType DEF Count

LEMMA LevelIs ==
    TypeOK /\ LevelInv =>
        /\ highest \in Nat /\ highest < Base - 1
        /\ \A a \in Items : item[a].level \in Nat /\ item[a].level <= highest
        /\ \A a \in Addrs : Level(a) \in Nat /\ Level(a) <= highest
<1> SUFFICES ASSUME TypeOK, LevelInv
             PROVE  /\ highest \in Nat /\ highest < Base - 1
                    /\ \A a \in Items : item[a].level \in Nat /\ item[a].level <= highest
                    /\ \A a \in Addrs : Level(a) \in Nat /\ Level(a) <= highest
  OBVIOUS
<1>1. Bytes \subseteq Nat
  BY Numbers, SMT DEF Bytes
<1>2. highest \in Nat /\ highest < Base - 1
  BY <1>1 DEF TypeOK, LevelInv
<1>3. ASSUME NEW a \in Items PROVE item[a].level \in Nat /\ item[a].level <= highest
  <2>1. item[a] \in [pos : Cells, value : [1 .. fw[a] -> Bytes], level : Bytes]
    BY DEF TypeOK
  <2> QED  BY <1>1, <2>1 DEF LevelInv
<1>4. \A a \in Addrs : Level(a) \in Nat /\ Level(a) <= highest
  <2>1. 0 \in Nat /\ 0 <= highest
    BY <1>2, SMT
  <2> QED  BY <1>3, <2>1 DEF Level
<1> QED  BY <1>2, <1>3, <1>4

LEMMA WearBehind ==
    IInv /\ phase = "ready" /\ ~cut /\ Count < MaxCount => \A a \in Addrs : wear[a] <= Count
<1> SUFFICES ASSUME IInv, phase = "ready", ~cut, Count < MaxCount, NEW a \in Addrs
             PROVE  wear[a] <= Count
  OBVIOUS
<1>1. TypeOK /\ LevelInv /\ WearInv
  BY DEF IInv
<1>2. wear[a] + highest <= Count + Level(a)
  BY <1>1 DEF WearInv
<1>3. Level(a) \in Nat /\ Level(a) <= highest /\ highest \in Nat
  BY <1>1, LevelIs
<1>4. wear[a] \in Nat /\ Count \in Nat
  <2>1. wear[a] \in 0 .. MaxWear
    BY <1>1 DEF TypeOK
  <2>2. Count \in 0 .. MaxCount
    BY <1>1, CountInRange
  <2> QED  BY <2>1, <2>2, SMT
<1> QED  BY <1>2, <1>3, <1>4, SMT

-----------------------------------------------------------------------------
(* The power is cut.                                                       *)
LEMMA WrittenType ==
    TypeOK => \A n \in 0 .. Len(job) : Written(n) \in [Cells -> Contents]
<1> SUFFICES ASSUME TypeOK, NEW n \in 0 .. Len(job)
             PROVE  Written(n) \in [Cells -> Contents]
  OBVIOUS
<1>1. mem \in [Cells -> Contents] /\ job \in Writes
  BY DEF TypeOK, Writes
<1> QED  BY <1>1, AfterType DEF Written

LEMMA NoneWritten == TypeOK => Written(0) = mem
  BY AfterNothing DEF Written, TypeOK

LEMMA PowerCycleKeeps == IInv /\ PowerCycle => IInv'
<1> SUFFICES ASSUME IInv, PowerCycle PROVE IInv'
  OBVIOUS
<1>0. PICK n \in 0 .. Len(job), f \in Firmwares :
         /\ job # << >> => Written(n) # Complete
         /\ Boot(Readable(Written(n)), f)
         /\ cut' = (cut \/ (phase = "ready" /\ \E c \in Extent(item[Counter].pos, 2) :
                               Written(n)[c] # Complete[c]))
         /\ wear' = wear
  BY DEF PowerCycle
<1>1. TypeOK /\ LevelInv /\ WearInv
  BY DEF IInv
<1>2. cut \in BOOLEAN /\ wear \in [Addrs -> 0 .. MaxWear] /\ fw \in Firmwares
      /\ phase \in {"boot", "rewrite", "ready"}
  BY <1>1 DEF TypeOK
<1>3. cut' \in BOOLEAN /\ (cut => cut')
  BY <1>0, <1>2
<1>4. CASE phase = "boot"
  <2>1. Len(job) = 0 /\ StaleInv
    BY <1>4, EmptySeq DEF IInv
  <2>2. n = 0
    BY <2>1, SMT
  <2>3. Boot(Readable(mem), f)
    BY <1>0, <1>1, <2>2, NoneWritten
  <2> QED  BY <1>0, <1>1, <1>3, <2>1, <2>3, StaleBoot
<1>5. CASE phase = "rewrite"
  <2>1. StaleInv /\ RewriteInv
    BY <1>5 DEF IInv
  <2>2. CASE n = 0
    <3>1. Boot(Readable(mem), f)
      BY <1>0, <1>1, <2>2, NoneWritten
    <3> QED  BY <1>0, <1>1, <1>3, <2>1, <3>1, StaleBoot
  <2>3. CASE n # 0
    <3>1. n \in 1 .. Len(job)
      BY <2>3, LenProperties, SMT
    <3>2. ~IsValid(Written(n))
      BY <1>0, <2>1, <3>1 DEF RewriteInv
    <3>3. Boot(Blank, f)
      BY <1>0, <3>2 DEF Readable
    <3> QED  BY <1>0, <1>2, <1>3, <3>3, BootBlankKeeps
  <2> QED  BY <2>2, <2>3
<1>6. CASE phase = "ready"
  <2>1. PICK g \in Firmwares : \E p \in Placed(g) : ReadyInv(g, p)
    BY <1>6 DEF IInv
  <2>2. PICK p \in Placed(g) : ReadyInv(g, p)
    BY <2>1
  <2>3. PICK m \in [Cells -> Contents] : m = Written(n)
    BY <1>0, <1>1, WrittenType
  <2>4. Apart(g, p) /\ Holds(m, g, p)
    BY <2>2, <2>3 DEF ReadyInv
  <2>5. Boot(m, f)
    BY <1>0, <2>3, <2>4 DEF Readable, Holds
  <2>6. ASSUME ~cut', CountAt(m, p) < MaxCount
        PROVE  \A a \in Addrs : wear[a] <= CountAt(m, p)
    <3> DEFINE k == p[Counter]
    <3>1. /\ Counter \in Items /\ fw[Counter] = 2 /\ item[Counter].pos = k
          /\ Keeps(Complete, p, fw, item, Counter) /\ Counter \in DOMAIN g
      BY <1>2, <2>2, FirmwareIs DEF ReadyInv, Items
    <3>2. ~cut /\ \A c \in Extent(k, 2) : m[c] = Complete[c]
      BY <1>0, <1>6, <2>3, <2>6, <3>1
    <3>3. k + 1 \in Extent(k, 2) /\ k + 2 \in Extent(k, 2)
      <4>1. k \in Nat
        BY <2>4, <3>1, PlaceIs
      <4> HIDE DEF k
      <4> QED  BY <4>1, Numbers, SMT DEF Extent
    <3>4. 1 \in 1 .. fw[Counter] /\ 2 \in 1 .. fw[Counter]
      BY <3>1, SMT
    <3>5. item[Counter].value[1] = m[k + 1] /\ item[Counter].value[2] = m[k + 2]
      BY <3>1, <3>2, <3>3, <3>4 DEF Keeps
    <3>6. Count = CountAt(m, p)
      BY <2>4, <3>5, CountAtType DEF Count
    <3> QED  BY <1>6, <2>6, <3>2, <3>6, WearBehind
  <2> QED  BY <1>0, <1>2, <1>3, <2>4, <2>5, <2>6, BootKeeps
<1> QED  BY <1>2, <1>4, <1>5, <1>6

-----------------------------------------------------------------------------
(* All cells are written.                                                  *)
LEMMA FinishKeeps == IInv /\ Finish => IInv'
<1> SUFFICES ASSUME IInv, Finish PROVE IInv'
  OBVIOUS
<1>1. TypeOK /\ LevelInv /\ WearInv
  BY DEF IInv
<1>2. /\ job # << >> /\ mem' = Complete /\ job' = << >> /\ phase' = "ready"
      /\ wear' = IF phase = "ready" THEN wear ELSE [a \in Addrs |-> 0]
      /\ cut' = (cut /\ phase = "ready")
      /\ fw' = fw /\ item' = item /\ highest' = highest
  BY DEF Finish
<1>3. /\ fw \in Firmwares /\ cut \in BOOLEAN /\ wear \in [Addrs -> 0 .. MaxWear]
      /\ phase \in {"boot", "rewrite", "ready"}
  BY <1>1 DEF TypeOK
<1>4. Len(job) \in Nat /\ Len(job) \in 0 .. Len(job)
  <2>1. Len(job) \in Nat
    BY <1>1, LenProperties DEF TypeOK
  <2> QED  BY <2>1, SMT
<1>5. PICK m \in [Cells -> Contents] : m = Complete
  BY <1>1, <1>4, WrittenType DEF Complete
<1>6. wear' \in [Addrs -> 0 .. MaxWear]
  <2>1. 0 \in 0 .. MaxWear
    BY Numbers, SMT
  <2> QED  BY <1>2, <1>3, <2>1
<1>7. TypeOK'
  <2>1. job' \in Seq([pos : Cells, val : Contents])
    BY <1>2, EmptySeq
  <2>2. mem' \in [Cells -> Contents]
    BY <1>2, <1>5
  <2>3. cut' \in BOOLEAN
    BY <1>2, <1>3
  <2> QED  BY <1>1, <1>2, <1>6, <2>1, <2>2, <2>3 DEF TypeOK, Items
<1>8. LevelInv'
  BY <1>1, <1>2 DEF LevelInv, Items
<1>9. \A a \in Addrs : Level(a)' = Level(a)
  BY <1>2 DEF Level, Items
<1>10. Count' = Count
  BY <1>2 DEF Count
<1>11. CASE phase = "ready"
  <2>1. PICK g \in Firmwares : \E p \in Placed(g) : ReadyInv(g, p)
    BY <1>11 DEF IInv
  <2>2. PICK p \in Placed(g) : ReadyInv(g, p)
    BY <2>1
  <2>3. Apart(g, p) /\ Holds(m, g, p)
    BY <1>4, <1>5, <2>2 DEF ReadyInv, Complete
  <2>4. \A a \in DOMAIN fw : /\ a \in DOMAIN g /\ g[a] = fw[a] /\ item[a].pos = p[a]
                             /\ \A i \in 1 .. fw[a] : m[p[a] + i] = item[a].value[i]
    BY <1>5, <2>2 DEF ReadyInv, Items, Keeps
  <2>5. ReadyInv(g, p)'
    BY <1>2, <1>3, <1>5, <2>3, <2>4, RestIsReady
  <2>6. WearInv'
    BY <1>1, <1>2, <1>9, <1>10, <1>11 DEF WearInv
  <2> QED  BY <1>2, <1>7, <1>8, <2>5, <2>6 DEF IInv
<1>12. CASE phase = "rewrite"
  <2> DEFINE p == ItemPlaces
  <2>1. RewriteInv
    BY <1>12 DEF IInv
  <2>2. p \in Placed(fw) /\ \A a \in DOMAIN fw : p[a] = item[a].pos
    <3>1. \A a \in DOMAIN fw :
             item[a] \in [pos : Cells, value : [1 .. fw[a] -> Bytes], level : Bytes]
      BY <1>1 DEF TypeOK, Items
    <3>2. \A a \in DOMAIN fw : item[a].pos \in Cells
      BY <3>1
    <3> QED  BY <3>2 DEF Placed, ItemPlaces, Items
  <2>3. PICK q \in Placed(fw) : q = p
    BY <2>2
  <2>4. Apart(fw, q) /\ Holds(m, fw, q)
    BY <1>5, <2>1, <2>3 DEF RewriteInv
  <2>5. \A a \in DOMAIN fw : /\ item[a].pos = q[a]
                             /\ \A i \in 1 .. fw[a] : m[q[a] + i] = item[a].value[i]
    BY <1>5, <2>1, <2>2, <2>3 DEF RewriteInv, Items, Keeps
  <2>6. \E g \in Firmwares : \E r \in Placed(g) : ReadyInv(g, r)'
    <3>1. PICK g \in Firmwares : g = fw
      BY <1>3
    <3>2. q \in Placed(g)
      BY <3>1
    <3>3. ReadyInv(g, q)'
      BY <1>2, <1>3, <1>5, <2>4, <2>5, <3>1, RestIsReady
    <3> QED  BY <3>2, <3>3
  <2>7. WearInv'
    <3> SUFFICES ASSUME NEW a \in Addrs PROVE wear'[a] + highest' <= Count' + Level(a)'
      BY DEF WearInv
    <3>1. wear'[a] = 0 /\ highest' = 0
      BY <1>1, <1>2, <1>12 DEF LevelInv
    <3>2. Count' \in 0 .. MaxCount /\ Level(a)' \in Nat
      BY <1>1, <1>9, <1>10, CountInRange, LevelIs
    <3> QED  BY <3>1, <3>2, SMT
  <2> QED  BY <1>2, <1>7, <1>8, <2>6, <2>7 DEF IInv
<1>13. phase # "boot"
  BY <1>2 DEF IInv
<1> QED  BY <1>3, <1>11, <1>12, <1>13

-----------------------------------------------------------------------------
(* Everything is written again.                                            *)

(* The places that fullRewrite draws are apart, in any order.              *)
LEMMA PlacesApart ==
    ASSUME NEW f \in Firmwares, NEW p \in Places(f)
    PROVE  p \in Placed(f) /\ Apart(f, p)
<1> DEFINE before(a) == {b \in DOMAIN f \ {a} : p[b] <= p[a]}
           end(a) == p[a] + HeadSize + f[a]
           T(a) == {Start} \cup {end(b) : b \in before(a)}
<1>1. p \in [DOMAIN f -> Cells] /\ \A a \in DOMAIN f : p[a] - Max(T(a)) >= 0 /\ end(a) <= Length
  BY DEF Places
<1>2. \A a \in DOMAIN f : p[a] \in Nat /\ f[a] \in Nat /\ end(a) \in Nat
  <2> SUFFICES ASSUME NEW a \in DOMAIN f
               PROVE  p[a] \in Nat /\ f[a] \in Nat /\ end(a) \in Nat
    OBVIOUS
  <2>1. p[a] \in Cells /\ f[a] \in Nat
    BY <1>1, FirmwareIs
  <2> QED  BY <2>1, Numbers, SMT DEF Cells
<1>3. ASSUME NEW a \in DOMAIN f
      PROVE  Start <= p[a] /\ \A b \in before(a) : end(b) <= p[a]
  <2>1. T(a) \in SUBSET (0 .. Length) /\ T(a) # {}
    <3>1. Start \in 0 .. Length
      BY FirmwareIs, Numbers, SMT
    <3>2. \A b \in before(a) : end(b) \in 0 .. Length
      <4> HIDE DEF end
      <4>1. ASSUME NEW b \in DOMAIN f PROVE end(b) \in 0 .. Length
        <5>1. end(b) \in Nat /\ end(b) <= Length
          BY <1>1, <1>2
        <5> QED  BY <5>1, Numbers, SMT
      <4> QED  BY <4>1 DEF before
    <3> HIDE DEF before, end
    <3> QED  BY <3>1, <3>2
  <2>2. p[a] - Max(T(a)) >= 0 /\ p[a] \in Nat /\ Start \in T(a)
        /\ \A b \in before(a) : end(b) \in T(a)
    BY <1>1, <1>2
  <2> HIDE DEF T, before, end
  <2>3. Max(T(a)) \in T(a) /\ \A x \in T(a) : x <= Max(T(a))
    BY <2>1, Numbers, MaxIs
  <2>4. Max(T(a)) \in Nat /\ \A x \in T(a) : x \in Nat
    BY <2>1, <2>3, SMT
  <2>5. \A x \in T(a) : x <= p[a]
    BY <2>2, <2>3, <2>4, SMT
  <2> QED  BY <2>2, <2>5
<1>4. ASSUME NEW a \in DOMAIN f, NEW b \in DOMAIN f, a # b
      PROVE  end(a) <= p[b] \/ end(b) <= p[a]
  <2>1. p[a] <= p[b] \/ p[b] <= p[a]
    BY <1>2, SMT
  <2> QED  BY <1>3, <1>4, <2>1
<1> QED  BY <1>1, <1>3, <1>4 DEF Placed, Apart

(* What is written in each cell.                                           *)
LEMMA ImageIs ==
    ASSUME NEW f \in Firmwares, NEW p \in Placed(f), Apart(f, p),
           NEW i, \A a \in DOMAIN f : i[a].pos = p[a] /\ i[a].value \in [1 .. f[a] -> Bytes]
    PROVE  /\ \A c \in 0 .. Start - 1 : Image(f, i, c) = Marker[c + 1]
           /\ \A a \in DOMAIN f :
                 /\ Image(f, i, p[a]) = PackHead(a, f[a])
                 /\ \A j \in 1 .. f[a] : Image(f, i, p[a] + j) = i[a].value[j]
           /\ \A c \in Start .. Length - 1 :
                 (\A a \in DOMAIN f : c \notin Extent(p[a], f[a])) => Image(f, i, c) = 0
           /\ \A c \in Cells : Image(f, i, c) \in Contents
<1> DEFINE at(c) == {a \in DOMAIN f : c \in Extent(i[a].pos, f[a])}
<1>1. ASSUME NEW c \in 0 .. Start - 1 PROVE Image(f, i, c) = Marker[c + 1]
  <2>1. c < Start
    BY Numbers, SMT
  <2> QED  BY <2>1 DEF Image
<1>2. \A a \in DOMAIN f : /\ p[a] \in Nat /\ f[a] \in Nat /\ p[a] >= Start
                          /\ \A j \in 0 .. f[a] : p[a] + j \in Cells /\ p[a] + j >= Start
  BY PlaceIs
<1>3. ASSUME NEW a \in DOMAIN f, NEW j \in 0 .. f[a]
      PROVE  /\ at(p[a] + j) = {a} /\ ~(p[a] + j < Start)
             /\ Image(f, i, p[a] + j) = IF j = 0 THEN PackHead(a, f[a]) ELSE i[a].value[j]
  <2> DEFINE c == p[a] + j
  <2>1. c \in Int /\ ~(c < Start) /\ c - p[a] = j /\ (c = p[a] <=> j = 0)
    BY <1>2, Numbers, SMT
  <2>2. a \in at(c)
    <3> HIDE DEF c
    <3>1. c \in Extent(p[a], f[a])
      BY <1>2, <2>1, ExtentIs
    <3> QED  BY <3>1
  <2>3. ASSUME NEW b \in at(c) PROVE b = a
    <3> SUFFICES ASSUME b # a PROVE FALSE
      OBVIOUS
    <3>1. b \in DOMAIN f /\ c \in Extent(p[b], f[b])
      BY <2>3
    <3>2. c - p[b] \in 0 .. f[b]
      <4> HIDE DEF c
      <4> QED  BY <1>2, <2>1, <3>1, ExtentIs
    <3>3. p[b] + (c - p[b]) = c
      <4> HIDE DEF c
      <4> QED  BY <1>2, <2>1, <3>1, SMT
    <3>4. p[a] + j # p[b] + (c - p[b])
      <4>1. \A k \in 0 .. f[b] : p[a] + j # p[b] + k
        BY <3>1, Disjoint
      <4> HIDE DEF c
      <4> QED  BY <3>2, <4>1
    <3> QED  BY <3>3, <3>4
  <2>4. at(c) = {a}
    BY <2>2, <2>3
  <2>5. (CHOOSE x \in at(c) : TRUE) = a
    BY <2>4
  <2> HIDE DEF c
  <2>6. Image(f, i, c) = IF c = i[a].pos THEN PackHead(a, f[a]) ELSE i[a].value[c - i[a].pos]
    BY <2>1, <2>4, <2>5 DEF Image
  <2>7. i[a].pos = p[a]
    OBVIOUS
  <2>8. Image(f, i, c) = IF j = 0 THEN PackHead(a, f[a]) ELSE i[a].value[j]
    BY <2>1, <2>6, <2>7
  <2> QED  BY <2>1, <2>4, <2>8 DEF c
<1>4. ASSUME NEW a \in DOMAIN f
      PROVE  /\ Image(f, i, p[a]) = PackHead(a, f[a])
             /\ \A j \in 1 .. f[a] : Image(f, i, p[a] + j) = i[a].value[j]
  <2>1. 0 \in 0 .. f[a] /\ p[a] + 0 = p[a]
    BY <1>2, SMT
  <2>2. \A j \in 1 .. f[a] : j \in 0 .. f[a] /\ j # 0
    BY <1>2, SMT
  <2>3. Image(f, i, p[a] + 0) = PackHead(a, f[a])
    BY <1>3, <2>1
  <2> QED  BY <1>3, <2>1, <2>2, <2>3
<1>5. ASSUME NEW c \in Start .. Length - 1, \A a \in DOMAIN f : c \notin Extent(p[a], f[a])
      PROVE  Image(f, i, c) = 0
  <2>1. at(c) = {} /\ ~(c < Start)
    BY <1>5, Numbers, SMT
  <2> QED  BY <2>1 DEF Image
<1>6. ASSUME NEW c \in Cells PROVE Image(f, i, c) \in Contents
  <2>1. CASE c < Start
    <3>1. c \in 0 .. Start - 1 /\ c + 1 \in 1 .. Start
      BY <2>1, Numbers, SMT DEF Cells
    <3> QED  BY <1>1, <3>1, Numbers
  <2>2. CASE ~(c < Start) /\ \A a \in DOMAIN f : c \notin Extent(p[a], f[a])
    <3>1. c \in Start .. Length - 1
      BY <2>2, Numbers, SMT DEF Cells
    <3> QED  BY <1>5, <2>2, <3>1, Numbers
  <2>3. ASSUME NEW a \in DOMAIN f, c \in Extent(p[a], f[a]) PROVE Image(f, i, c) \in Contents
    <3>1. c \in Int
      BY Numbers, SMT DEF Cells
    <3>2. PICK j \in 0 .. f[a] : c = p[a] + j
      <4>1. c - p[a] \in 0 .. f[a]
        BY <1>2, <2>3, <3>1, ExtentIs
      <4>2. c = p[a] + (c - p[a])
        BY <1>2, <3>1, SMT
      <4> QED  BY <4>1, <4>2
    <3>3. Image(f, i, c) = IF j = 0 THEN PackHead(a, f[a]) ELSE i[a].value[j]
      BY <1>3, <3>2
    <3>4. j # 0 => j \in 1 .. f[a]
      BY <1>2, SMT
    <3>5. j # 0 => i[a].value[j] \in Bytes
      BY <3>4
    <3>6. Bytes \subseteq Contents
      BY Numbers
    <3>7. PackHead(a, f[a]) \in Contents
      BY HeadInCells
    <3> QED  BY <3>3, <3>5, <3>6, <3>7
  <2> QED  BY <2>1, <2>2, <2>3
<1> QED  BY <1>1, <1>4, <1>5, <1>6

\* The place of cell c in the writes of fullRewrite: after the first, which
\* breaks the marker, the records and then the marker.
TurnOf(c) == IF c >= Start THEN c - Start + 2 ELSE c - Start + 2 + Length

LEMMA FullRewriteIs ==
    ASSUME NEW f \in Firmwares, NEW i, NEW k \in 0 .. Start - 1,
           \A c \in Cells : Image(f, i, c) \in Contents
    PROVE  LET w == FullRewrite(f, i, k)
           IN  /\ w \in Writes /\ Len(w) = Length + 1
               /\ w[1].pos = k /\ w[1].val = 0
               /\ \A n \in 2 .. Length + 1 : w[n].pos \in Cells /\ TurnOf(w[n].pos) = n
               /\ \A c \in Cells : /\ TurnOf(c) \in 2 .. Length + 1
                                   /\ w[TurnOf(c)].pos = c
                                   /\ w[TurnOf(c)].val = Image(f, i, c)
<1> DEFINE cell(n) == IF n = 1 THEN k ELSE (Start + n - 2) % Length
           e(n) == [pos |-> cell(n), val |-> IF n = 1 THEN 0 ELSE Image(f, i, cell(n))]
           w == FullRewrite(f, i, k)
<1>1. w = [n \in 1 .. Length + 1 |-> e(n)]
  BY DEF FullRewrite
<1>2. /\ Length \in Nat /\ Length >= 1 /\ Start \in Nat /\ Start <= Length
      /\ k \in Cells /\ 0 \in Contents
  BY FirmwareIs, Numbers, SMT DEF Cells
<1>3. ASSUME NEW n \in 2 .. Length + 1
      PROVE  /\ cell(n) = IF Start + n - 2 < Length THEN Start + n - 2 ELSE Start + n - 2 - Length
             /\ cell(n) \in Cells /\ TurnOf(cell(n)) = n /\ n # 1
  <2> DEFINE x == Start + n - 2
  <2>1. x \in Nat /\ x < 2 * Length /\ x >= Start /\ n # 1 /\ n = x - Start + 2
        /\ x < Length + Start
    BY <1>2, SMT
  <2>2. cell(n) = x % Length
    BY <2>1
  <2> HIDE DEF x
  <2>3. CASE x < Length
    <3>1. x \in 0 .. Length - 1 /\ Length \in Nat \ {0} /\ 0 \in Int
      BY <1>2, <2>1, <2>3, SMT
    <3>2. (0 * Length + x) % Length = x
      BY <3>1, Division
    <3>3. 0 * Length + x = x
      BY <1>2, <2>1, SMT
    <3>4. cell(n) = x
      BY <2>2, <3>2, <3>3
    <3>5. x \in Cells
      BY <3>1 DEF Cells
    <3>6. TurnOf(x) = n
      BY <1>2, <2>1, SMT DEF TurnOf
    <3> QED  BY <2>1, <2>3, <3>4, <3>5, <3>6 DEF x
  <2>4. CASE ~(x < Length)
    <3> DEFINE y == x - Length
    <3>1. y \in 0 .. Length - 1 /\ Length \in Nat \ {0} /\ 1 \in Int /\ y < Start
          /\ y - Start + 2 + Length = n
      BY <1>2, <2>1, <2>4, SMT
    <3>2. (1 * Length + y) % Length = y
      <4> HIDE DEF y
      <4> QED  BY <3>1, Division
    <3>3. 1 * Length + y = x
      BY <1>2, <2>1, SMT
    <3> HIDE DEF y
    <3>4. cell(n) = y
      BY <2>2, <3>2, <3>3
    <3>5. y \in Cells
      BY <3>1 DEF Cells
    <3>6. TurnOf(y) = n
      BY <1>2, <3>1, SMT DEF TurnOf
    <3>7. cell(n) \in Cells /\ TurnOf(cell(n)) = n
      BY <3>4, <3>5, <3>6
    <3> HIDE DEF cell
    <3>8. cell(n) = x - Length
      BY <3>4 DEF y
    <3>9. cell(n) = Start + n - 2 - Length
      BY <1>2, <3>8, SMT DEF x
    <3>10. ~(Start + n - 2 < Length)
      BY <2>4 DEF x
    <3> QED  BY <2>1, <3>7, <3>9, <3>10
  <2> QED  BY <2>3, <2>4
<1>4. \A n \in 1 .. Length + 1 : n = 1 \/ n \in 2 .. Length + 1
  BY <1>2, SMT
<1>5. \A n \in 1 .. Length + 1 : e(n) \in [pos : Cells, val : Contents]
  <2> SUFFICES ASSUME NEW n \in 1 .. Length + 1 PROVE e(n) \in [pos : Cells, val : Contents]
    OBVIOUS
  <2>1. cell(n) \in Cells
    BY <1>2, <1>3, <1>4
  <2> HIDE DEF cell
  <2> QED  BY <1>2, <2>1
<1>6. 1 \in 1 .. Length + 1 /\ e(1).pos = k /\ e(1).val = 0
  BY <1>2, SMT
<1>7. ASSUME NEW c \in Cells
      PROVE  TurnOf(c) \in 2 .. Length + 1 /\ cell(TurnOf(c)) = c
  <2>1. c \in Nat /\ c < Length
    BY <1>2, SMT DEF Cells
  <2>2. TurnOf(c) \in 2 .. Length + 1
    BY <1>2, <2>1, SMT DEF TurnOf
  <2> DEFINE n == TurnOf(c)
  <2>3. IF Start + n - 2 < Length THEN Start + n - 2 = c ELSE Start + n - 2 - Length = c
    BY <1>2, <2>1, SMT DEF TurnOf
  <2> HIDE DEF n, cell
  <2>4. n \in 2 .. Length + 1
    BY <2>2 DEF n
  <2>5. cell(n) = c
    BY <1>3, <2>3, <2>4
  <2> QED  BY <2>2, <2>5 DEF n
<1>8. \A n \in 1 .. Length + 1 : w[n] = e(n)
  BY <1>1
<1>9. \A n \in 2 .. Length + 1 : n \in 1 .. Length + 1 /\ n # 1
  BY <1>2, SMT
<1>10. \A n \in 1 .. Length + 1 :
          e(n).pos = cell(n) /\ (n # 1 => e(n).val = Image(f, i, cell(n)))
  OBVIOUS
<1> HIDE DEF e, cell
<1>11. w \in Writes /\ Len(w) = Length + 1
  <2> DEFINE t == Length + 1
             S == [pos : Cells, val : Contents]
  <2>1. t \in Nat
    BY <1>2, SMT
  <2>2. w \in [1 .. t -> S]
    BY <1>1, <1>5
  <2> HIDE DEF t, w, S
  <2>3. w \in Seq(S) /\ Len(w) = t
    BY <2>1, <2>2, IsASeq, LenProperties
  <2> QED  BY <2>3 DEF Writes, S, t
<1> HIDE DEF w
<1>12. w[1].pos = k /\ w[1].val = 0
  BY <1>6, <1>8
<1>13. \A n \in 2 .. Length + 1 : w[n].pos \in Cells /\ TurnOf(w[n].pos) = n
  BY <1>3, <1>8, <1>9, <1>10
<1>14. \A c \in Cells : /\ TurnOf(c) \in 2 .. Length + 1
                        /\ w[TurnOf(c)].pos = c /\ w[TurnOf(c)].val = Image(f, i, c)
  BY <1>7, <1>8, <1>9, <1>10
<1> QED  BY <1>11, <1>12, <1>13, <1>14 DEF w

(* Once all is written the records are there; before, and after the first  *)
(* write, the marker is broken or what is left to write makes no           *)
(* difference.                                                             *)
LEMMA RewrittenIs ==
    ASSUME NEW f \in Firmwares, NEW p \in Placed(f), Apart(f, p), NEW k \in 0 .. Start - 1,
           NEW i, \A a \in DOMAIN f : i[a].pos = p[a] /\ i[a].value \in [1 .. f[a] -> Bytes],
           NEW m \in [Cells -> Contents]
    PROVE  LET w == FullRewrite(f, i, k)
               whole == After(m, w, Len(w))
           IN  /\ w \in Writes /\ w # << >>
               /\ Holds(whole, f, p) /\ \A a \in DOMAIN f : Keeps(whole, p, f, i, a)
               /\ \A n \in 1 .. Len(w) : IsValid(After(m, w, n)) => After(m, w, n) = whole
<1> DEFINE w == FullRewrite(f, i, k)
           l == Len(w)
           part(n) == After(m, w, n)
<1>1. /\ \A c \in 0 .. Start - 1 : Image(f, i, c) = Marker[c + 1]
      /\ \A a \in DOMAIN f : /\ Image(f, i, p[a]) = PackHead(a, f[a])
                             /\ \A j \in 1 .. f[a] : Image(f, i, p[a] + j) = i[a].value[j]
      /\ \A c \in Start .. Length - 1 :
            (\A a \in DOMAIN f : c \notin Extent(p[a], f[a])) => Image(f, i, c) = 0
      /\ \A c \in Cells : Image(f, i, c) \in Contents
  BY ImageIs
<1>2. /\ w \in Writes /\ Len(w) = Length + 1 /\ w[1].pos = k /\ w[1].val = 0
      /\ \A n \in 2 .. Length + 1 : w[n].pos \in Cells /\ TurnOf(w[n].pos) = n
      /\ \A c \in Cells : /\ TurnOf(c) \in 2 .. Length + 1
                          /\ w[TurnOf(c)].pos = c /\ w[TurnOf(c)].val = Image(f, i, c)
  BY <1>1, FullRewriteIs
<1> HIDE DEF w
<1>3. /\ Length \in Nat /\ Length >= 1 /\ Start \in Nat /\ Start >= 1 /\ Start <= Length
      /\ k \in Cells /\ k < Start /\ l \in Nat /\ l = Length + 1 /\ k \in Nat
  BY <1>2, FirmwareIs, Numbers, SMT DEF Cells
<1>4. \A c \in Cells : c \in Nat /\ c < Length
  BY <1>3, SMT DEF Cells
<1> HIDE DEF l
<1>5. ASSUME NEW n \in 1 .. l, NEW c \in Cells
      PROVE  /\ TurnOf(c) <= n => part(n)[c] = Image(f, i, c)
             /\ (n < TurnOf(c) /\ c = k) => part(n)[c] = 0
             /\ (n < TurnOf(c) /\ c # k) => part(n)[c] = m[c]
  <2> DEFINE t == TurnOf(c)
  <2>1. n \in Nat /\ t \in Nat /\ t >= 2 /\ t <= l /\ 1 \in 1 .. n
    BY <1>2, <1>3, SMT
  <2>2. \A j \in 2 .. l : w[j].pos = c => j = t
    BY <1>2, <1>3
  <2>3. w[t].pos = c /\ w[t].val = Image(f, i, c)
    BY <1>2
  <2> HIDE DEF t
  <2>4. CASE t <= n
    <3>1. t \in 1 .. n /\ \A j \in t + 1 .. n : j \in 2 .. l /\ j # t
      BY <1>3, <2>1, <2>4, SMT
    <3>2. \A j \in t + 1 .. n : w[j].pos # c
      BY <2>2, <3>1
    <3>3. part(n)[c] = w[t].val
      BY <2>1, <2>3, <3>1, <3>2, AfterIs
    <3>4. ~(n < t)
      BY <2>1, <2>4, SMT
    <3> QED  BY <2>3, <2>4, <3>3, <3>4 DEF t
  <2>5. CASE n < t
    <3>1. \A j \in 2 .. n : j \in 2 .. l /\ j # t
      BY <1>3, <2>1, <2>5, SMT
    <3>2. \A j \in 2 .. n : w[j].pos # c
      BY <2>2, <3>1
    <3>3. ~(t <= n)
      BY <2>1, <2>5, SMT
    <3>4. \A j \in 1 .. n : j = 1 \/ j \in 2 .. n
      BY SMT
    <3>5. CASE c = k
      <4>1. \A j \in 1 + 1 .. n : w[j].pos # c
        BY <3>2, SMT
      <4>2. part(n)[c] = w[1].val
        BY <1>2, <2>1, <3>5, <4>1, AfterIs
      <4> QED  BY <1>2, <3>3, <3>5, <4>2 DEF t
    <3>6. CASE c # k
      <4>1. \A j \in 1 .. n : w[j].pos # c
        BY <1>2, <3>2, <3>4, <3>6
      <4>2. part(n)[c] = m[c]
        BY <2>1, <4>1, AfterIs
      <4> QED  BY <3>3, <3>6, <4>2 DEF t
    <3> QED  BY <3>5, <3>6
  <2>6. t <= n \/ n < t
    BY <2>1, SMT
  <2> QED  BY <2>4, <2>5, <2>6
<1>6. l \in 1 .. l /\ \A c \in Cells : TurnOf(c) <= l
  BY <1>2, <1>3, SMT
<1>7. \A c \in Cells : part(l)[c] = Image(f, i, c)
  BY <1>5, <1>6
<1>8. \A a \in DOMAIN f : /\ p[a] \in Cells /\ f[a] \in Nat
                          /\ \A j \in 0 .. f[a] : p[a] + j \in Cells
  BY PlaceIs
<1>9. \A a \in DOMAIN f : \A j \in 1 .. f[a] : j \in 0 .. f[a]
  BY <1>8, SMT
<1>10. \A c \in 0 .. Start - 1 : c \in Cells
  BY <1>3, SMT DEF Cells
<1>11. \A j \in 1 .. Start : j - 1 \in 0 .. Start - 1 /\ j - 1 + 1 = j
  BY <1>3, SMT
<1> DEFINE whole == part(l)
<1>12. Holds(whole, f, p)
  <2>1. IsValid(whole)
    BY <1>1, <1>7, <1>10, <1>11 DEF IsValid
  <2>2. \A a \in DOMAIN f : whole[p[a]] = PackHead(a, f[a])
    BY <1>1, <1>7, <1>8
  <2>3. \A a \in DOMAIN f : \A j \in 1 .. f[a] : whole[p[a] + j] = i[a].value[j]
    BY <1>1, <1>7, <1>8, <1>9
  <2>4. \A a \in DOMAIN f : \A j \in 1 .. f[a] : whole[p[a] + j] \in Bytes
    BY <2>3
  <2>5. \A c \in Start .. Length - 1 : c \in Cells
    BY <1>3, SMT DEF Cells
  <2>6. \A c \in Start .. Length - 1 :
           (\A a \in DOMAIN f : c \notin Extent(p[a], f[a])) => whole[c] = 0
    BY <1>1, <1>7, <2>5
  <2> HIDE DEF whole
  <2> QED  BY <2>1, <2>2, <2>4, <2>6 DEF Holds
<1>13. \A a \in DOMAIN f : Keeps(whole, p, f, i, a)
  BY <1>1, <1>7, <1>8, <1>9 DEF Keeps
<1>14. ASSUME NEW n \in 1 .. l, IsValid(part(n)) PROVE part(n) = whole
  <2>1. \A c \in 0 .. Start - 1 : part(n)[c] = Marker[c + 1]
    <3>1. \A c \in 0 .. Start - 1 : c + 1 \in 1 .. Start /\ c + 1 - 1 = c
      BY <1>3, SMT
    <3> QED  BY <1>14, <3>1 DEF IsValid
  <2>2. ~(n < TurnOf(k))
    <3>1. k + 1 \in 1 .. Start
      BY <1>3, SMT
    <3>2. part(n)[k] # 0
      BY <2>1, <3>1, Numbers
    <3> QED  BY <1>3, <1>5, <3>2
  <2>3. ASSUME NEW c \in Cells PROVE part(n)[c] = whole[c]
    <3>1. CASE TurnOf(c) <= n
      BY <1>5, <1>7, <3>1
    <3>2. CASE ~(TurnOf(c) <= n)
      <4>1. c \in 0 .. Start - 1
        <5>1. n \in Nat /\ c \in Nat /\ c < Length
          BY <1>3, <1>4, SMT
        <5> QED  BY <1>3, <2>2, <3>2, <5>1, SMT DEF TurnOf
      <4> QED  BY <1>1, <1>7, <2>1, <4>1
    <3> QED  BY <3>1, <3>2
  <2>4. part(n) = [c \in Cells |-> part(n)[c]] /\ whole = [c \in Cells |-> whole[c]]
    BY DEF After
  <2> HIDE DEF part, whole
  <2> QED  BY <2>3, <2>4
<1>15. w # << >>
  BY <1>2, <1>3, EmptySeq, SMT
<1> QED  BY <1>2, <1>12, <1>13, <1>14, <1>15 DEF w, l

LEMMA RewriteKeeps == IInv /\ Rewrite => IInv'
<1> SUFFICES ASSUME IInv, Rewrite PROVE IInv'
  OBVIOUS
<1>1. TypeOK /\ LevelInv /\ phase = "boot" /\ StaleInv
  BY DEF IInv, Rewrite
<1>2. PICK f \in Firmwares : f = fw
  BY <1>1 DEF TypeOK
<1>3. PICK p \in Places(f), k \in 0 .. Start - 1 :
         /\ item' = [a \in Items |->
                 [item[a] EXCEPT !.pos = p[a],
                                 !.value = IF a = Counter THEN Zeros(2) ELSE @]]
         /\ job' = FullRewrite(fw, item', k)
  BY <1>2 DEF Rewrite, PlacesOf
<1>4. phase' = "rewrite" /\ mem' = mem /\ fw' = fw /\ highest' = highest
      /\ wear' = wear /\ cut' = cut
  BY DEF Rewrite
<1>5. PICK i : i = item'
  OBVIOUS
<1>6. ASSUME NEW a \in DOMAIN f
      PROVE  /\ i[a] \in ItemType(f[a]) /\ i[a].pos = p[a] /\ i[a].level = item[a].level
             /\ a = Counter => i[a].value = Zeros(2)
  <2> DEFINE v == IF a = Counter THEN Zeros(2) ELSE item[a].value
  <2>1. item[a] \in [pos : Cells, value : [1 .. f[a] -> Bytes], level : Bytes]
    BY <1>1, <1>2 DEF TypeOK, Items
  <2>2. v \in [1 .. f[a] -> Bytes]
    <3>1. Zeros(2) \in [1 .. 2 -> Bytes]
      BY ZerosType
    <3>2. f[Counter] = 2
      BY FirmwareIs
    <3> QED  BY <2>1, <3>1, <3>2
  <2>3. p[a] \in Cells
    BY DEF Places
  <2>4. i[a] = [item[a] EXCEPT !.pos = p[a], !.value = v]
    BY <1>2, <1>3, <1>5 DEF Items
  <2>5. a = Counter => v = Zeros(2)
    OBVIOUS
  <2> HIDE DEF v
  <2>6. i[a] = [pos |-> p[a], value |-> v, level |-> item[a].level]
    BY <2>1, <2>4, Zenon
  <2>7. item[a].level \in Bytes
    BY <2>1
  <2> DEFINE r == [pos |-> p[a], value |-> v, level |-> item[a].level]
  <2>8. /\ r \in ItemType(f[a]) /\ r.pos = p[a] /\ r.value = v
        /\ r.level = item[a].level
    BY <2>2, <2>3, <2>7, Zenon DEF ItemType
  <2> HIDE DEF r
  <2>9. i[a] = r
    BY <2>6 DEF r
  <2> QED  BY <2>5, <2>8, <2>9
<1>7. p \in Placed(f) /\ Apart(f, p)
  BY PlacesApart
<1>8. \A a \in DOMAIN f : i[a].pos = p[a] /\ i[a].value \in [1 .. f[a] -> Bytes]
  BY <1>6, Zenon DEF ItemType
<1>9. PICK m \in [Cells -> Contents] : m = mem
  BY <1>1 DEF TypeOK
<1> DEFINE w == FullRewrite(f, i, k)
           whole == After(m, w, Len(w))
<1>10. /\ w \in Writes /\ w # << >>
       /\ Holds(whole, f, p) /\ \A a \in DOMAIN f : Keeps(whole, p, f, i, a)
       /\ \A n \in 1 .. Len(w) : IsValid(After(m, w, n)) => After(m, w, n) = whole
  BY <1>7, <1>8, RewrittenIs
<1>11. job' = w
  BY <1>2, <1>3, <1>5
<1> HIDE DEF w
<1>12. Complete' = whole /\ \A n : Written(n)' = After(m, w, n)
  BY <1>4, <1>9, <1>11 DEF Complete, Written
<1> HIDE DEF whole
<1>13. DOMAIN i = DOMAIN f
  BY <1>2, <1>3, <1>5 DEF Items
<1>14. TypeOK'
  <2>1. job' \in Seq([pos : Cells, val : Contents])
    BY <1>10, <1>11 DEF Writes
  <2>2. \A a \in DOMAIN f :
           i[a] \in [pos : Cells, value : [1 .. f[a] -> Bytes], level : Bytes]
    BY <1>6 DEF ItemType
  <2> QED  BY <1>1, <1>2, <1>4, <1>5, <1>13, <2>1, <2>2 DEF TypeOK, Items
<1>15. LevelInv'
  BY <1>1, <1>2, <1>4, <1>5, <1>6 DEF LevelInv, Items
<1>16. StaleInv'
  BY <1>1, <1>4 DEF StaleInv, Counts, CountAt
<1>17. RewriteInv'
  <2>1. ItemPlaces' = p
    <3>1. p \in [DOMAIN f -> Cells]
      BY DEF Places
    <3>2. ItemPlaces' = [a \in DOMAIN f |-> i[a].pos]
      BY <1>2, <1>4, <1>5 DEF ItemPlaces, Items
    <3>3. \A a \in DOMAIN f : i[a].pos = p[a]
      BY <1>6
    <3> QED  BY <3>1, <3>2, <3>3
  <2>2. Apart(fw, ItemPlaces)'
    BY <1>2, <1>4, <1>7, <2>1
  <2>3. Holds(Complete, fw, ItemPlaces)'
    BY <1>2, <1>4, <1>10, <1>12, <2>1
  <2>4. (\A a \in Items : Keeps(Complete, ItemPlaces, fw, item, a))'
    BY <1>2, <1>4, <1>5, <1>10, <1>12, <2>1 DEF Items
  <2>5. (\A n \in 1 .. Len(job) : IsValid(Written(n)) => Written(n) = Complete)'
    BY <1>10, <1>11, <1>12
  <2>6. (item[Counter].value = Zeros(2))'
    BY <1>5, <1>6, FirmwareIs
  <2>7. job' # << >>
    BY <1>10, <1>11
  <2> QED  BY <2>2, <2>3, <2>4, <2>5, <2>6, <2>7 DEF RewriteInv
<1> QED  BY <1>4, <1>14, <1>15, <1>16, <1>17 DEF IInv, WearInv

(* An EEPROM that was never used.                                          *)
LEMMA Starts == Init => IInv
<1> SUFFICES ASSUME Init PROVE IInv
  OBVIOUS
<1>1. /\ mem = Blank /\ fw \in Firmwares /\ highest = 0 /\ job = << >> /\ phase = "boot"
      /\ item = [a \in DOMAIN fw |-> [pos |-> 0, value |-> Zeros(fw[a]), level |-> 0]]
      /\ wear = [a \in Addrs |-> 0] /\ cut = FALSE
  BY DEF Init
<1>2. Blank \in [Cells -> Contents] /\ 0 \in Cells /\ 0 \in Bytes
  BY <1>1, BlankIs, FirmwareIs, Numbers
<1>3. ASSUME NEW a \in Items
      PROVE  item[a] \in [pos : Cells, value : [1 .. fw[a] -> Bytes], level : Bytes]
             /\ item[a].level = 0
  <2> DEFINE z == Zeros(fw[a])
  <2>1. z \in [1 .. fw[a] -> Bytes]
    BY <1>1, FirmwareIs, ZerosType DEF Items
  <2> DEFINE r == [pos |-> 0, value |-> z, level |-> 0]
  <2>2. item[a] = r
    BY <1>1 DEF Items
  <2> HIDE DEF z
  <2>3. r \in [pos : Cells, value : [1 .. fw[a] -> Bytes], level : Bytes] /\ r.level = 0
    BY <1>2, <2>1, Zenon
  <2> QED  BY <2>2, <2>3
<1>4. TypeOK
  <2>1. job \in Seq([pos : Cells, val : Contents])
    BY <1>1, EmptySeq
  <2>2. wear \in [Addrs -> 0 .. MaxWear]
    <3>1. 0 \in 0 .. MaxWear
      BY Numbers, SMT
    <3> QED  BY <1>1, <3>1
  <2>3. DOMAIN item = Items
    BY <1>1 DEF Items
  <2>4. cut \in BOOLEAN
    BY <1>1
  <2> QED  BY <1>1, <1>2, <1>3, <2>1, <2>2, <2>3, <2>4 DEF TypeOK
<1>5. LevelInv
  <2>1. 0 < Base - 1
    BY Numbers, SMT
  <2> QED  BY <1>1, <1>3, <2>1, SMT DEF LevelInv
<1> QED  BY <1>1, <1>4, <1>5 DEF IInv, StaleInv, WearInv

-----------------------------------------------------------------------------
(* An item is written.                                                     *)

(* The writes of the record of an item.                                    *)
LEMMA RecordIs ==
    ASSUME NEW g \in Firmwares, NEW p \in Placed(g), Apart(g, p), NEW a \in DOMAIN g,
           NEW v \in Seq(Bytes), Len(v) = g[a]
    PROVE  LET r == Record(a, p[a], v)
           IN  /\ r \in Writes /\ Len(r) = 1 + g[a]
               /\ \A i \in 1 .. 1 + g[a] :
                     /\ r[i].pos = p[a] + (i - 1)
                     /\ r[i].val = IF i = 1 THEN PackHead(a, g[a]) ELSE v[i - 1]
<1> DEFINE n == g[a]
           q == p[a]
           r == Record(a, q, v)
           S == [pos : Cells, val : Contents]
           y(i) == IF i = 1 THEN PackHead(a, n) ELSE v[i - 1]
<1>1. n \in Nat /\ q \in Nat /\ \A i \in 0 .. n : q + i \in Cells
  BY PlaceIs
<1>2. r = [i \in 1 .. 1 + n |-> [pos |-> q + i - 1, val |-> y(i)]]
  BY Numbers DEF Record
<1>3. \A i \in 1 .. n : v[i] \in Bytes
  BY ElementOfSeq
<1>4. PackHead(a, n) \in Contents /\ Bytes \subseteq Contents
  BY HeadInCells, Numbers
<1> HIDE DEF r, n, q
<1>5. \A i \in 1 .. 1 + n : /\ i - 1 \in 0 .. n /\ (i # 1 => i - 1 \in 1 .. n)
                            /\ q + i - 1 = q + (i - 1)
  BY <1>1, SMT
<1>6. ASSUME NEW i \in 1 .. 1 + n
      PROVE  r[i] \in S /\ r[i].pos = q + (i - 1) /\ r[i].val = y(i)
  <2> DEFINE k == q + i - 1
  <2>1. k = q + (i - 1) /\ k \in Cells
    BY <1>1, <1>5
  <2>2. y(i) \in Contents
    BY <1>3, <1>4, <1>5
  <2>3. r[i] = [pos |-> k, val |-> y(i)]
    BY <1>2
  <2> HIDE DEF y, k
  <2>4. [pos |-> k, val |-> y(i)] \in S
    BY <2>1, <2>2
  <2> QED  BY <2>1, <2>3, <2>4
<1>7. r \in [1 .. 1 + n -> S]
  <2>1. r = [i \in 1 .. 1 + n |-> r[i]]
    BY <1>2
  <2> HIDE DEF S
  <2> QED  BY <1>6, <2>1
<1> DEFINE l == 1 + n
<1>8. l \in Nat /\ r \in [1 .. l -> S]
  BY <1>1, <1>7, SMT
<1>9. r \in Seq(S) /\ Len(r) = l
  <2> HIDE DEF l, S
  <2> QED  BY <1>8, IsASeq, LenProperties
<1>10. r \in Writes
  BY <1>9 DEF Writes
<1> HIDE DEF S
<1> QED  BY <1>6, <1>9, <1>10 DEF r, n, q

\* A write that changes a value in the records of g, and nothing else.
Legal(g, p, x) ==
    \E a \in DOMAIN g : \/ x.pos = p[a] + 0 /\ x.val = PackHead(a, g[a])
                        \/ \E j \in 1 .. g[a] : x.pos = p[a] + j /\ x.val \in Bytes

LEMMA LegalKeeps ==
    ASSUME NEW g \in Firmwares, NEW p \in Placed(g), Apart(g, p),
           NEW m \in [Cells -> Contents], Holds(m, g, p),
           NEW w, NEW n \in Nat, \A i \in 1 .. n : Legal(g, p, w[i])
    PROVE  Holds(After(m, w, n), g, p)
<1> DEFINE r == After(m, w, n)
<1>1. \A a \in DOMAIN g : /\ p[a] \in Nat /\ g[a] \in Nat /\ p[a] \in Cells /\ p[a] + 0 = p[a]
                          /\ \A j \in 0 .. g[a] : p[a] + j \in Cells /\ p[a] + j >= Start
  <2> SUFFICES ASSUME NEW a \in DOMAIN g
               PROVE  /\ p[a] \in Nat /\ g[a] \in Nat /\ p[a] \in Cells /\ p[a] + 0 = p[a]
                      /\ \A j \in 0 .. g[a] : p[a] + j \in Cells /\ p[a] + j >= Start
    OBVIOUS
  <2>1. /\ p[a] \in Nat /\ g[a] \in Nat /\ p[a] \in Cells
        /\ \A j \in 0 .. g[a] : p[a] + j \in Cells /\ p[a] + j >= Start
    BY PlaceIs
  <2> QED  BY <2>1, SMT
<1>2. \A a \in DOMAIN g : 0 \in 0 .. g[a] /\ \A j \in 1 .. g[a] : j \in 0 .. g[a] /\ j # 0
  BY <1>1, SMT
<1>3. ASSUME NEW c \in Cells
      PROVE  \/ r[c] = m[c]
             \/ \E a \in DOMAIN g :
                   \/ c = p[a] + 0 /\ r[c] = PackHead(a, g[a])
                   \/ \E j \in 1 .. g[a] : c = p[a] + j /\ r[c] \in Bytes
  <2>1. r[c] = m[c] \/ \E i \in 1 .. n : w[i].pos = c /\ r[c] = w[i].val
    BY AfterIs
  <2> HIDE DEF r
  <2> QED  BY <2>1 DEF Legal
<1> HIDE DEF r
<1>4. ASSUME NEW a \in DOMAIN g, NEW j \in 0 .. g[a], NEW b \in DOMAIN g, NEW k \in 0 .. g[b],
             p[a] + j = p[b] + k
      PROVE  a = b /\ j = k
  <2>1. a = b
    BY <1>4, Disjoint
  <2> QED  BY <1>1, <1>4, <2>1, SMT
<1>5. IsValid(r)
  <2> SUFFICES ASSUME NEW i \in 1 .. Start PROVE r[i - 1] = Marker[i]
    BY DEF IsValid
  <2>1. i - 1 \in Cells /\ ~(i - 1 >= Start)
    BY FirmwareIs, Numbers, SMT DEF Cells
  <2>2. m[i - 1] = Marker[i]
    BY DEF Holds, IsValid
  <2>3. r[i - 1] = m[i - 1]
    BY <1>1, <1>2, <1>3, <2>1
  <2> QED  BY <2>2, <2>3
<1>6. ASSUME NEW a \in DOMAIN g PROVE r[p[a]] = PackHead(a, g[a])
  <2>1. m[p[a]] = PackHead(a, g[a])
    BY DEF Holds
  <2>2. p[a] + 0 \in Cells /\ 0 \in 0 .. g[a]
    BY <1>1, <1>2
  <2>3. r[p[a] + 0] = m[p[a] + 0] \/ r[p[a] + 0] = PackHead(a, g[a])
    BY <1>2, <1>3, <1>4, <2>2
  <2> QED  BY <1>1, <2>1, <2>3
<1>7. ASSUME NEW a \in DOMAIN g, NEW j \in 1 .. g[a] PROVE r[p[a] + j] \in Bytes
  <2>1. m[p[a] + j] \in Bytes
    BY DEF Holds
  <2>2. p[a] + j \in Cells /\ j \in 0 .. g[a] /\ j # 0
    BY <1>1, <1>2
  <2> QED  BY <1>2, <1>3, <1>4, <2>1, <2>2
<1>8. ASSUME NEW c \in Start .. Length - 1, \A a \in DOMAIN g : c \notin Extent(p[a], g[a])
      PROVE  r[c] = 0
  <2>1. m[c] = 0
    BY <1>8 DEF Holds
  <2>2. c \in Cells /\ c \in Int
    BY Numbers, SMT DEF Cells
  <2>3. \A a \in DOMAIN g : \A j \in 0 .. g[a] : c # p[a] + j
    <3> SUFFICES ASSUME NEW a \in DOMAIN g, NEW j \in 0 .. g[a], c = p[a] + j PROVE FALSE
      OBVIOUS
    <3>1. p[a] \in Nat /\ g[a] \in Nat
      BY <1>1
    <3>2. c - p[a] \in 0 .. g[a]
      BY <1>8, <2>2, <3>1, SMT
    <3> QED  BY <1>8, <2>2, <3>1, <3>2, ExtentIs
  <2> QED  BY <1>2, <1>3, <2>1, <2>2, <2>3
<1> QED  BY <1>5, <1>6, <1>7, <1>8 DEF Holds, r

(* One record after the other, or one only: item a is written with the     *)
(* value v, and then the counter with the value x, if it counts (u).       *)
LEMMA JobIs ==
    ASSUME NEW g \in Firmwares, NEW p \in Placed(g), Apart(g, p),
           NEW m \in [Cells -> Contents], Holds(m, g, p),
           NEW a \in DOMAIN g, a # Counter, NEW v \in Seq(Bytes), Len(v) = g[a],
           NEW x \in Seq(Bytes), Len(x) = 2,
           NEW u, u = << >> \/ u = Record(Counter, p[Counter], x)
    PROVE  LET w == Record(a, p[a], v) \o u
               whole == After(m, w, Len(w))
           IN  /\ w \in Writes /\ w # << >>
               /\ \A n \in 0 .. Len(w) : Holds(After(m, w, n), g, p)
               /\ \A j \in 1 .. g[a] : whole[p[a] + j] = v[j]
               /\ \A j \in 1 .. 2 : whole[p[Counter] + j] =
                                      IF u = << >> THEN m[p[Counter] + j] ELSE x[j]
               /\ \A b \in DOMAIN g \ {a, Counter} : \A n \in 0 .. Len(w) :
                     \A j \in 1 .. g[b] : After(m, w, n)[p[b] + j] = m[p[b] + j]
<1> DEFINE r == Record(a, p[a], v)
           w == r \o u
           l == 1 + g[a]
           h == Len(u)
<1>1. /\ Counter \in DOMAIN g /\ g[Counter] = 2
      /\ \A b \in DOMAIN g : /\ g[b] \in Nat /\ p[b] \in Nat
                             /\ \A j \in 0 .. g[b] : p[b] + j \in Cells
  BY FirmwareIs, PlaceIs
<1>2. /\ r \in Writes /\ Len(r) = l
      /\ \A i \in 1 .. l : /\ r[i].pos = p[a] + (i - 1)
                           /\ r[i].val = IF i = 1 THEN PackHead(a, g[a]) ELSE v[i - 1]
  BY RecordIs
<1>3. /\ u \in Writes /\ h \in Nat /\ h = IF u = << >> THEN 0 ELSE 3
      /\ \A i \in 1 .. h : /\ u[i].pos = p[Counter] + (i - 1)
                           /\ u[i].val = IF i = 1 THEN PackHead(Counter, 2) ELSE x[i - 1]
  <2>1. CASE u = << >>
    <3>1. u \in Writes /\ h = 0
      BY <2>1, EmptySeq DEF Writes
    <3> HIDE DEF h
    <3> QED  BY <2>1, <3>1, SMT
  <2>2. CASE u # << >>
    <3>1. u = Record(Counter, p[Counter], x) /\ 1 + 2 = 3
      BY <2>2, SMT
    <3> DEFINE s == Record(Counter, p[Counter], x)
    <3>2. Counter \in DOMAIN g /\ Len(x) = g[Counter]
      BY <1>1
    <3>3. /\ s \in Writes /\ Len(s) = 1 + g[Counter]
          /\ \A i \in 1 .. 1 + g[Counter] :
                /\ s[i].pos = p[Counter] + (i - 1)
                /\ s[i].val = IF i = 1 THEN PackHead(Counter, g[Counter]) ELSE x[i - 1]
      BY <3>2, RecordIs
    <3> HIDE DEF s
    <3>4. u = s
      BY <3>1 DEF s
    <3>5. h = 3 /\ h \in Nat
      BY <1>1, <3>1, <3>3, <3>4
    <3>6. /\ u \in Writes
          /\ \A i \in 1 .. 3 :
                /\ u[i].pos = p[Counter] + (i - 1)
                /\ u[i].val = IF i = 1 THEN PackHead(Counter, 2) ELSE x[i - 1]
      BY <1>1, <3>1, <3>3, <3>4
    <3> HIDE DEF h
    <3> QED  BY <2>2, <3>5, <3>6
  <2> QED  BY <2>1, <2>2
<1> HIDE DEF r
<1>4. /\ w \in Writes /\ Len(w) = l + h
      /\ \A i \in 1 .. l + h : w[i] = IF i <= l THEN r[i] ELSE u[i - l]
  <2> DEFINE S == [pos : Cells, val : Contents]
  <2>1. r \in Seq(S) /\ u \in Seq(S)
    BY <1>2, <1>3 DEF Writes
  <2> HIDE DEF S, l, h
  <2>2. /\ w \in Seq(S) /\ Len(w) = l + h
        /\ \A i \in 1 .. l + h : w[i] = IF i <= l THEN r[i] ELSE u[i - l]
    BY <1>2, <2>1, ConcatProperties DEF h
  <2> QED  BY <2>2 DEF Writes, S
<1> HIDE DEF w
<1>5. l \in Nat /\ l >= 1 /\ l = g[a] + 1 /\ l + h \in Nat
  <2> HIDE DEF h
  <2> QED  BY <1>1, <1>3, SMT
<1>6. w # << >>
  <2> HIDE DEF l, h
  <2>1. l + h # 0
    BY <1>3, <1>5, SMT
  <2> QED  BY <1>4, <2>1, EmptySeq
<1> HIDE DEF h
\* The writes of item a, and those of the counter behind them.
<1>7. ASSUME NEW j \in 0 .. g[a]
      PROVE  /\ 1 + j \in 1 .. l + h /\ w[1 + j].pos = p[a] + j
             /\ w[1 + j].val = IF j = 0 THEN PackHead(a, g[a]) ELSE v[j]
  <2> DEFINE i == 1 + j
  <2>1. i \in 1 .. l /\ i \in 1 .. l + h /\ i <= l /\ i - 1 = j /\ (i = 1 <=> j = 0)
    BY <1>1, <1>3, <1>5, SMT
  <2> HIDE DEF i, l
  <2>2. w[i] = r[i]
    BY <1>4, <2>1
  <2>3. w[i].pos = p[a] + j /\ w[i].val = IF j = 0 THEN PackHead(a, g[a]) ELSE v[j]
    BY <1>2, <2>1, <2>2
  <2> QED  BY <2>1, <2>3 DEF i
<1>8. ASSUME NEW j \in 0 .. 2, u # << >>
      PROVE  /\ l + 1 + j \in 1 .. l + h /\ w[l + 1 + j].pos = p[Counter] + j
             /\ w[l + 1 + j].val = IF j = 0 THEN PackHead(Counter, 2) ELSE x[j]
  <2> DEFINE i == l + 1 + j
             k == 1 + j
  <2>1. /\ i \in 1 .. l + h /\ ~(i <= l) /\ i - l = k /\ k \in 1 .. h /\ k - 1 = j
        /\ (k = 1 <=> j = 0)
    BY <1>3, <1>5, <1>8, SMT
  <2> HIDE DEF i, l, k
  <2>2. w[i] = u[k]
    BY <1>4, <2>1
  <2>3. w[i].pos = p[Counter] + j /\ w[i].val = IF j = 0 THEN PackHead(Counter, 2) ELSE x[j]
    BY <1>3, <2>1, <2>2
  <2> QED  BY <2>1, <2>3 DEF i
<1>9. ASSUME NEW i \in 1 .. l + h
      PROVE  \/ \E j \in 0 .. g[a] : i = 1 + j
             \/ u # << >> /\ \E j \in 0 .. 2 : i = l + 1 + j
  <2>1. CASE i <= l
    <3>1. i - 1 \in 0 .. g[a] /\ i = 1 + (i - 1)
      BY <1>1, <1>5, <2>1, SMT
    <3> QED  BY <3>1
  <2>2. CASE ~(i <= l)
    <3>1. h # 0
      BY <1>3, <1>5, <2>2, SMT
    <3>2. u # << >> /\ h = 3
      BY <1>3, <3>1
    <3>3. i - l - 1 \in 0 .. 2 /\ i = l + 1 + (i - l - 1)
      BY <1>5, <2>2, <3>2, SMT
    <3> QED  BY <3>2, <3>3
  <2> QED  BY <2>1, <2>2
<1> HIDE DEF l
<1>10. \A j \in 1 .. g[a] : v[j] \in Bytes
  BY ElementOfSeq
<1>11. \A j \in 1 .. 2 : x[j] \in Bytes
  BY ElementOfSeq
<1>12. ASSUME NEW n \in 0 .. Len(w) PROVE Holds(After(m, w, n), g, p)
  <2>1. n \in Nat /\ \A i \in 1 .. n : i \in 1 .. l + h
    BY <1>4, <1>5, SMT
  <2>2. ASSUME NEW j \in 0 .. g[a] PROVE Legal(g, p, w[1 + j])
    <3>1. j # 0 => j \in 1 .. g[a]
      BY <1>1, SMT
    <3> QED  BY <1>7, <1>10, <3>1 DEF Legal
  <2>3. ASSUME NEW j \in 0 .. 2, u # << >> PROVE Legal(g, p, w[l + 1 + j])
    <3>1. j # 0 => j \in 1 .. 2
      BY SMT
    <3> QED  BY <1>1, <1>8, <1>11, <2>3, <3>1 DEF Legal
  <2>4. \A i \in 1 .. n : Legal(g, p, w[i])
    BY <1>9, <2>1, <2>2, <2>3
  <2> QED  BY <2>1, <2>4, LegalKeeps
<1>13. ASSUME NEW j \in 1 .. g[a] PROVE After(m, w, Len(w))[p[a] + j] = v[j]
  <2> DEFINE c == p[a] + j
             t == 1 + j
  <2>1. j \in 0 .. g[a] /\ j # 0 /\ j \in Nat
    BY <1>1, SMT
  <2>2. t \in 1 .. l + h /\ w[t].pos = c /\ w[t].val = v[j]
    BY <1>7, <2>1
  <2>3. c \in Cells /\ p[a] \in Nat
    BY <1>1, <2>1
  <2>4. ASSUME NEW i \in t + 1 .. l + h PROVE w[i].pos # c
    <3>1. i \in 1 .. l + h /\ i # t
      BY <1>5, <2>1, SMT
    <3>2. ASSUME NEW k \in 0 .. g[a], i = 1 + k PROVE w[i].pos # c
      <4>1. w[i].pos = p[a] + k
        BY <1>7, <3>2
      <4>2. p[a] + k # p[a] + j
        BY <1>1, <2>1, <2>3, <3>1, <3>2, SMT
      <4> QED  BY <4>1, <4>2
    <3>3. ASSUME NEW k \in 0 .. 2, u # << >>, i = l + 1 + k PROVE w[i].pos # c
      <4>1. w[i].pos = p[Counter] + k
        BY <1>8, <3>3
      <4>2. p[a] + j # p[Counter] + k
        BY <1>1, <2>1, Disjoint
      <4> QED  BY <4>1, <4>2
    <3> QED  BY <1>9, <3>1, <3>2, <3>3
  <2> HIDE DEF c, t
  <2>5. After(m, w, l + h)[c] = w[t].val
    BY <1>5, <2>2, <2>3, <2>4, AfterIs
  <2> QED  BY <1>4, <2>2, <2>5 DEF c
<1>14. ASSUME NEW j \in 1 .. 2
       PROVE  After(m, w, Len(w))[p[Counter] + j] = IF u = << >> THEN m[p[Counter] + j] ELSE x[j]
  <2> DEFINE c == p[Counter] + j
  <2>1. j \in 0 .. 2 /\ j # 0 /\ j \in 0 .. g[Counter] /\ j \in Nat
    BY <1>1, SMT
  <2>2. c \in Cells /\ p[Counter] \in Nat
    BY <1>1, <2>1
  <2>3. ASSUME NEW k \in 0 .. g[a] PROVE w[1 + k].pos # c
    <3>1. p[a] + k # p[Counter] + j
      BY <1>1, <2>1, Disjoint
    <3> QED  BY <1>7, <3>1
  <2>4. CASE u = << >>
    <3>1. \A i \in 1 .. l + h : w[i].pos # c
      BY <1>9, <2>3, <2>4
    <3> HIDE DEF c
    <3>2. After(m, w, l + h)[c] = m[c]
      BY <1>5, <2>2, <3>1, AfterIs
    <3> QED  BY <1>4, <2>4, <3>2 DEF c
  <2>5. CASE u # << >>
    <3> DEFINE t == l + 1 + j
    <3>1. t \in 1 .. l + h /\ w[t].pos = c /\ w[t].val = x[j]
      BY <1>8, <2>1, <2>5
    <3>2. ASSUME NEW i \in t + 1 .. l + h PROVE w[i].pos # c
      <4>1. i \in 1 .. l + h /\ i # t /\ i > t
        BY <1>5, <2>1, SMT
      <4>2. ASSUME NEW k \in 0 .. 2, i = l + 1 + k PROVE w[i].pos # c
        <5>1. w[i].pos = p[Counter] + k
          BY <1>8, <2>5, <4>2
        <5>2. k # j
          BY <4>1, <4>2
        <5>3. p[Counter] + k # p[Counter] + j
          BY <2>1, <2>2, <5>2, SMT
        <5> QED  BY <5>1, <5>3
      <4> QED  BY <1>9, <2>3, <4>1, <4>2
    <3> HIDE DEF c, t
    <3>3. After(m, w, l + h)[c] = w[t].val
      BY <1>5, <2>2, <3>1, <3>2, AfterIs
    <3> QED  BY <1>4, <2>5, <3>1, <3>3 DEF c
  <2> QED  BY <2>4, <2>5
<1>15. ASSUME NEW b \in DOMAIN g \ {a, Counter}, NEW n \in 0 .. Len(w), NEW j \in 1 .. g[b]
       PROVE  After(m, w, n)[p[b] + j] = m[p[b] + j]
  <2> DEFINE c == p[b] + j
  <2>1. b \in DOMAIN g /\ j \in 0 .. g[b] /\ b # a /\ b # Counter
    BY <1>1, SMT
  <2>2. c \in Cells
    BY <1>1, <2>1
  <2>3. n \in Nat /\ \A i \in 1 .. n : i \in 1 .. l + h
    BY <1>4, <1>5, SMT
  <2>4. \A k \in 0 .. g[a] : w[1 + k].pos # c
    BY <1>7, <2>1, Disjoint
  <2>5. ASSUME NEW k \in 0 .. 2, u # << >> PROVE w[l + 1 + k].pos # c
    <3>1. p[b] + j # p[Counter] + k
      BY <1>1, <2>1, Disjoint
    <3> QED  BY <1>8, <2>5, <3>1
  <2>6. \A i \in 1 .. n : w[i].pos # c
    BY <1>9, <2>3, <2>4, <2>5
  <2> HIDE DEF c
  <2>7. After(m, w, n)[c] = m[c]
    BY <2>2, <2>3, <2>6, AfterIs
  <2> QED  BY <2>7 DEF c
<1> QED  BY <1>4, <1>6, <1>12, <1>13, <1>14, <1>15 DEF w, r

(* An item of n bytes with another value, level or place.                  *)
LEMMA OtherValue ==
    ASSUME NEW n, NEW y \in ItemType(n), NEW v \in [1 .. n -> Bytes],
           NEW z, z = [y EXCEPT !.value = v]
    PROVE  z \in ItemType(n) /\ z.pos = y.pos /\ z.value = v /\ z.level = y.level
<1>1. z = [pos |-> y.pos, value |-> v, level |-> y.level]
  BY Zenon DEF ItemType
<1>2. y.pos \in Cells /\ y.level \in Bytes
  BY DEF ItemType
<1> DEFINE r == [pos |-> y.pos, value |-> v, level |-> y.level]
<1>3. r \in ItemType(n) /\ r.pos = y.pos /\ r.value = v /\ r.level = y.level
  BY <1>2, Zenon DEF ItemType
<1> QED  BY <1>1, <1>3, Zenon

LEMMA OtherLevel ==
    ASSUME NEW n, NEW y \in ItemType(n), NEW l \in Bytes, NEW z, z = [y EXCEPT !.level = l]
    PROVE  z \in ItemType(n) /\ z.pos = y.pos /\ z.value = y.value /\ z.level = l
<1>1. z = [pos |-> y.pos, value |-> y.value, level |-> l]
  BY Zenon DEF ItemType
<1>2. y.pos \in Cells /\ y.value \in [1 .. n -> Bytes]
  BY DEF ItemType
<1> DEFINE r == [pos |-> y.pos, value |-> y.value, level |-> l]
<1>3. r \in ItemType(n) /\ r.pos = y.pos /\ r.value = y.value /\ r.level = l
  BY <1>2, Zenon DEF ItemType
<1> QED  BY <1>1, <1>3, Zenon

\* The counter when it was counted once more.
OneMore(v) == CountBytes(IF CountOf(v) < MaxCount THEN CountOf(v) + 1 ELSE CountOf(v))

LEMMA OneMoreIs ==
    ASSUME NEW v, v[1] \in Bytes, v[2] \in Bytes
    PROVE  /\ OneMore(v) \in Seq(Bytes) /\ Len(OneMore(v)) = 2 /\ OneMore(v) \in [1 .. 2 -> Bytes]
           /\ CountOf(OneMore(v)) = IF CountOf(v) < MaxCount THEN CountOf(v) + 1 ELSE CountOf(v)
           /\ CountOf(v) \in 0 .. MaxCount /\ MaxCount \in Int
<1> DEFINE n == IF CountOf(v) < MaxCount THEN CountOf(v) + 1 ELSE CountOf(v)
<1>1. CountOf(v) \in 0 .. MaxCount
  BY CountType
<1>2. MaxCount \in Int
  BY Numbers, SMT DEF MaxCount
<1>3. n \in 0 .. MaxCount
  BY <1>1, <1>2, SMT
<1>4. OneMore(v) = CountBytes(n)
  BY DEF OneMore
<1> HIDE DEF n
<1>5. OneMore(v) \in [1 .. 2 -> Bytes] /\ Len(OneMore(v)) = 2 /\ CountOf(OneMore(v)) = n
  BY <1>3, <1>4, CountIs
<1>6. OneMore(v) \in Seq(Bytes)
  <2> DEFINE o == OneMore(v)
  <2>1. PICK k \in Nat : k = 2
    OBVIOUS
  <2>2. o \in [1 .. k -> Bytes]
    BY <1>5, <2>1
  <2> HIDE DEF o
  <2> QED  BY <2>2, IsASeq DEF o
<1> QED  BY <1>1, <1>2, <1>5, <1>6 DEF n

LEMMA IncIs ==
    ASSUME NEW f \in Firmwares, NEW items, DOMAIN items = DOMAIN f, NEW level,
           \A b \in DOMAIN f : items[b] \in ItemType(f[b])
    PROVE  LET r == Inc(items, level)
               x == OneMore(items[Counter].value)
           IN  /\ level <= highest =>
                     r.item = items /\ r.highest = highest /\ r.writes = << >>
               /\ ~(level <= highest) =>
                     /\ r.highest = IF level = Base - 1 THEN 0 ELSE level
                     /\ r.writes = Record(Counter, items[Counter].pos, x)
                     /\ DOMAIN r.item = DOMAIN f
                     /\ \A b \in DOMAIN f :
                           /\ r.item[b] \in ItemType(f[b]) /\ r.item[b].pos = items[b].pos
                           /\ r.item[b].value = IF b = Counter THEN x ELSE items[b].value
                           /\ r.item[b].level = IF level = Base - 1 THEN 0 ELSE items[b].level
<1> DEFINE x == OneMore(items[Counter].value)
           counted == [items EXCEPT ![Counter].value = x]
           none == [b \in DOMAIN items |-> [counted[b] EXCEPT !.level = 0]]
           after == IF level = Base - 1 THEN none ELSE counted
           w == Record(Counter, items[Counter].pos, x)
           r == Inc(items, level)
<1>1. Counter \in DOMAIN f /\ f[Counter] = 2 /\ 0 \in Bytes
  BY FirmwareIs, Numbers
<1>2. x \in [1 .. 2 -> Bytes]
  <2>1. items[Counter].value \in [1 .. 2 -> Bytes]
    BY <1>1 DEF ItemType
  <2>2. items[Counter].value[1] \in Bytes /\ items[Counter].value[2] \in Bytes
    BY <2>1, SMT
  <2> QED  BY <2>2, OneMoreIs
<1>3. /\ level <= highest => r = [item |-> items, highest |-> highest, writes |-> << >>]
      /\ ~(level <= highest) =>
            r = [item |-> after, highest |-> IF level = Base - 1 THEN 0 ELSE level, writes |-> w]
  BY DEF Inc, OneMore
<1> HIDE DEF x
<1>4. /\ DOMAIN counted = DOMAIN f
      /\ \A b \in DOMAIN f : counted[b] = IF b = Counter THEN [items[b] EXCEPT !.value = x]
                                          ELSE items[b]
  BY <1>1
<1>5. \A b \in DOMAIN f : /\ counted[b] \in ItemType(f[b]) /\ counted[b].pos = items[b].pos
                          /\ counted[b].value = IF b = Counter THEN x ELSE items[b].value
                          /\ counted[b].level = items[b].level
  <2> SUFFICES ASSUME NEW b \in DOMAIN f
               PROVE  /\ counted[b] \in ItemType(f[b]) /\ counted[b].pos = items[b].pos
                      /\ counted[b].value = IF b = Counter THEN x ELSE items[b].value
                      /\ counted[b].level = items[b].level
    OBVIOUS
  <2> HIDE DEF counted
  <2>1. CASE b = Counter
    <3>1. counted[b] = [items[b] EXCEPT !.value = x] /\ x \in [1 .. f[b] -> Bytes]
          /\ items[b] \in ItemType(f[b])
      BY <1>1, <1>2, <1>4, <2>1
    <3> QED  BY <2>1, <3>1, OtherValue
  <2>2. CASE b # Counter
    BY <1>4, <2>2
  <2> QED  BY <2>1, <2>2
<1>6. /\ DOMAIN none = DOMAIN f
      /\ \A b \in DOMAIN f : none[b] = [counted[b] EXCEPT !.level = 0]
  <2> HIDE DEF counted
  <2> QED  OBVIOUS
<1> HIDE DEF counted
<1>7. \A b \in DOMAIN f : /\ none[b] \in ItemType(f[b]) /\ none[b].pos = items[b].pos
                          /\ none[b].value = IF b = Counter THEN x ELSE items[b].value
                          /\ none[b].level = 0
  <2> SUFFICES ASSUME NEW b \in DOMAIN f
               PROVE  /\ none[b] \in ItemType(f[b]) /\ none[b].pos = items[b].pos
                      /\ none[b].value = IF b = Counter THEN x ELSE items[b].value
                      /\ none[b].level = 0
    OBVIOUS
  <2> DEFINE y == counted[b]
             z == none[b]
  <2>1. y \in ItemType(f[b]) /\ y.value \in [1 .. f[b] -> Bytes]
    BY <1>5 DEF ItemType
  <2>2. z = [y EXCEPT !.level = 0]
    BY <1>6
  <2> HIDE DEF none, z
  <2>3. z \in ItemType(f[b]) /\ z.pos = y.pos /\ z.value = y.value /\ z.level = 0
    <3> HIDE DEF y
    <3> QED  BY <1>1, <2>1, <2>2, OtherLevel
  <2> QED  BY <1>5, <2>3 DEF z
<1> HIDE DEF none
<1>8. /\ DOMAIN after = DOMAIN f
      /\ \A b \in DOMAIN f :
            /\ after[b] \in ItemType(f[b]) /\ after[b].pos = items[b].pos
            /\ after[b].value = IF b = Counter THEN x ELSE items[b].value
            /\ after[b].level = IF level = Base - 1 THEN 0 ELSE items[b].level
  BY <1>4, <1>5, <1>6, <1>7
<1> HIDE DEF after, w, r
<1>9. level <= highest => r.item = items /\ r.highest = highest /\ r.writes = << >>
  BY <1>3
<1>10. ~(level <= highest) =>
          /\ r.item = after /\ r.highest = (IF level = Base - 1 THEN 0 ELSE level)
          /\ r.writes = w
  BY <1>3
<1> QED  BY <1>8, <1>9, <1>10 DEF r, w, x

LEMMA WriteKeeps ==
    ASSUME NEW a \in Items \ {Counter}, NEW v \in Values[a], Len(v) = fw[a], IInv, Write(a, v)
    PROVE  IInv' /\ job' # << >>
<1> DEFINE level == (item[a].level + 1) % Base
           items == [item EXCEPT ![a].value = v, ![a].level = level]
           r == Inc(items, level)
<1>1. TypeOK /\ LevelInv /\ WearInv
  BY DEF IInv
<1>2. /\ phase = "ready" /\ job = << >> /\ wear[a] < MaxWear
      /\ wear' = [wear EXCEPT ![a] = @ + 1]
      /\ job' = Record(a, item[a].pos, v) \o r.writes
      /\ item' = r.item /\ highest' = r.highest
      /\ mem' = mem /\ fw' = fw /\ phase' = phase /\ cut' = cut
  BY DEF Write
<1>3. PICK f \in Firmwares : f = fw
  BY <1>1 DEF TypeOK
<1>4. PICK i : i = item
  OBVIOUS
<1>5. /\ DOMAIN i = DOMAIN f /\ \A b \in DOMAIN f : i[b] \in ItemType(f[b])
      /\ \A b \in DOMAIN f : i[b].level \in Nat /\ i[b].level <= highest
  BY <1>1, <1>3, <1>4, LevelIs DEF TypeOK, Items, ItemType
<1>6. /\ Counter \in DOMAIN f /\ f[Counter] = 2 /\ a \in DOMAIN f /\ a # Counter
      /\ a \in Addrs /\ DOMAIN f \subseteq Addrs /\ f[a] \in Nat
  BY <1>3, FirmwareIs DEF Items
<1>7. v \in Seq(Bytes) /\ Len(v) = f[a] /\ v \in [1 .. f[a] -> Bytes]
  <2>1. v \in Seq(Bytes)
    BY <1>6, StoreAssumption
  <2>2. v \in [1 .. Len(v) -> Bytes]
    BY <2>1, LenProperties, ElementOfSeq
  <2> QED  BY <1>3, <2>1, <2>2
\* The level of the item, which cannot pass the highest by more than one.
<1>8. PICK h \in Nat : h = highest /\ h < Base - 1
  BY <1>1, LevelIs
<1>9. PICK l \in Nat : l = level /\ l = i[a].level + 1 /\ l <= h + 1 /\ l \in Bytes
  <2>1. i[a].level \in Nat /\ i[a].level <= h
    BY <1>5, <1>6, <1>8
  <2> DEFINE k == i[a].level + 1
  <2>2. k \in 0 .. Base - 1 /\ k <= h + 1 /\ k \in Nat /\ Base \in Nat \ {0} /\ 0 \in Int
    BY <1>8, <2>1, Numbers, SMT
  <2>3. k % Base = k
    <3> HIDE DEF k
    <3>1. (0 * Base + k) % Base = k
      BY <2>2, Division
    <3>2. 0 * Base + k = k
      BY <2>2, SMT
    <3> QED  BY <3>1, <3>2
  <2>4. level = k
    BY <1>4, <2>3
  <2>5. k \in Bytes
    BY <2>2 DEF Bytes
  <2> HIDE DEF level
  <2> QED  BY <2>2, <2>4, <2>5
\* The items, with the one that is written.
<1>10. PICK y : y = items
  OBVIOUS
<1>11. /\ DOMAIN y = DOMAIN f
       /\ y[a] \in ItemType(f[a]) /\ y[a].pos = i[a].pos /\ y[a].value = v /\ y[a].level = l
       /\ \A b \in DOMAIN f : b # a => y[b] = i[b]
  <2> DEFINE z == [i[a] EXCEPT !.value = v]
  <2>1. i[a] \in ItemType(f[a])
    BY <1>5, <1>6
  <2>2. z \in ItemType(f[a]) /\ z.pos = i[a].pos /\ z.value = v /\ z.level = i[a].level
    BY <1>7, <2>1, OtherValue
  <2>3. y = [i EXCEPT ![a] = [z EXCEPT !.level = l]]
    <3>1. items = [item EXCEPT ![a].value = v, ![a].level = l]
      BY <1>9
    <3>2. [i EXCEPT ![a].value = v, ![a].level = l] = [i EXCEPT ![a] = [z EXCEPT !.level = l]]
      BY <1>5, <1>6, Zenon
    <3> QED  BY <1>4, <1>10, <3>1, <3>2
  <2> HIDE DEF z
  <2>4. y[a] = [z EXCEPT !.level = l]
    BY <1>5, <1>6, <2>3
  <2>5. y[a] \in ItemType(f[a]) /\ y[a].pos = z.pos /\ y[a].value = z.value /\ y[a].level = l
    BY <1>9, <2>2, <2>4, OtherLevel
  <2>6. DOMAIN y = DOMAIN f /\ \A b \in DOMAIN f : b # a => y[b] = i[b]
    BY <1>5, <2>3
  <2> QED  BY <2>2, <2>5, <2>6
<1> HIDE DEF level, items
<1>12. PICK s : s = Inc(y, l)
  OBVIOUS
<1>13. item' = s.item /\ highest' = s.highest /\ job' = Record(a, i[a].pos, v) \o s.writes
  BY <1>2, <1>4, <1>9, <1>10, <1>12
<1>14. PICK x : x = OneMore(i[Counter].value)
  OBVIOUS
<1>15. /\ x \in Seq(Bytes) /\ Len(x) = 2
       /\ CountOf(x) = IF CountOf(i[Counter].value) < MaxCount
                       THEN CountOf(i[Counter].value) + 1 ELSE CountOf(i[Counter].value)
       /\ CountOf(i[Counter].value) \in 0 .. MaxCount /\ MaxCount \in Int
  <2>1. i[Counter].value \in [1 .. 2 -> Bytes]
    BY <1>5, <1>6 DEF ItemType
  <2>2. i[Counter].value[1] \in Bytes /\ i[Counter].value[2] \in Bytes
    BY <2>1, SMT
  <2> QED  BY <1>14, <2>2, OneMoreIs
<1>16. PICK counted \in BOOLEAN : (counted => ~(l <= h)) /\ (~counted => l <= h)
  <2>1. CASE l <= h
    <3> WITNESS FALSE \in BOOLEAN
    <3> QED  BY <2>1
  <2>2. CASE ~(l <= h)
    <3> WITNESS TRUE \in BOOLEAN
    <3> QED  BY <2>2
  <2> QED  BY <2>1, <2>2
<1>17. /\ DOMAIN s.item = DOMAIN f
       /\ s.highest = IF ~counted THEN h ELSE IF l = Base - 1 THEN 0 ELSE l
       /\ s.writes = IF counted THEN Record(Counter, i[Counter].pos, x) ELSE << >>
       /\ \A b \in DOMAIN f :
             /\ s.item[b] \in ItemType(f[b]) /\ s.item[b].pos = i[b].pos
             /\ s.item[b].value = IF b = a THEN v
                                  ELSE IF b = Counter /\ counted THEN x ELSE i[b].value
             /\ s.item[b].level = IF counted /\ l = Base - 1 THEN 0
                                  ELSE IF b = a THEN l ELSE i[b].level
  <2>1. /\ \A b \in DOMAIN f : y[b] \in ItemType(f[b]) /\ y[b].pos = i[b].pos
        /\ \A b \in DOMAIN f : y[b].value = IF b = a THEN v ELSE i[b].value
        /\ \A b \in DOMAIN f : y[b].level = IF b = a THEN l ELSE i[b].level
    BY <1>5, <1>11
  <2>2. y[Counter] = i[Counter] /\ OneMore(y[Counter].value) = x
    BY <1>6, <1>11, <1>14
  <2> DEFINE q == Inc(y, l)
             o == OneMore(y[Counter].value)
  <2>5. /\ l <= highest => q.item = y /\ q.highest = highest /\ q.writes = << >>
        /\ ~(l <= highest) =>
              /\ q.highest = IF l = Base - 1 THEN 0 ELSE l
              /\ q.writes = Record(Counter, y[Counter].pos, o)
              /\ DOMAIN q.item = DOMAIN f
              /\ \A b \in DOMAIN f :
                    /\ q.item[b] \in ItemType(f[b]) /\ q.item[b].pos = y[b].pos
                    /\ q.item[b].value = IF b = Counter THEN o ELSE y[b].value
                    /\ q.item[b].level = IF l = Base - 1 THEN 0 ELSE y[b].level
    BY <1>11, <2>1, IncIs
  <2> HIDE DEF q, o
  <2>6. q = s /\ o = x
    BY <1>12, <2>2 DEF q, o
  <2>3. CASE ~counted
    <3>1. s.item = y /\ s.highest = h /\ s.writes = << >>
      BY <1>8, <1>16, <2>3, <2>5, <2>6
    <3> QED  BY <1>11, <2>1, <2>3, <3>1
  <2>4. CASE counted
    <3>1. /\ s.highest = IF l = Base - 1 THEN 0 ELSE l
          /\ s.writes = Record(Counter, y[Counter].pos, x)
          /\ DOMAIN s.item = DOMAIN f
          /\ \A b \in DOMAIN f :
                /\ s.item[b] \in ItemType(f[b]) /\ s.item[b].pos = y[b].pos
                /\ s.item[b].value = IF b = Counter THEN x ELSE y[b].value
                /\ s.item[b].level = IF l = Base - 1 THEN 0 ELSE y[b].level
      BY <1>8, <1>16, <2>4, <2>5, <2>6
    <3> QED  BY <1>6, <2>1, <2>2, <2>4, <3>1
  <2> QED  BY <1>16, <2>3, <2>4
<1>18. PICK g \in Firmwares : \E p \in Placed(g) : ReadyInv(g, p)
  BY <1>2 DEF IInv
<1>19. PICK p \in Placed(g) : ReadyInv(g, p)
  BY <1>18
<1>20. PICK m \in [Cells -> Contents] : m = mem
  BY <1>1 DEF TypeOK
<1>21. /\ Apart(g, p) /\ Holds(m, g, p)
       /\ \A b \in DOMAIN f : /\ b \in DOMAIN g /\ g[b] = f[b] /\ i[b].pos = p[b]
                              /\ Keeps(m, p, f, i, b)
  <2>1. Len(job) = 0 /\ 0 \in 0 .. Len(job)
    <3>1. Len(job) = 0
      BY <1>2, EmptySeq
    <3> QED  BY <3>1
  <2>2. Written(0) = m /\ Complete = m
    BY <1>1, <1>20, <2>1, NoneWritten DEF Complete
  <2> QED  BY <1>3, <1>4, <1>19, <2>1, <2>2 DEF ReadyInv, Items
<1>22. PICK u : u = s.writes
  OBVIOUS
<1> DEFINE w == Record(a, p[a], v) \o u
<1>24. /\ job' = w /\ u = IF counted THEN Record(Counter, p[Counter], x) ELSE << >>
       /\ (u = << >> \/ u = Record(Counter, p[Counter], x))
  BY <1>6, <1>13, <1>17, <1>21, <1>22
<1>25. counted => u # << >>
  <2> SUFFICES ASSUME counted PROVE u # << >>
    OBVIOUS
  <2>1. Counter \in DOMAIN g /\ Len(x) = g[Counter] /\ 1 + g[Counter] # 0
    BY <1>6, <1>15, <1>21, SMT
  <2>2. Len(Record(Counter, p[Counter], x)) = 1 + g[Counter]
    BY <1>15, <1>21, <2>1, RecordIs
  <2> QED  BY <1>24, <2>1, <2>2, EmptySeq
<1> DEFINE whole == After(m, w, Len(w))
<1>26. /\ w \in Writes /\ w # << >>
       /\ \A n \in 0 .. Len(w) : Holds(After(m, w, n), g, p)
       /\ \A j \in 1 .. f[a] : whole[p[a] + j] = v[j]
       /\ \A j \in 1 .. 2 : whole[p[Counter] + j] =
                              IF u = << >> THEN m[p[Counter] + j] ELSE x[j]
       /\ \A b \in DOMAIN g \ {a, Counter} : \A n \in 0 .. Len(w) :
             \A j \in 1 .. g[b] : After(m, w, n)[p[b] + j] = m[p[b] + j]
  <2>1. a \in DOMAIN g /\ Len(v) = g[a] /\ f[a] = g[a]
    BY <1>6, <1>7, <1>21
  <2>2. /\ Apart(g, p) /\ Holds(m, g, p) /\ a # Counter /\ v \in Seq(Bytes)
        /\ x \in Seq(Bytes) /\ Len(x) = 2
        /\ (u = << >> \/ u = Record(Counter, p[Counter], x))
    BY <1>6, <1>7, <1>15, <1>21, <1>24
  <2>3. w \in Writes /\ w # << >>
    BY <2>1, <2>2, JobIs
  <2>4. \A n \in 0 .. Len(w) : Holds(After(m, w, n), g, p)
    BY <2>1, <2>2, JobIs
  <2>5. \A j \in 1 .. g[a] : whole[p[a] + j] = v[j]
    BY <2>1, <2>2, JobIs
  <2>6. ASSUME NEW j \in 1 .. 2
        PROVE  whole[p[Counter] + j] = IF u = << >> THEN m[p[Counter] + j] ELSE x[j]
    BY <2>1, <2>2, JobIs
  <2>7. ASSUME NEW b \in DOMAIN g \ {a, Counter}, NEW n \in 0 .. Len(w), NEW j \in 1 .. g[b]
        PROVE  After(m, w, n)[p[b] + j] = m[p[b] + j]
    BY <2>1, <2>2, JobIs
  <2> HIDE DEF w
  <2> QED  BY <2>1, <2>3, <2>4, <2>5, <2>6, <2>7
<1> HIDE DEF w
<1>27. Complete' = whole /\ \A n : Written(n)' = After(m, w, n)
  BY <1>2, <1>20, <1>24 DEF Complete, Written
<1>28. Len(w) \in Nat /\ Len(w) \in 0 .. Len(w)
  <2>1. Len(w) \in Nat
    BY <1>26, LenProperties DEF Writes
  <2> QED  BY <2>1, SMT
<1> HIDE DEF whole
<1>29. ReadyInv(g, p)'
  <2>1. \A n \in 0 .. Len(job') : Holds(Written(n)', g, p)
    BY <1>24, <1>26, <1>27
  <2>2. \A b \in DOMAIN f : b \in DOMAIN g /\ g[b] = f[b] /\ s.item[b].pos = p[b]
    BY <1>17, <1>21
  <2>3. ASSUME NEW b \in DOMAIN f \ {a, Counter}, NEW n \in 0 .. Len(w)
        PROVE  Keeps(After(m, w, n), p, f, s.item, b)
    <3>1. s.item[b].value = i[b].value /\ b \in DOMAIN g \ {a, Counter} /\ g[b] = f[b]
      BY <1>17, <1>21
    <3>2. \A j \in 1 .. f[b] : After(m, w, n)[p[b] + j] = m[p[b] + j]
      BY <1>26, <3>1
    <3>3. \A j \in 1 .. f[b] : m[p[b] + j] = i[b].value[j]
      BY <1>21 DEF Keeps
    <3> QED  BY <3>1, <3>2, <3>3 DEF Keeps
  <2>4. Keeps(whole, p, f, s.item, a)
    <3>1. s.item[a].value = v
      BY <1>6, <1>17
    <3> QED  BY <1>26, <3>1 DEF Keeps
  <2>5. Keeps(whole, p, f, s.item, Counter)
    <3>1. CASE counted
      <4>1. s.item[Counter].value = x
        BY <1>6, <1>17, <3>1
      <4>2. \A j \in 1 .. 2 : whole[p[Counter] + j] = x[j]
        BY <1>25, <1>26, <3>1
      <4> QED  BY <1>6, <4>1, <4>2 DEF Keeps
    <3>2. CASE ~counted
      <4>1. s.item[Counter].value = i[Counter].value /\ u = << >>
        BY <1>6, <1>17, <1>22, <3>2
      <4>2. \A j \in 1 .. 2 : whole[p[Counter] + j] = m[p[Counter] + j]
        BY <1>26, <4>1
      <4>3. \A j \in 1 .. f[Counter] : m[p[Counter] + j] = i[Counter].value[j]
        BY <1>6, <1>21 DEF Keeps
      <4> QED  BY <1>6, <4>1, <4>2, <4>3 DEF Keeps
    <3> QED  BY <3>1, <3>2
  <2>6. \A b \in DOMAIN f : Keeps(whole, p, f, s.item, b)
    <3>1. \A b \in DOMAIN f \ {a, Counter} : Keeps(whole, p, f, s.item, b)
      BY <1>28, <2>3 DEF whole
    <3> QED  BY <2>4, <2>5, <3>1
  <2>7. Items' = DOMAIN f /\ fw' = f /\ a \in Items'
    BY <1>2, <1>3, <1>6 DEF Items
  <2>8. (\A b \in Items : b \in DOMAIN g /\ g[b] = fw[b] /\ item[b].pos = p[b])'
    BY <1>13, <2>2, <2>7
  <2>9. (\A b \in Items : Keeps(Complete, p, fw, item, b))'
    BY <1>13, <1>27, <2>6, <2>7
  <2>10. (\E c \in Items : \A b \in Items \ {c, Counter} :
            \A n \in 0 .. Len(job) : Keeps(Written(n), p, fw, item, b))'
    BY <1>13, <1>24, <1>27, <2>3, <2>7
  <2> QED  BY <1>21, <2>1, <2>8, <2>9, <2>10 DEF ReadyInv
<1>30. /\ l + 1 <= Base - 1 \/ l = Base - 1
       /\ counted => l = h + 1
       /\ 0 < Base - 1 /\ Base \in Nat
  <2>1. (l + 1 <= Base - 1 \/ l = Base - 1) /\ 0 < Base - 1 /\ Base \in Nat
    BY <1>8, <1>9, Numbers, SMT DEF Bytes
  <2>2. ~(l <= h) => l = h + 1
    BY <1>8, <1>9, SMT
  <2> QED  BY <1>16, <2>1, <2>2
<1>31. highest' \in Bytes /\ highest' < Base - 1
  <2>1. h \in Bytes
    BY <1>8, Numbers, SMT DEF Bytes
  <2>2. s.highest \in Bytes
    BY <1>9, <1>17, <2>1, Numbers
  <2>3. s.highest < Base - 1
    BY <1>8, <1>9, <1>17, <1>30, SMT
  <2> QED  BY <1>13, <2>2, <2>3
<1>32. TypeOK'
  <2>1. wear' \in [Addrs -> 0 .. MaxWear]
    <3>1. wear \in [Addrs -> 0 .. MaxWear]
      BY <1>1 DEF TypeOK
    <3>2. wear[a] + 1 \in 0 .. MaxWear
      BY <1>2, <1>6, <3>1, Numbers, SMT
    <3> QED  BY <1>2, <3>1, <3>2
  <2>2. job' \in Seq([pos : Cells, val : Contents])
    BY <1>24, <1>26 DEF Writes
  <2>3. /\ DOMAIN item' = DOMAIN f
        /\ \A b \in DOMAIN f :
              item'[b] \in [pos : Cells, value : [1 .. f[b] -> Bytes], level : Bytes]
    BY <1>13, <1>17 DEF ItemType
  <2> QED  BY <1>1, <1>2, <1>3, <1>31, <2>1, <2>2, <2>3 DEF TypeOK, Items
<1>33. ASSUME NEW b \in DOMAIN f PROVE item'[b].level <= highest'
  <2>1. i[b].level \in Nat /\ i[b].level <= h
    BY <1>5, <1>8
  <2>2. item'[b].level = IF counted /\ l = Base - 1 THEN 0 ELSE IF b = a THEN l ELSE i[b].level
    BY <1>13, <1>17
  <2>3. highest' = IF ~counted THEN h ELSE IF l = Base - 1 THEN 0 ELSE l
    BY <1>13, <1>17
  <2>4. ~counted => l <= h
    BY <1>16
  <2> QED  BY <1>8, <1>9, <1>30, <2>1, <2>2, <2>3, <2>4, SMT
<1>34. LevelInv'
  BY <1>2, <1>3, <1>31, <1>33 DEF LevelInv, Items
<1>35. WearInv'
  <2> SUFFICES ASSUME ~cut', Count' < MaxCount, NEW b \in Addrs
               PROVE  wear'[b] + highest' <= Count' + Level(b)'
    BY DEF WearInv
  <2>1. Count = CountOf(i[Counter].value) /\ Count \in 0 .. MaxCount
    BY <1>4, <1>15 DEF Count
  <2>2. Count' = IF counted THEN CountOf(x) ELSE Count
    <3>1. s.item[Counter].value = IF counted THEN x ELSE i[Counter].value
      BY <1>6, <1>17
    <3> QED  BY <1>13, <2>1, <3>1 DEF Count
  <2>3. Count < MaxCount /\ Count' = IF counted THEN Count + 1 ELSE Count
    BY <1>15, <2>1, <2>2
  <2>4. wear[b] + h <= Count + Level(b) /\ wear[b] \in Nat /\ Level(b) \in Nat /\ Level(b) <= h
    <3>1. wear[b] + highest <= Count + Level(b)
      BY <1>1, <1>2, <2>3 DEF WearInv
    <3>2. wear[b] \in 0 .. MaxWear /\ Level(b) \in Nat /\ Level(b) <= highest
      BY <1>1, LevelIs DEF TypeOK
    <3> QED  BY <1>8, <3>1, <3>2, SMT
  <2>5. wear'[b] = IF b = a THEN wear[b] + 1 ELSE wear[b]
    BY <1>1, <1>2, <1>6 DEF TypeOK
  <2>6. Level(b) = IF b \in DOMAIN f THEN i[b].level ELSE 0
    BY <1>3, <1>4 DEF Level, Items
  <2>7. Level(b)' = IF counted /\ l = Base - 1 THEN 0 ELSE IF b = a THEN l ELSE Level(b)
    <3>1. Level(b)' = IF b \in DOMAIN f THEN s.item[b].level ELSE 0
      BY <1>2, <1>3, <1>13 DEF Level, Items
    <3> QED  BY <1>6, <1>17, <2>6, <3>1
  <2>8. b = a => l = Level(b) + 1
    BY <1>6, <1>9, <2>6
  <2>9. highest' = IF ~counted THEN h ELSE IF l = Base - 1 THEN 0 ELSE l
    BY <1>13, <1>17
  <2> DEFINE lb == Level(b)
             wb == wear[b]
             cc == Count
  <2>10. /\ cc \in Nat /\ wb \in Nat /\ lb \in Nat /\ lb <= h /\ wb + h <= cc + lb
         /\ wear'[b] = (IF b = a THEN wb + 1 ELSE wb)
         /\ Level(b)' = (IF counted /\ l = Base - 1 THEN 0 ELSE IF b = a THEN l ELSE lb)
         /\ b = a => l = lb + 1
         /\ Count' = IF counted THEN cc + 1 ELSE cc
    BY <2>1, <2>3, <2>4, <2>5, <2>7, <2>8
  <2> HIDE DEF lb, wb, cc
  <2> QED  BY <1>8, <1>9, <1>30, <2>9, <2>10, SMT
<1>36. phase' = "ready" /\ \E c \in Firmwares : \E q \in Placed(c) : ReadyInv(c, q)'
  BY <1>2, <1>29
<1> QED  BY <1>24, <1>26, <1>32, <1>34, <1>35, <1>36 DEF IInv

-----------------------------------------------------------------------------
(* Every step keeps the invariant.                                         *)
LEMMA NextKeeps == IInv /\ [Next]_vars => IInv'
<1> SUFFICES ASSUME IInv, [Next]_vars PROVE IInv'
  OBVIOUS
<1>1. CASE Rewrite
  BY <1>1, RewriteKeeps
<1>2. CASE Finish
  BY <1>2, FinishKeeps
<1>3. CASE PowerCycle
  BY <1>3, PowerCycleKeeps
<1>4. ASSUME NEW a \in Items \ {Counter}, NEW v \in Values[a], Len(v) = fw[a], Write(a, v)
      PROVE  IInv'
  BY <1>4, WriteKeeps
<1>5. CASE UNCHANGED vars
  <2>1. /\ mem' = mem /\ fw' = fw /\ item' = item /\ highest' = highest
        /\ job' = job /\ phase' = phase /\ wear' = wear /\ cut' = cut
    BY <1>5 DEF vars
  <2>2. (TypeOK /\ LevelInv /\ WearInv)'
    BY <2>1 DEF IInv, TypeOK, LevelInv, WearInv, Items, Count, Level
  <2>3. Complete' = Complete /\ \A n : Written(n)' = Written(n)
    BY <2>1 DEF Complete, Written
  <2>4. StaleInv' = StaleInv
    BY <2>1 DEF StaleInv, Counts, CountAt
  <2>5. RewriteInv' = RewriteInv
    BY <2>1, <2>3 DEF RewriteInv, ItemPlaces, Items
  <2>6. \A g, p : ReadyInv(g, p)' = ReadyInv(g, p)
    BY <2>1, <2>3 DEF ReadyInv, Items
  <2> QED  BY <2>1, <2>2, <2>4, <2>5, <2>6 DEF IInv
<1> QED  BY <1>1, <1>2, <1>3, <1>4, <1>5 DEF Next

(* The invariant holds in every state the store can reach.                 *)
THEOREM Invariance == Spec => []IInv
<1>1. Init => IInv
  BY Starts
<1>2. IInv /\ [Next]_vars => IInv'
  BY NextKeeps
<1> QED  BY <1>1, <1>2, PTL DEF Spec

(* Cells, values and levels stay bytes, the jobs write into the EEPROM.    *)
THEOREM TypeCorrect == Spec => []TypeOK
<1>1. IInv => TypeOK
  BY DEF IInv
<1> QED  BY <1>1, Invariance, PTL

(* When nothing is being written, findPos and the read of the next boot    *)
(* find every item where the item writes it, with its value.               *)
LEMMA AtRest == IInv => StoredAtRest
<1> SUFFICES ASSUME IInv, phase = "ready", job = << >>
             PROVE  /\ IsValid(mem)
                    /\ \A a \in Items : /\ FindPos(mem, a) = item[a].pos
                                        /\ Stored(mem, item[a].pos) = item[a].value
  BY DEF StoredAtRest
<1>1. TypeOK
  BY DEF IInv
<1>2. PICK g \in Firmwares : \E p \in Placed(g) : ReadyInv(g, p)
  BY DEF IInv
<1>3. PICK p \in Placed(g) : ReadyInv(g, p)
  BY <1>2
<1>4. Len(job) = 0 /\ 0 \in 0 .. Len(job)
  <2>1. Len(job) = 0
    BY EmptySeq
  <2> QED  BY <2>1
<1>5. mem \in [Cells -> Contents] /\ Written(0) = mem /\ Complete = mem
  BY <1>1, <1>4, NoneWritten DEF Complete, TypeOK
<1>6. /\ Apart(g, p) /\ Holds(mem, g, p)
      /\ \A a \in Items : /\ a \in DOMAIN g /\ g[a] = fw[a] /\ item[a].pos = p[a]
                          /\ Keeps(mem, p, fw, item, a)
  BY <1>3, <1>4, <1>5 DEF ReadyInv
<1>7. ASSUME NEW a \in Items
      PROVE  FindPos(mem, a) = item[a].pos /\ Stored(mem, item[a].pos) = item[a].value
  <2>1. FindPos(mem, a) = p[a]
    BY <1>5, <1>6, FindPosIs
  <2> DEFINE s == Stored(mem, p[a])
             v == item[a].value
             n == fw[a]
  <2>2. s \in [1 .. g[a] -> Bytes] /\ \A i \in 1 .. g[a] : s[i] = mem[p[a] + i]
    BY <1>5, <1>6, StoredIs
  <2>3. v \in [1 .. n -> Bytes] /\ \A i \in 1 .. n : mem[p[a] + i] = v[i]
    BY <1>1, <1>6 DEF TypeOK, Keeps
  <2>4. g[a] = n
    BY <1>6
  <2> HIDE DEF s, v, n
  <2>5. s = v
    <3> DEFINE S == 1 .. n
    <3>1. s \in [S -> Bytes] /\ v \in [S -> Bytes] /\ \A i \in S : s[i] = v[i]
      BY <2>2, <2>3, <2>4
    <3> HIDE DEF S
    <3> QED  BY <3>1
  <2> QED  BY <1>6, <2>1, <2>5 DEF s, v
<1> QED  BY <1>6, <1>7 DEF Holds

THEOREM RestIsStored == Spec => []StoredAtRest
<1> QED  BY AtRest, Invariance, PTL

(* The counter of the EEPROM is never behind the writes of an item, however *)
(* often the 8 bit levels started again, unless the power cut the counter. *)
THEOREM WearCounted == Spec => []WearIsCounted
<1>1. IInv => WearIsCounted
  <2> SUFFICES ASSUME IInv, phase = "ready", job = << >>, ~cut, Count < MaxCount, NEW a \in Items
               PROVE  wear[a] <= Count
    BY DEF WearIsCounted
  <2>1. a \in Addrs
    BY FirmwareIs DEF IInv, TypeOK, Items
  <2> QED  BY <2>1, WearBehind
<1> QED  BY <1>1, Invariance, PTL

(* A power cut: the next boot reads the value that was being written as a  *)
(* mix, at worst, and every other one as it was.                           *)
LEMMA CutDamages ==
    ASSUME IInv, PowerCycle, phase = "ready", fw' = fw
    PROVE  IF job = << >> THEN Damaged = {} ELSE Cardinality(Damaged) <= 1
<1>1. TypeOK
  BY DEF IInv
<1>2. PICK f \in Firmwares : f = fw
  BY <1>1 DEF TypeOK
<1>3. PICK n \in 0 .. Len(job), e \in Firmwares : Boot(Readable(Written(n)), e)
  BY DEF PowerCycle
<1>4. e = f /\ \E taken \in SUBSET DOMAIN f : item' = Read(Readable(Written(n)), f, taken)
  BY <1>2, <1>3 DEF Boot
<1>5. PICK g \in Firmwares : \E p \in Placed(g) : ReadyInv(g, p)
  BY DEF IInv
<1>6. PICK p \in Placed(g) : ReadyInv(g, p)
  BY <1>5
<1>7. PICK m \in [Cells -> Contents] : m = Written(n)
  BY <1>1, WrittenType
<1>8. Apart(g, p) /\ Holds(m, g, p)
  BY <1>6, <1>7 DEF ReadyInv
<1>9. Readable(m) = m
  BY <1>8 DEF Readable, Holds
<1>10. PICK taken : item' = Read(m, f, taken)
  BY <1>4, <1>7, <1>9
<1>11. ASSUME NEW a \in Items, Keeps(m, p, f, item, a) PROVE item'[a].value = item[a].value
  <2>1. a \in DOMAIN f /\ a \in DOMAIN g /\ g[a] = f[a]
    BY <1>2, <1>6 DEF ReadyInv, Items
  <2> DEFINE s == item'[a].value
             v == item[a].value
             k == f[a]
  <2>2. v \in [1 .. k -> Bytes] /\ \A i \in 1 .. k : m[p[a] + i] = v[i]
    BY <1>1, <1>2, <1>11 DEF TypeOK, Keeps
  <2>3. s \in [1 .. k -> Bytes] /\ \A i \in 1 .. k : s[i] = m[p[a] + i]
    <3> DEFINE r == Read(m, f, taken)[a]
    <3>1. r \in ItemType(f[a]) /\ \A i \in 1 .. f[a] : r.value[i] = m[p[a] + i]
      BY <1>8, <2>1, ReadIs
    <3>2. item'[a] = r
      BY <1>10
    <3> HIDE DEF r
    <3> QED  BY <3>1, <3>2, Zenon DEF ItemType
  <2> HIDE DEF s, v, k
  <2>4. s = v
    <3> DEFINE S == 1 .. k
    <3>1. s \in [S -> Bytes] /\ v \in [S -> Bytes] /\ \A i \in S : s[i] = v[i]
      BY <2>2, <2>3
    <3> HIDE DEF S
    <3> QED  BY <3>1
  <2> QED  BY <2>4 DEF s, v
<1>12. CASE job = << >>
  <2>1. n \in 0 .. Len(job) /\ Len(job) = 0
    BY <1>12, EmptySeq
  <2>2. n = Len(job)
    BY <2>1
  <2>3. m = Complete
    BY <1>7, <2>2 DEF Complete
  <2>4. \A a \in Items : Keeps(m, p, f, item, a)
    BY <1>2, <1>6, <2>3 DEF ReadyInv
  <2> QED  BY <1>11, <1>12, <2>4 DEF Damaged
<1>13. CASE job # << >>
  <2>1. PICK w \in Items : \A b \in Items \ {w, Counter} : Keeps(m, p, f, item, b)
    BY <1>2, <1>6, <1>7 DEF ReadyInv
  <2>2. Damaged \subseteq {w}
    BY <1>11, <2>1 DEF Damaged
  <2>3. IsFiniteSet({w}) /\ Cardinality({w}) = 1
    BY FS_Singleton
  <2>4. Cardinality(Damaged) <= Cardinality({w})
    BY <2>2, <2>3, FS_Subset
  <2> QED  BY <1>13, <2>3, <2>4
<1> QED  BY <1>12, <1>13

(* A power cut costs at most the value that was being written.             *)
THEOREM DamageLocal == Spec => DamageIsLocal
<1>1. ASSUME IInv, [Next]_vars, phase = "ready", ~WriteStarts, fw' = fw, vars' # vars
      PROVE  IF job = << >> THEN Damaged = {} ELSE Cardinality(Damaged) <= 1
  <2>1. CASE Rewrite
    BY <1>1, <2>1 DEF Rewrite
  <2>2. CASE Finish
    <3>1. Damaged = {} /\ Cardinality({}) = 0
      BY <2>2, FS_EmptySet DEF Finish, Damaged
    <3> QED  BY <3>1
  <2>3. CASE PowerCycle
    BY <1>1, <2>3, CutDamages
  <2>4. ASSUME NEW a \in Items \ {Counter}, NEW v \in Values[a], Len(v) = fw[a], Write(a, v)
        PROVE  FALSE
    <3>1. job' # << >>
      BY <1>1, <2>4, WriteKeeps
    <3>2. job = << >> /\ phase' = "ready"
      BY <1>1, <2>4 DEF Write
    <3> QED  BY <1>1, <3>1, <3>2 DEF WriteStarts
  <2> QED  BY <1>1, <2>1, <2>2, <2>3, <2>4 DEF Next
<1>2. IInv /\ [Next]_vars =>
         [(phase = "ready" /\ ~WriteStarts /\ fw' = fw) =>
             IF job = << >> THEN Damaged = {} ELSE Cardinality(Damaged) <= 1]_vars
  BY <1>1
<1> QED  BY <1>2, Invariance, PTL DEF Spec, DamageIsLocal
=============================================================================
