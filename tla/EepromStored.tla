----------------------------- MODULE EepromStored -----------------------------
(***************************************************************************)
(* The store in which the firmware keeps its settings when the power is    *)
(* off: a marker that says whether the content is valid, then records, in  *)
(* any order and with zeros between them.  A record is a head (address and *)
(* size) and a value.  At boot every item looks for its record; when one   *)
(* is missing or has another size, or when the cells were written too      *)
(* often, everything is written again at other places.                     *)
(*                                                                         *)
(* An operation computes the cells that it writes (job); the power may be  *)
(* cut after any number of them.  Between two cells the firmware only      *)
(* receives bytes (Scheduler::yield), so nothing else happens.  Cells that *)
(* have their content already are not written (eWrite8); they are in job,  *)
(* and make no difference.                                                 *)
(*                                                                         *)
(* A head is one cell here, four bytes in the code; the marker may have    *)
(* any size.  Nothing reads the cells behind a broken marker: they are     *)
(* left blank.                                                             *)
(***************************************************************************)
EXTENDS Integers, Sequences, FiniteSetsExt, Functions

CONSTANTS Base,       \* number of values of a byte
          Length,     \* EEPROM.length()
          Marker,     \* initValue, a sequence of bytes that are not 0
          Firmwares,  \* the items of each firmware: functions, address to size
          MaxSize,    \* the sizes that a head can tell
          Values,     \* Values[a]: what item a may be set to
          WearLimit,  \* 128: a boot with a higher count writes all again
          MaxWear     \* bound: writes of an item between two rewrites

Counter == 1                  \* the address of the EepromWriteCounter
HeadSize == 1
Start   == Len(Marker)        \* the first cell of the records
Cells   == 0 .. Length - 1
Addrs   == UNION {DOMAIN f : f \in Firmwares}
MaxCount == Base * Base - 1   \* the counter has two bytes

\* packHead, getAddrFromHead, getSizeFromHead
PackHead(a, size) == (a - 1) * MaxSize + size
HeadAddr(h) == ((h - 1) \div MaxSize) + 1
HeadSizeOf(h) == ((h - 1) % MaxSize) + 1

Bytes    == 0 .. Base - 1
Contents == Bytes \cup {PackHead(a, n) : a \in Addrs, n \in 1 .. MaxSize}
Blank    == [k \in Cells |-> 0]
Zeros(n) == [i \in 1 .. n |-> 0]

\* The cells of a record at p, for an item of so many bytes.
Extent(p, size) == p .. p + HeadSize + size - 1

\* The cells that the records of firmware f need.
Required(f) == FoldFunction(+, 0, [a \in DOMAIN f |-> HeadSize + f[a]])

ASSUME StoreAssumption ==
    /\ Base \in Nat /\ Base > 1 /\ Length \in Nat /\ MaxSize \in Nat /\ MaxWear \in Nat
    /\ Marker \in Seq(Bytes \ {0}) /\ Marker # << >>
    /\ \A f \in Firmwares :
          /\ Counter \in DOMAIN f /\ f[Counter] = 2
          /\ \A a \in DOMAIN f : a \in Nat \ {0} /\ f[a] \in 1 .. MaxSize
          /\ IsFiniteSet(DOMAIN f) /\ Required(f) \in 0 .. Length - Start
    /\ \A a \in Addrs \ {Counter} : Values[a] \subseteq Seq(Bytes)
    /\ WearLimit \in Nat /\ WearLimit < MaxCount

VARIABLES
    mem,      \* the cells
    fw,       \* the firmware that runs
    item,     \* item[a]: eepromPos (pos, 0 if none), the value in RAM, and
              \* writeCount (level)
    highest,  \* highestCellWriteCount
    job,      \* cells that are still to be written, in order
    phase,    \* "boot" before fullRewrite, "rewrite" in it, then "ready"
    wear,     \* history: writes of each item since everything was rewritten
    cut       \* history: power was cut with the counter still to be written

vars == <<mem, fw, item, highest, job, phase, wear, cut>>

Items == DOMAIN fw
CountOf(v) == v[1] + Base * v[2]
Count == CountOf(item[Counter].value)
CountBytes(n) == <<n % Base, n \div Base>>

TypeOK ==
    /\ mem \in [Cells -> Contents]
    /\ fw \in Firmwares
    /\ DOMAIN item = Items
    /\ \A a \in Items :
          item[a] \in [pos : Cells, value : [1 .. fw[a] -> Bytes], level : Bytes]
    /\ highest \in Bytes
    /\ job \in Seq([pos : Cells, val : Contents])
    /\ phase \in {"boot", "rewrite", "ready"} /\ cut \in BOOLEAN
    /\ wear \in [Addrs -> 0 .. MaxWear]

-----------------------------------------------------------------------------
IsValid(m) == \A i \in 1 .. Start : m[i - 1] = Marker[i]

\* One turn of the loop of findPos, at i: a zero is skipped, a record of
\* another item is stepped over.
Turn(m, a, i) ==
    IF i >= Length - HeadSize THEN i
    ELSE IF m[i] = 0 THEN i + 1
    ELSE IF HeadAddr(m[i]) = a THEN i
    ELSE i + HeadSize + HeadSizeOf(m[i])

\* Variant: the scan stops one cell too early.
FindPos_Early(m, a) ==
    LET at[k \in 0 .. Length] == IF k = 0 THEN Start ELSE Turn(m, a, at[k - 1])
    IN  IF at[Length] >= Length - HeadSize - 1 THEN 0 ELSE at[Length]

\* findPos: where the scan ends; 0 if it finds nothing.
FindPos(m, a) ==
    LET at[k \in 0 .. Length] == IF k = 0 THEN Start ELSE Turn(m, a, at[k - 1])
    IN  IF at[Length] >= Length - HeadSize THEN 0 ELSE at[Length]

Stored(m, p) == [i \in 1 .. HeadSizeOf(m[p]) |-> m[p + HeadSize + i - 1]]

\* Variant: the size of the record is not compared.
Decoded_AnySize(bytes, n, taken) == bytes

\* What decodeEepromValue makes of a record, for an item of n bytes: a
\* record of another size is ignored, or its beginning is taken (a number
\* takes only a longer one, a text both).
Decoded(bytes, n, taken) ==
    IF Len(bytes) = n \/ taken
    THEN [i \in 1 .. n |-> IF i <= Len(bytes) THEN bytes[i] ELSE 0]
    ELSE Zeros(n)

\* Variant: one byte too many is written.
Record_TooLong(a, p, value) ==
    [i \in 1 .. HeadSize + Len(value) + 1 |->
        [pos |-> (p + i - 1) % Length,
         val |-> IF i = 1 THEN PackHead(a, Len(value))
                 ELSE IF i - 1 <= Len(value) THEN value[i - 1] ELSE 0]]

\* writeValueToEeprom: the head, then the value.
Record(a, p, value) ==
    [i \in 1 .. HeadSize + Len(value) |->
        [pos |-> p + i - 1,
         val |-> IF i = 1 THEN PackHead(a, Len(value)) ELSE value[i - 1]]]

\* The cells m after the first n of the writes w.
After(m, w, n) ==
    [c \in Cells |-> LET at == {i \in 1 .. n : w[i].pos = c}
                     IN  IF at = {} THEN m[c] ELSE w[Max(at)].val]

\* Where fullRewrite may put the records of firmware f: in any order, with
\* the zeros that getPadding draws before and after each.
Places(f) ==
    LET pad == (Length - Start - Required(f)) \div Cardinality(DOMAIN f)
        before(p, a) == {b \in DOMAIN f \ {a} : p[b] <= p[a]}
        end(p, a) == p[a] + HeadSize + f[a]
        gap(p, a) == p[a] - Max({Start} \cup {end(p, b) : b \in before(p, a)})
    IN  {p \in [DOMAIN f -> Cells] : \A a \in DOMAIN f :
            /\ gap(p, a) >= 0
            /\ gap(p, a) <= IF before(p, a) = {} THEN pad ELSE 2 * pad
            /\ end(p, a) <= Length}

PlacesOf == [f \in Firmwares |-> Places(f)]

\* What is in cell c when the items i of firmware f were written.
Image(f, i, c) ==
    LET at == {a \in DOMAIN f : c \in Extent(i[a].pos, f[a])}
        a == CHOOSE x \in at : TRUE
    IN  IF c < Start THEN Marker[c + 1]
        ELSE IF at = {} THEN 0
        ELSE IF c = i[a].pos THEN PackHead(a, f[a])
        ELSE i[a].value[c - i[a].pos]

\* fullRewrite: one byte of the marker is broken, the records and the zeros
\* between them are written, the marker is restored.
FullRewrite(f, i, k) ==
    [n \in 1 .. Length + 1 |->
        LET c == IF n = 1 THEN k ELSE (Start + n - 2) % Length
        IN  [pos |-> c, val |-> IF n = 1 THEN 0 ELSE Image(f, i, c)]]

-----------------------------------------------------------------------------
\* The record of item a of firmware f: its place, 0 if there is none.
Found(m, f, a) == IF IsValid(m) THEN FindPos(m, a) ELSE 0

\* EepromStored::init reads the EEPROM m for the firmware f, whose items
\* "taken" take the beginning of a record that has another size.
Read(m, f, taken) ==
    [a \in DOMAIN f |->
        LET p == Found(m, f, a)
        IN  [pos |-> p, level |-> 0,
             value |-> IF p = 0 THEN Zeros(f[a])
                       ELSE Decoded(Stored(m, p), f[a], a \in taken)]]

\* Everything has to be written again.
NeedRewrite(m, f, i) ==
    \/ \E a \in DOMAIN f : i[a].pos = 0 \/ HeadSizeOf(m[i[a].pos]) # f[a]
    \/ CountOf(i[Counter].value) > WearLimit

\* Nothing reads the cells behind a broken marker.
Readable(m) == IF IsValid(m) THEN m ELSE Blank

\* The firmware f starts with the EEPROM m.
Boot(m, f) ==
    /\ mem' = m /\ fw' = f /\ job' = << >> /\ highest' = 0
    /\ \E taken \in SUBSET DOMAIN f : item' = Read(m, f, taken)
    /\ phase' = IF NeedRewrite(m, f, item') THEN "boot" ELSE "ready"

\* An EEPROM that was never used.
Init ==
    /\ mem = Blank
    /\ fw \in Firmwares
    /\ item = [a \in DOMAIN fw |-> [pos |-> 0, value |-> Zeros(fw[a]), level |-> 0]]
    /\ highest = 0 /\ job = << >>
    /\ phase = "boot"
    /\ wear = [a \in Addrs |-> 0]
    /\ cut = FALSE

\* fullRewrite chooses the places and starts; the counter starts again.
Rewrite ==
    /\ phase = "boot" /\ phase' = "rewrite"
    /\ \E p \in PlacesOf[fw], k \in 0 .. Start - 1 :
          /\ item' = [a \in Items |->
                 [item[a] EXCEPT !.pos = p[a],
                                 !.value = IF a = Counter THEN Zeros(2) ELSE @]]
          /\ job' = FullRewrite(fw, item', k)
    /\ UNCHANGED <<mem, fw, highest, wear, cut>>

\* The cells after n of the writes, and after all of them.
Written(n) == After(mem, job, n)
Complete   == Written(Len(job))

\* All the cells of an operation are written.
Finish ==
    /\ job # << >>
    /\ mem' = Complete
    /\ job' = << >>
    /\ phase' = "ready"
    /\ wear' = IF phase = "ready" THEN wear ELSE [a \in Addrs |-> 0]
    /\ cut' = (cut /\ phase = "ready")
    /\ UNCHANGED <<fw, item, highest>>

\* The power is cut before the last cells are written, and comes back, maybe
\* with another firmware.
PowerCycle ==
    \E n \in 0 .. Len(job), f \in Firmwares :
        /\ job # << >> => Written(n) # Complete
        /\ Boot(Readable(Written(n)), f)
        /\ cut' = (cut \/ (phase = "ready" /\ \E c \in Extent(item[Counter].pos, 2) :
                              Written(n)[c] # Complete[c]))
        /\ UNCHANGED wear

\* Variant: highestCellWriteCount is not reset with the levels.
Inc_KeepHighest(items, level) ==
    LET c == items[Counter]
        n == CountOf(c.value)
        m == CountBytes(IF n < MaxCount THEN n + 1 ELSE n)
        counted == [items EXCEPT ![Counter].value = m]
    IN  IF level <= highest
        THEN [item |-> items, highest |-> highest, writes |-> << >>]
        ELSE [item |-> IF level = Base - 1
                       THEN [a \in DOMAIN items |-> [counted[a] EXCEPT !.level = 0]]
                       ELSE counted,
              highest |-> level,
              writes |-> Record(Counter, c.pos, m)]

\* EepromWriteCounter::inc(level): the items, highestCellWriteCount, and the
\* cells of the counter, after its caller (an item of its) was written.
Inc(items, level) ==
    LET c == items[Counter]
        n == CountOf(c.value)
        m == CountBytes(IF n < MaxCount THEN n + 1 ELSE n)
        counted == [items EXCEPT ![Counter].value = m]
    IN  IF level <= highest
        THEN [item |-> items, highest |-> highest, writes |-> << >>]
        ELSE [item |-> IF level = Base - 1
                       THEN [a \in DOMAIN items |-> [counted[a] EXCEPT !.level = 0]]
                       ELSE counted,
              highest |-> IF level = Base - 1 THEN 0 ELSE level,
              writes |-> Record(Counter, c.pos, m)]

\* write(), by an item that was given the value v.
Write(a, v) ==
    LET cells == Record(a, item[a].pos, v)
        level == (item[a].level + 1) % Base
        r == Inc([item EXCEPT ![a].value = v, ![a].level = level], level)
    IN  /\ phase = "ready" /\ job = << >>
        /\ After(mem, cells, Len(cells)) # mem
        /\ wear[a] < MaxWear
        /\ wear' = [wear EXCEPT ![a] = @ + 1]
        /\ job' = cells \o r.writes
        /\ item' = r.item
        /\ highest' = r.highest
        /\ UNCHANGED <<mem, fw, phase, cut>>

Next == \/ Rewrite \/ Finish \/ PowerCycle
        \/ \E a \in Items \ {Counter} : \E v \in Values[a] :
              Len(v) = fw[a] /\ Write(a, v)

Spec == Init /\ [][Next]_vars

-----------------------------------------------------------------------------
(* When nothing is being written, the next boot will find every item where *)
(* the item writes it, with the value that it has in RAM: the random       *)
(* places, the zeros between and the record that ends with the last cell   *)
(* never hide a record or let two of them overlap.                         *)
StoredAtRest ==
    (phase = "ready" /\ job = << >>) =>
        /\ IsValid(mem)
        /\ \A a \in Items : /\ FindPos(mem, a) = item[a].pos
                            /\ Stored(mem, item[a].pos) = item[a].value

\* An item was given a value, and is about to be written.
WriteStarts == job = << >> /\ phase' = "ready" /\ job' # << >>

\* The items whose value the step changes.
Damaged == {a \in Items \ {Counter} : item'[a].value # item[a].value}

(* A power cut damages the value that was being written and no other:      *)
(* every other item of the same firmware is read again with the value it   *)
(* had, and nothing is lost when nothing was being written.                *)
DamageIsLocal ==
    [][(phase = "ready" /\ ~WriteStarts /\ fw' = fw) =>
        IF job = << >> THEN Damaged = {} ELSE Cardinality(Damaged) <= 1]_vars

(* The counter is never behind the writes of any single item since the     *)
(* last rewrite, over any number of boots and of turns of the 8 bit        *)
(* levels, unless it was itself cut: a cell that wears out is noticed.     *)
WearIsCounted ==
    (phase = "ready" /\ job = << >> /\ ~cut /\ Count < MaxCount) =>
        \A a \in Items : wear[a] <= Count
=============================================================================
