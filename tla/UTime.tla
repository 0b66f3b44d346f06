-------------------------------- MODULE UTime --------------------------------
(***************************************************************************)
(* The time of the controller: a counter of microseconds of fixed width,   *)
(* and the number of times that it has wrapped, of fixed width too.  Times *)
(* are compared and subtracted part by part.                               *)
(***************************************************************************)
EXTENDS Integers

CONSTANTS UsRange,    \* values of the counter of microseconds (2^32)
          CountRange  \* values of the count of overflows (2^8)

ASSUME UTimeAssumption == /\ UsRange \in Nat /\ UsRange > 1 /\ UsRange % 2 = 0
                          /\ CountRange \in Nat /\ CountRange > 1 /\ CountRange % 2 = 0

UTimes == [us : 0 .. UsRange - 1, n : 0 .. CountRange - 1]

\* A difference as a signed integer (two's complement) of that many values.
Signed(d, range) == LET r == d % range IN IF r < range \div 2 THEN r ELSE r - range

\* operator+ of less than a whole range of microseconds.  UTime::now counts
\* overflows in the same way.
Plus(a, d) ==
    [us |-> (a.us + d) % UsRange,
     n  |-> IF a.us + d >= UsRange THEN (a.n + 1) % CountRange ELSE a.n]

\* operator< and operator>.  When the counts of overflows are exactly half a
\* turn apart each of two times is less than the other, and none is greater.
Less(a, b) ==
    LET delta == Signed(a.n - b.n, CountRange)
    IN  delta < 0 \/ (delta = 0 /\ a.us < b.us)

Greater(a, b) ==
    LET delta == Signed(a.n - b.n, CountRange)
    IN  delta > 0 \/ (delta = 0 /\ a.us > b.us)

AtMost(a, b) == Less(a, b) \/ (a.us = b.us /\ a.n = b.n)

\* operator-, saturated: Far stands for 0x7fffffff and 0x7ffffff, and its
\* opposite for -0x80000000 and -0x8000000.  The counts of overflows are
\* subtracted as they are.
Far == UsRange
Minus(a, b) ==
    LET n == a.n - b.n
        d == Signed(a.us - b.us, UsRange)
        near == n = 0 \/ (n = 1 /\ a.us < b.us) \/ (n = -1 /\ a.us > b.us)
    IN  IF n > 0 \/ (n = 0 /\ a.us >= b.us)
        THEN IF near /\ d >= 0 THEN d ELSE Far
        ELSE IF near /\ d < 0 THEN d ELSE -Far

-----------------------------------------------------------------------------
\* What time it is between two times, on the whole range of both counters.
Since(a, b) == Signed((a.n - b.n) * UsRange + a.us - b.us, UsRange * CountRange)
=============================================================================
