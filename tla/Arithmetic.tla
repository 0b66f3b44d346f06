------------------------------- MODULE Arithmetic -------------------------------
(***************************************************************************)
(* Facts about numbers that the other proofs rest on: a first number,      *)
(* induction and recursion in the form of sets, division.                  *)
(***************************************************************************)
EXTENDS Integers, WellFoundedInduction, TLAPS

(* A set of numbers has a first one.                                       *)
LEMMA First ==
    ASSUME NEW T \in SUBSET Nat, T # {}
    PROVE  \E x \in T : \A y \in T : x <= y
<1> DEFINE R == OpToRel(<, Nat)
<1>1. IsWellFoundedOn(R, Nat)
  BY NatLessThanWellFounded
<1>2. \A x, y \in Nat : x < y => <<x, y>> \in R
  BY Zenon DEF OpToRel
<1> HIDE DEF R
<1>3. PICK x \in T : \A y \in T : ~ (<<y, x>> \in R)
  BY <1>1, WFMin, Zenon
<1>4. \A y \in T : ~(y < x)
  BY <1>2, <1>3, Zenon
<1>5. \A y \in T : x <= y
  BY <1>4, SMT
<1> QED  BY <1>3, <1>5

(* A set that holds 0, and the successor of each of its numbers up to n,   *)
(* holds every number up to n.                                             *)
LEMMA Induction ==
    ASSUME NEW n \in Nat, NEW P, 0 \in P,
           \A i \in 0 .. n - 1 : i \in P => i + 1 \in P
    PROVE  \A i \in 0 .. n : i \in P
<1> SUFFICES ASSUME NEW k \in 0 .. n, k \notin P PROVE FALSE
  OBVIOUS
<1> DEFINE T == {i \in 0 .. n : i \notin P}
<1>1. T \in SUBSET Nat /\ k \in T
  BY SMT
<1>2. PICK x \in T : \A y \in T : x <= y
  BY <1>1, First
<1>3. x \in 1 .. n
  BY <1>2, SMT
<1>4. x - 1 \in 0 .. n - 1 /\ x - 1 \notin T
  BY <1>2, <1>3, SMT
<1>5. x - 1 \in P
  BY <1>4, SMT
<1>6. x - 1 + 1 \in P
  BY <1>4, <1>5
<1>7. x - 1 + 1 = x
  BY <1>3, SMT
<1> QED  BY <1>6, <1>7, <1>2

\* What the steps G[1], ..., G[n] make of x, one after the other.
Runs(n, S, x, G) ==
    {f \in [0 .. n -> S] : f[0] = x /\ \A i \in 1 .. n : f[i] = G[i][f[i - 1]]}

(* These steps can be made.                                                *)
LEMMA Recursion ==
    ASSUME NEW n \in Nat, NEW S, NEW x \in S, NEW G \in [1 .. n -> [S -> S]]
    PROVE  Runs(n, S, x, G) # {}
<1> DEFINE P == {m \in Nat : \E f \in [0 .. m -> S] :
                    f[0] = x /\ \A i \in 1 .. m : f[i] = G[i][f[i - 1]]}
<1>1. 0 \in P
  <2> DEFINE f == [i \in 0 .. 0 |-> x]
  <2>1. f \in [0 .. 0 -> S] /\ f[0] = x
    BY SMT
  <2>2. \A i \in 1 .. 0 : f[i] = G[i][f[i - 1]]
    BY SMT
  <2> QED  BY <2>1, <2>2
<1>2. ASSUME NEW m \in 0 .. n - 1, m \in P PROVE m + 1 \in P
  <2>1. PICK f \in [0 .. m -> S] :
           f[0] = x /\ \A i \in 1 .. m : f[i] = G[i][f[i - 1]]
    BY <1>2
  <2> DEFINE g == [i \in 0 .. m + 1 |-> IF i = m + 1 THEN G[m + 1][f[m]] ELSE f[i]]
  <2>2. m + 1 \in Nat /\ m + 1 \in 1 .. n /\ m \in 0 .. m
    BY SMT
  <2>3. G[m + 1][f[m]] \in S
    BY <2>2
  <2>4. g \in [0 .. m + 1 -> S]
    BY <2>3, SMT
  <2>5. g[0] = x /\ g[m + 1] = G[m + 1][f[m]] /\ \A i \in 0 .. m : g[i] = f[i]
    BY <2>1, SMT
  <2> HIDE DEF g
  <2>6. \A i \in 1 .. m + 1 : g[i] = G[i][g[i - 1]]
    <3> SUFFICES ASSUME NEW i \in 1 .. m + 1 PROVE g[i] = G[i][g[i - 1]]
      OBVIOUS
    <3>1. CASE i = m + 1
      <4>1. i - 1 = m
        BY <3>1, SMT
      <4> QED  BY <2>2, <2>5, <3>1, <4>1
    <3>2. CASE i # m + 1
      <4>1. i \in 1 .. m /\ i \in 0 .. m /\ i - 1 \in 0 .. m
        BY <3>2, SMT
      <4> QED  BY <2>1, <2>5, <4>1
    <3> QED  BY <3>1, <3>2
  <2> QED  BY <2>2, <2>4, <2>5, <2>6
<1> HIDE DEF P
<1>3. \A i \in 0 .. n : i \in P
  BY <1>1, <1>2, Induction
<1>4. n \in P
  BY <1>3, SMT
<1> QED  BY <1>4 DEF P, Runs

-----------------------------------------------------------------------------
(* A number less than n away from 0 whose remainder is 0 is 0.             *)
LEMMA SmallMultiple ==
    ASSUME NEW n \in Nat \ {0}, NEW x \in Int, -n < x, x < n, x % n = 0
    PROVE  x = 0
<1>1. PICK q \in Int : x = n * q
  BY SMT
<1>2. ~(q >= 1)
  <2> SUFFICES ASSUME q >= 1 PROVE FALSE
    OBVIOUS
  <2>1. n * q >= n
    BY SMT
  <2> QED  BY <1>1, <2>1, SMT
<1>3. ~(q <= -1)
  <2> SUFFICES ASSUME q <= -1 PROVE FALSE
    OBVIOUS
  <2>1. n * q <= -n
    BY SMT
  <2> QED  BY <1>1, <2>1, SMT
<1>4. q = 0
  BY <1>2, <1>3, SMT
<1> QED  BY <1>1, <1>4, SMT

(* Division with remainder.                                                *)
LEMMA Euclid ==
    ASSUME NEW n \in Nat \ {0}, NEW x \in Int
    PROVE  /\ x % n \in 0 .. n - 1
           /\ \E q \in Int : x = n * q + (x % n)
<1>1. x % n \in 0 .. n - 1 /\ x \div n \in Int
  BY SMT
<1>2. x % n = x - n * (x \div n)
  BY SMT
<1> DEFINE q == x \div n
<1>3. n * q \in Int
  BY <1>1, SMT
<1>4. x = n * q + (x % n)
  <2> HIDE DEF q
  <2> QED  BY <1>1, <1>2, <1>3, SMT DEF q
<1> QED  BY <1>1, <1>4

(* The product with a sum.                                                 *)
LEMMA Multiples ==
    ASSUME NEW n \in Nat, NEW a \in Int, NEW b \in Int, NEW c \in Int
    PROVE  n * (a + b - c) = n * a + n * b - n * c
  BY SMT

(* Numbers that differ by a multiple of n have the same remainder.         *)
LEMMA Congruent ==
    ASSUME NEW n \in Nat \ {0}, NEW x \in Int, NEW y \in Int, NEW k \in Int,
           x = y + n * k
    PROVE  x % n = y % n
<1> DEFINE a == x % n
           b == y % n
           r == a - b
<1>1. PICK p \in Int : x = n * p + a
  BY Euclid
<1>2. PICK q \in Int : y = n * q + b
  BY Euclid
<1>3. a \in 0 .. n - 1 /\ b \in 0 .. n - 1
  BY Euclid
<1>4. r \in Int /\ -n < r /\ r < n
  BY <1>3, SMT
<1>5. r = n * (q + k - p)
  <2>1. n * (q + k - p) = n * q + n * k - n * p
    BY Multiples
  <2>2. n * q \in Int /\ n * k \in Int /\ n * p \in Int
    BY SMT
  <2> DEFINE u == n * p
             v == n * q
             w == n * k
  <2> HIDE DEF a, b, u, v, w
  <2>3. x = u + a /\ y = v + b /\ x = y + w
    BY <1>1, <1>2 DEF u, v, w
  <2>4. r = v + w - u
    BY <1>3, <2>2, <2>3, SMT DEF u, v, w
  <2> QED  BY <2>1, <2>4 DEF u, v, w
<1>6. q + k - p \in Int
  BY SMT
<1> HIDE DEF r
<1>7. r % n = 0
  BY <1>5, <1>6, SMT
<1>8. r = 0
  BY <1>4, <1>7, SmallMultiple
<1> QED  BY <1>3, <1>8, SMT DEF r

(* Division of a number that is given as a multiple and a remainder.       *)
LEMMA Division ==
    ASSUME NEW n \in Nat \ {0}, NEW q \in Int, NEW r \in 0 .. n - 1
    PROVE  (q * n + r) \div n = q /\ (q * n + r) % n = r
<1> DEFINE x == q * n + r
           d == x \div n
           e == x % n
<1>1. x \in Int
  BY SMT
<1>2. e \in 0 .. n - 1 /\ d \in Int
  <2> HIDE DEF x
  <2> QED  BY <1>1, SMT
<1>3. e = x - n * d
  <2> HIDE DEF x
  <2> QED  BY <1>1, SMT
<1> DEFINE k == d - q
<1>4. k \in Int
  <2> HIDE DEF d
  <2> QED  BY <1>2, SMT
<1>5. r - e = n * k
  <2>1. n * k = n * d + n * 0 - n * q
    <3> HIDE DEF d
    <3>1. k = d + 0 - q
      BY <1>2, SMT
    <3> HIDE DEF k
    <3> QED  BY <1>2, <3>1, Multiples
  <2> DEFINE u == n * d
             v == q * n
  <2>2. n * 0 = 0 /\ n * q = v /\ v \in Int
    BY SMT
  <2>3. u \in Int
    <3> HIDE DEF d
    <3> QED  BY <1>2, SMT
  <2> HIDE DEF d, e, u, v, k
  <2>4. x = v + r
    BY DEF v
  <2>5. n * k = u + 0 - v /\ e = x - u
    BY <1>3, <2>1, <2>2 DEF u
  <2> HIDE DEF x
  <2> QED  BY <1>2, <2>2, <2>3, <2>4, <2>5, SMT
<1> HIDE DEF k, d, e, x
<1>6. (r - e) % n = 0
  <2> DEFINE s == r - e
  <2>1. s \in Int /\ s = 0 + n * k
    BY <1>2, <1>4, <1>5, SMT
  <2> HIDE DEF s
  <2>2. s % n = 0 % n
    BY <1>4, <2>1, Congruent
  <2> QED  BY <2>2, SMT DEF s
<1>7. r - e = 0
  BY <1>2, <1>6, SmallMultiple, SMT
<1>8. k = 0
  <2>1. n * k = 0
    BY <1>5, <1>7
  <2> QED  BY <1>4, <2>1, SMT
<1> QED  BY <1>2, <1>7, <1>8, SMT DEF k, d, e, x
=============================================================================
