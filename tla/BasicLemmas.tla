----------------------------- MODULE BasicLemmas -----------------------------
(***************************************************************************)
(* Facts about numbers and about functions computed step by step that the  *)
(* proofs of several components cite.  Induction is derived from the well- *)
(* foundedness of < for a set of numbers, which a proof defines for the    *)
(* fact it needs.                                                          *)
(***************************************************************************)
EXTENDS Integers, FiniteSets, FiniteSetTheorems, WellFoundedInduction, TLAPS

(* A set of numbers that is not empty has a least one.                       *)
LEMMA NatHasLeast ==
  ASSUME NEW S \in SUBSET Nat, S # {}
  PROVE  \E n \in S : \A m \in S : n <= m
<1> DEFINE R == OpToRel(<, Nat)
<1>1. IsWellFoundedOn(R, Nat)
  BY NatLessThanWellFounded, Zenon
<1>2. \E n \in S : \A m \in S : ~(<<m, n>> \in R)
  <2> HIDE DEF R
  <2> QED BY <1>1, WFMin, Zenon
<1>3. \A m, n \in S : m < n => <<m, n>> \in R
  BY DEF OpToRel
<1>4. PICK n \in S : \A m \in S : ~(<<m, n>> \in R)
  BY <1>2
<1>5. ASSUME NEW m \in S PROVE n <= m
  <2>1. ~(m < n)
    <3> HIDE DEF R
    <3> QED BY <1>3, <1>4
  <2> QED BY <2>1
<1> QED BY <1>5

(* A set with 0 and with every successor of its members has every number.    *)
LEMMA Induction ==
  ASSUME NEW T, 0 \in T, \A n \in Nat : n \in T => n + 1 \in T
  PROVE  Nat \subseteq T
<1> SUFFICES ASSUME Nat \ T # {} PROVE FALSE
  OBVIOUS
<1>1. PICK n \in Nat \ T : \A m \in Nat \ T : n <= m
  BY NatHasLeast
<1>2. n # 0 /\ n - 1 \in Nat
  BY <1>1
<1>3. n - 1 \in T
  BY <1>1, <1>2
<1>4. (n - 1) + 1 \in T
  BY <1>2, <1>3
<1> QED BY <1>1, <1>4

(* Functions applied in turn: what is computed step by step exists, and is   *)
(* computed by these steps alone.                                            *)
LEMMA InTurn ==
  ASSUME NEW S, NEW s0 \in S, NEW n \in Nat, NEW F \in [1..n -> [S -> S]]
  PROVE  \E g \in [0..n -> S] : g[0] = s0 /\ \A i \in 1..n : g[i] = F[i][g[i - 1]]
<1> DEFINE Turns(m, f, g) == g[0] = s0 /\ \A i \in 1..m : g[i] = f[i][g[i - 1]]
           T == {m \in Nat : \A f \in [1..m -> [S -> S]] : \E g \in [0..m -> S] : Turns(m, f, g)}
<1>1. 0 \in T
  <2>1. ASSUME NEW f \in [1..0 -> [S -> S]] PROVE \E g \in [0..0 -> S] : Turns(0, f, g)
    <3>1. [i \in 0..0 |-> s0] \in [0..0 -> S] /\ Turns(0, f, [i \in 0..0 |-> s0])
      OBVIOUS
    <3> QED BY <3>1
  <2> QED BY <2>1
<1>2. ASSUME NEW m \in Nat, m \in T PROVE m + 1 \in T
  <2>1. ASSUME NEW f \in [1..(m + 1) -> [S -> S]]
        PROVE  \E h \in [0..(m + 1) -> S] : Turns(m + 1, f, h)
    <3> DEFINE e == [i \in 1..m |-> f[i]]
    <3>1. e \in [1..m -> [S -> S]]
      OBVIOUS
    <3>2. PICK g \in [0..m -> S] : Turns(m, e, g)
      <4> HIDE DEF e, Turns
      <4> QED BY <1>2, <3>1
    <3> DEFINE h == [i \in 0..(m + 1) |-> IF i = m + 1 THEN f[m + 1][g[m]] ELSE g[i]]
    <3>3. h \in [0..(m + 1) -> S] /\ h[0] = s0
      <4>1. f[m + 1] \in [S -> S] /\ g[m] \in S
        OBVIOUS
      <4>2. f[m + 1][g[m]] \in S
        BY <4>1
      <4> QED BY <3>2, <4>2
    <3>4. ASSUME NEW i \in 1..(m + 1) PROVE h[i] = f[i][h[i - 1]]
      <4>1. CASE i = m + 1
        BY <4>1
      <4>2. CASE i \in 1..m
        BY <3>2, <4>2
      <4> QED BY <4>1, <4>2
    <3> HIDE DEF h
    <3> QED BY <3>3, <3>4
  <2> HIDE DEF Turns
  <2> QED BY <1>2, <2>1
<1> HIDE DEF T
<1>3. n \in T
  BY <1>1, <1>2, Induction
<1> QED BY <1>3 DEF T

(* Numbers that are doubled six times with the same addends.                 *)
LEMMA SixDoublings ==
  ASSUME NEW x \in [5..11 -> Int], NEW y \in [5..11 -> Int], y[5] = 0,
         \A j \in Nat : 5 <= j /\ j <= 10 => x[j + 1] - 2 * x[j] = y[j + 1] - 2 * y[j]
  PROVE  x[11] = y[11] + 64 * x[5]
<1>1. /\ x[6] - 2 * x[5] = y[6] - 2 * y[5] /\ x[7] - 2 * x[6] = y[7] - 2 * y[6]
      /\ x[8] - 2 * x[7] = y[8] - 2 * y[7] /\ x[9] - 2 * x[8] = y[9] - 2 * y[8]
      /\ x[10] - 2 * x[9] = y[10] - 2 * y[9] /\ x[11] - 2 * x[10] = y[11] - 2 * y[10]
  OBVIOUS
<1>0. /\ x[5] \in Int /\ x[6] \in Int /\ x[7] \in Int /\ x[8] \in Int /\ x[9] \in Int /\ x[10] \in Int /\ x[11] \in Int
      /\ y[6] \in Int /\ y[7] \in Int /\ y[8] \in Int /\ y[9] \in Int /\ y[10] \in Int /\ y[11] \in Int
  OBVIOUS
<1>2. PICK x5 \in Int, x6 \in Int, x7 \in Int, x8 \in Int, x9 \in Int, x10 \in Int, x11 \in Int :
        x5 = x[5] /\ x6 = x[6] /\ x7 = x[7] /\ x8 = x[8] /\ x9 = x[9] /\ x10 = x[10] /\ x11 = x[11]
  BY <1>0
<1>3. PICK y6 \in Int, y7 \in Int, y8 \in Int, y9 \in Int, y10 \in Int, y11 \in Int :
        y6 = y[6] /\ y7 = y[7] /\ y8 = y[8] /\ y9 = y[9] /\ y10 = y[10] /\ y11 = y[11]
  BY <1>0
<1>4. /\ x6 = y6 + 2 * x5 /\ x7 - 2 * x6 = y7 - 2 * y6 /\ x8 - 2 * x7 = y8 - 2 * y7
      /\ x9 - 2 * x8 = y9 - 2 * y8 /\ x10 - 2 * x9 = y10 - 2 * y9 /\ x11 - 2 * x10 = y11 - 2 * y10
  <2>1. x6 - 2 * x5 = y6
    BY <1>1, <1>2, <1>3
  <2> QED BY <1>1, <1>2, <1>3, <2>1
<1>5. x11 = y11 + 64 * x5
  BY <1>4
<1> QED BY <1>2, <1>3, <1>5

(* Quotient and remainder, with names of their own for the provers.          *)
LEMMA Division ==
  ASSUME NEW a \in Int, NEW b \in Nat \ {0}
  PROVE  \E q \in Int, r \in Nat : a \div b = q /\ a % b = r /\ r < b /\ a = b * q + r
<1>1. PICK q \in Int : q = a \div b
  <2>1. a \div b \in Int
    OBVIOUS
  <2> QED BY <2>1
<1>2. PICK r \in Nat : r = a % b /\ r < b
  <2>1. a % b \in Nat /\ a % b < b
    OBVIOUS
  <2> QED BY <2>1
<1>3. a = b * q + r
  BY <1>1, <1>2, Z3
<1> QED BY <1>1, <1>2, <1>3

(* The quotient is the number of whole divisors that fit.                    *)
LEMMA Quotient ==
  ASSUME NEW a \in Int, NEW b \in Nat \ {0}, NEW q \in Int, b * q <= a, a < b * q + b
  PROVE  a \div b = q /\ a % b = a - b * q
<1>1. a \div b = q
  OBVIOUS
<1>2. PICK p \in Int, r \in Nat : a \div b = p /\ a % b = r /\ r < b /\ a = b * p + r
  BY Division
<1> QED BY <1>1, <1>2

(* A multiple more or less leaves the same remainder, so the terms of a sum  *)
(* may be reduced before they are added up.                                  *)
LEMMA SameRest ==
  ASSUME NEW a \in Int, NEW b \in Nat \ {0}, NEW k \in Int
  PROVE  (a + b * k) % b = a % b
<1>1. PICK q \in Int, r \in Nat : a \div b = q /\ a % b = r /\ r < b /\ a = b * q + r
  BY Division
<1>2. b * (q + k) = b * q + b * k /\ q + k \in Int /\ b * k \in Int /\ b * q \in Int
  OBVIOUS
<1>3. (a + b * k) % b = (a + b * k) - b * (q + k)
  <2>1. b * (q + k) <= a + b * k /\ a + b * k < b * (q + k) + b /\ a + b * k \in Int
    BY <1>1, <1>2
  <2> QED BY <1>2, <2>1, Quotient
<1> QED BY <1>1, <1>2, <1>3

(* A sum leaves the remainder of the sum of a remainder.                     *)
LEMMA RestOfSum ==
  ASSUME NEW a \in Int, NEW c \in Int, NEW b \in Nat \ {0}
  PROVE  ((a % b) + c) % b = (a + c) % b
<1>1. PICK q \in Int, r \in Nat : a \div b = q /\ a % b = r /\ r < b /\ a = b * q + r
  BY Division
<1>2. (r + c) + b * q = a + c /\ r + c \in Int
  BY <1>1
<1>3. ((r + c) + b * q) % b = (r + c) % b
  BY <1>1, <1>2, SameRest
<1> QED BY <1>1, <1>2, <1>3

(* A finite set of numbers has a largest one.                                *)
LEMMA FiniteHasLargest ==
  ASSUME NEW S \in SUBSET Int, S # {}, IsFiniteSet(S)
  PROVE  \E x \in S : \A y \in S : y <= x
<1> DEFINE T == {n \in Nat : \A A \in SUBSET Int : A # {} /\ IsFiniteSet(A) /\ Cardinality(A) = n
                             => \E x \in A : \A y \in A : y <= x}
<1>1. 0 \in T
  BY FS_EmptySet
<1>2. ASSUME NEW n \in Nat, n \in T PROVE n + 1 \in T
  <2> SUFFICES ASSUME NEW A \in SUBSET Int, A # {}, IsFiniteSet(A), Cardinality(A) = n + 1
               PROVE  \E x \in A : \A y \in A : y <= x
    OBVIOUS
  <2>1. PICK a \in A : TRUE
    OBVIOUS
  <2> DEFINE B == A \ {a}
  <2>2. IsFiniteSet(B) /\ Cardinality(B) = n /\ B \in SUBSET Int
    <3>1. IsFiniteSet(B) /\ Cardinality(B) = Cardinality(A) - 1
      BY <2>1, FS_RemoveElement
    <3>2. Cardinality(B) = n
      BY <3>1
    <3> QED BY <3>1, <3>2
  <2>3. CASE B = {}
    BY <2>1, <2>3
  <2>4. CASE B # {}
    <3> HIDE DEF B
    <3>1. PICK b \in B : \A y \in B : y <= b
      BY <1>2, <2>2, <2>4
    <3>2. b \in A /\ \A y \in A : y = a \/ y <= b
      BY <3>1 DEF B
    <3>3. CASE a <= b
      BY <3>2, <3>3
    <3>4. CASE ~(a <= b)
      BY <2>1, <3>2, <3>4
    <3> QED BY <3>3, <3>4
  <2> QED BY <2>3, <2>4
<1> HIDE DEF T
<1>3. Nat \subseteq T
  BY <1>1, <1>2, Induction
<1>4. Cardinality(S) \in Nat
  BY FS_CardinalityType
<1> QED BY <1>3, <1>4 DEF T
====
