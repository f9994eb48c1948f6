----------------------------- MODULE RingLemmas -----------------------------
(***************************************************************************)
(* Lemmas about the indices of rings: counters taken modulo the number of  *)
(* slots (head in Gnss_Pps.c, seqId in Imu_Logging.c and                   *)
(* Battery_Logging.c).  And the least element of a set of numbers, which   *)
(* stands in for induction in the modules that need it.                    *)
(***************************************************************************)
EXTENDS Integers, WellFoundedInduction, TLAPS

\* The definition of quotient and remainder.
LEMMA Division ==
  ASSUME NEW n \in Nat \ {0}, NEW a \in Nat
  PROVE  /\ a \div n \in Nat
         /\ a % n \in 0 .. n - 1
         /\ a = ((a \div n) * n) + (a % n)
<1>1. a \div n \in Nat /\ a % n \in 0 .. n - 1
  OBVIOUS
<1>2. a = ((a \div n) * n) + (a % n)
  OBVIOUS
<1>3. QED
  BY <1>1, <1>2

LEMMA AtLeast ==
  ASSUME NEW n \in Nat \ {0}, NEW k \in Nat \ {0}
  PROVE  k * n >= n
  OBVIOUS

\* The remainder is unique.
LEMMA SameRemainder ==
  ASSUME NEW n \in Nat \ {0}, NEW p \in Nat, NEW q \in Nat,
         NEW r \in 0 .. n - 1, NEW s \in 0 .. n - 1, (p * n) + r = (q * n) + s
  PROVE  r = s
<1>1. CASE p = q
  BY <1>1
<1>2. CASE p > q
  <2>1. (p - q) * n >= n
    BY <1>2, AtLeast
  <2>2. (p - q) * n = s - r
    OBVIOUS
  <2>3. QED
    BY <2>1, <2>2
<1>3. CASE p < q
  <2>1. (q - p) * n >= n
    BY <1>3, AtLeast
  <2>2. (q - p) * n = r - s
    OBVIOUS
  <2>3. QED
    BY <2>1, <2>2
<1>4. QED
  BY <1>1, <1>2, <1>3

LEMMA Remainder ==
  ASSUME NEW n \in Nat \ {0}, NEW q \in Nat, NEW r \in 0 .. n - 1,
         NEW a, a = (q * n) + r
  PROVE  a % n = r
<1>1. a \in Nat
  OBVIOUS
<1>2. PICK p \in Nat, s \in 0 .. n - 1 : s = a % n /\ a = (p * n) + s
  BY <1>1, Division
<1>3. QED
  BY <1>2, SameRemainder

\* Counting up a remainder, as head does.
LEMMA NextRemainder ==
  ASSUME NEW n \in Nat \ {0}, NEW a \in Nat
  PROVE  ((a % n) + 1) % n = (a + 1) % n
<1>1. PICK p \in Nat, r \in 0 .. n - 1 : r = a % n /\ a = (p * n) + r
  BY Division
<1>2. a + 1 \in Nat
  OBVIOUS
<1>3. PICK q \in Nat, s \in 0 .. n - 1 : s = (a + 1) % n /\ a + 1 = (q * n) + s
  BY <1>2, Division
<1>4. CASE r + 1 \in 0 .. n - 1
  <2>1. r + 1 = (0 * n) + (r + 1) /\ (p * n) + (r + 1) = (q * n) + s
    BY <1>1, <1>3
  <2>2. (r + 1) % n = r + 1
    BY <1>4, <2>1, Remainder
  <2>3. s = r + 1
    BY <1>4, <2>1, SameRemainder
  <2>4. QED
    BY <1>1, <1>3, <2>2, <2>3
<1>5. CASE r + 1 = n
  <2>1. r + 1 = (1 * n) + 0 /\ ((p + 1) * n) + 0 = (q * n) + s
    BY <1>1, <1>3, <1>5
  <2>2. (r + 1) % n = 0
    BY <2>1, Remainder
  <2>3. s = 0
    BY <2>1, SameRemainder
  <2>4. QED
    BY <1>1, <1>3, <2>2, <2>3
<1>6. QED
  BY <1>1, <1>4, <1>5

\* Indices less than n apart have slots of their own.
LEMMA SlotsApart ==
  ASSUME NEW n \in Nat \ {0}, NEW a \in Nat, NEW b \in Nat, a < b, b < a + n
  PROVE  a % n # b % n
<1>1. PICK p \in Nat, q \in Nat : a = (p * n) + (a % n) /\ b = (q * n) + (b % n)
  BY Division
<1>2. SUFFICES ASSUME a % n = b % n PROVE FALSE
  OBVIOUS
<1>3. a % n \in 0 .. n - 1
  BY Division
<1>4. (q - p) * n = b - a
  BY <1>1, <1>2, <1>3
<1>5. CASE q - p >= 1
  BY <1>4, <1>5, AtLeast
<1>6. CASE q - p <= 0
  <2>1. (q - p) * n <= 0
    BY <1>6
  <2>2. QED
    BY <1>4, <2>1
<1>7. QED
  BY <1>5, <1>6

-----------------------------------------------------------------------------
(* Induction, by a least counterexample *)

LessThan == {pair \in Nat \X Nat : pair[1] < pair[2]}

LEMMA LessThanWellFounded == IsWellFoundedOn(LessThan, Nat)
<1> USE DEF OpToRel
<1>1. IsWellFoundedOn(OpToRel(<, Nat), Nat)
  BY NatLessThanWellFounded
<1>2. QED
  BY <1>1 DEF LessThan

\* A set of natural numbers that is not empty has a least element.
LEMMA Least ==
  ASSUME NEW T, T \subseteq Nat, T # {}
  PROVE  \E x \in T : \A y \in T : x <= y
<1>1. PICK x \in T : \A y \in T : <<y, x>> \notin LessThan
  BY LessThanWellFounded, WFMin
<1>2. ASSUME NEW y \in T PROVE x <= y
  <2>1. x \in Nat /\ y \in Nat
    OBVIOUS
  <2>2. ~(y < x)
    BY <1>1, <2>1 DEF LessThan
  <2>3. QED
    BY <2>1, <2>2
<1>3. QED
  BY <1>2
=============================================================================
