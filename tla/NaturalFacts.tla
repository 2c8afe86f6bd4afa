----------------------------- MODULE NaturalFacts -----------------------------
(***************************************************************************)
(* What the proofs share about the naturals: induction over sets, which    *)
(* needs no predicate as a parameter, and division.                        *)
(***************************************************************************)
EXTENDS Integers, NaturalsInduction, WellFoundedInduction, TLAPS

\* Every set of naturals that is not empty has a least element.
LEMMA LeastNumber ==
  ASSUME NEW S \in SUBSET Nat, S # {}
  PROVE  \E i \in S : \A j \in S : i <= j
<1> DEFINE Lt == OpToRel(<, Nat)
<1>1. IsWellFoundedOn(Lt, Nat)
  BY NatLessThanWellFounded
<1>2. \A x, y \in Nat : <<y, x>> \in Lt <=> y < x
  BY DEF OpToRel
<1> HIDE DEF Lt
<1>3. PICK i \in S : \A j \in S : ~(<<j, i>> \in Lt)
  BY <1>1, WFMin, Zenon
<1>4. \A j \in S : j \in Nat /\ i \in Nat /\ ~(j < i)
  BY <1>2, <1>3
<1> QED
  BY <1>4

\* A set with 0, and with n + 1 whenever it has n, has every natural.
LEMMA SetInduction ==
  ASSUME NEW S, 0 \in S, \A n \in Nat : n \in S => n + 1 \in S
  PROVE  Nat \subseteq S
<1>1. SUFFICES ASSUME Nat \ S # {}
               PROVE  FALSE
  OBVIOUS
<1>2. PICK i \in Nat \ S : \A j \in Nat \ S : i <= j
  BY <1>1, LeastNumber
<1>3. i - 1 \in Nat /\ ~(i <= i - 1) /\ (i - 1) + 1 = i
  BY <1>2
<1> QED
  BY <1>2, <1>3

----------------------------------------------------------------------------
(* Division.                                                               *)

\* What quotient and remainder are.
LEMMA Division ==
  ASSUME NEW a \in Nat, NEW b \in Nat \ {0}, NEW q, q = a \div b, NEW r, r = a % b
  PROVE  q \in Nat /\ r \in Nat /\ r < b /\ a = b * q + r
<1>1. q \in Int /\ r \in 0 .. b - 1 /\ a = q * b + r
  OBVIOUS
<1>2. q >= 0
  <2>1. SUFFICES ASSUME q + 1 <= 0 PROVE FALSE
    BY <1>1
  <2>2. b * (q + 1) = b * q + b /\ b * (q + 1) <= 0 /\ b * q \in Int
    BY <1>1, <2>1
  <2> QED
    BY <1>1, <2>2
<1> QED
  BY <1>1, <1>2

\* The least and the largest number with a quotient.
LEMMA Quotient ==
  ASSUME NEW a \in Nat, NEW b \in Nat \ {0}, NEW q, q = a \div b
  PROVE  /\ q \in Nat /\ b * q <= a /\ a < b * (q + 1)
         /\ a % b = 0 => a = b * q
<1> DEFINE r == a % b
<1>1. q \in Nat /\ r \in Nat /\ r < b /\ a = b * q + r
  BY Division
<1>2. b * (q + 1) = b * q + b /\ b * q \in Int
  BY <1>1
<1> HIDE DEF r
<1>3. q \in Nat /\ b * q <= a /\ a < b * (q + 1) /\ (r = 0 => a = b * q)
  BY <1>1, <1>2
<1> QED
  BY <1>3 DEF r

\* The quotient and the remainder of a number of units and less than one more.
LEMMA DivUnique ==
  ASSUME NEW q \in Nat, NEW r \in Nat, NEW b \in Nat \ {0}, r < b
  PROVE  (b * q + r) \div b = q
OBVIOUS

LEMMA ModFromDiv ==
  ASSUME NEW a \in Nat, NEW b \in Nat \ {0}
  PROVE  a % b \in Nat /\ a = b * (a \div b) + (a % b)
BY Division

LEMMA ModUnique ==
  ASSUME NEW q \in Nat, NEW r \in Nat, NEW b \in Nat \ {0}, r < b
  PROVE  (b * q + r) % b = r
<1>1. PICK a \in Nat : a = b * q + r
  OBVIOUS
<1>2. a \div b = q
  BY <1>1, DivUnique
<1>3. PICK m \in Nat : m = a % b /\ a = b * q + m
  BY <1>2, ModFromDiv
<1>4. m = r
  BY <1>1, <1>3
<1> QED
  BY <1>1, <1>3, <1>4

\* A number is its own remainder when it is less.
LEMMA ModSmall ==
  ASSUME NEW a \in Nat, NEW b \in Nat, a < b
  PROVE  a % b = a
OBVIOUS

\* Multiples are ordered as what they are multiples of.
LEMMA Cancel ==
  ASSUME NEW a \in Int, NEW b \in Int, NEW u \in Nat \ {0}
  PROVE  u * a <= u * b <=> a <= b
OBVIOUS

\* A quotient is less than a number whose multiple is not reached.
LEMMA DivLess ==
  ASSUME NEW a \in Nat, NEW b \in Nat \ {0}, NEW n \in Nat, a < n * b
  PROVE  a \div b \in 0 .. n - 1
<1> SUFFICES ASSUME NEW q, q = a \div b PROVE q \in 0 .. n - 1
  OBVIOUS
<1>1. q \in Nat /\ b * q <= a /\ b * q \in Nat /\ b * n = n * b
  BY Quotient
<1>2. ~(n <= q)
  <2>1. n <= q => b * n <= b * q
    BY <1>1, Cancel
  <2> QED
    BY <1>1, <2>1
<1> QED
  BY <1>1, <1>2
===============================================================================
