---------------------------- MODULE NaturalFacts ----------------------------
(***************************************************************************)
(* Facts about natural numbers that the proofs of several components need. *)
(* Induction is stated with a set in place of a predicate: it follows from *)
(* the well-foundedness of < on sets, which is a theorem of the library.   *)
(***************************************************************************)
EXTENDS Integers, FiniteSetsExt, FiniteSetTheorems, WellFoundedInduction, TLAPS

\* A set of natural numbers that is not empty has a least element.
LEMMA LeastElement ==
    ASSUME NEW T \in SUBSET Nat, T # {}
    PROVE  \E x \in T : \A y \in T : x <= y
  <1> DEFINE R == OpToRel(<, Nat)
  <1>1. \A x, y \in Nat : <<y, x>> \in R <=> y < x
    BY DEF OpToRel
  <1>2. IsWellFoundedOn(R, Nat)
    BY NatLessThanWellFounded
  <1> HIDE DEF R
  <1>3. PICK x \in T : \A y \in T : ~(<<y, x>> \in R)
    BY <1>2, WFMin
  <1>4. \A y \in T : ~(y < x)
    BY <1>1, <1>3, Zenon
  <1>5. QED
    BY <1>4

\* Max of a bounded set of natural numbers that is not empty is its greatest
\* element.
LEMMA GreatestElement ==
    ASSUME NEW n \in Nat, NEW T \in SUBSET (0..n), T # {}
    PROVE  Max(T) \in T /\ \A y \in T : y <= Max(T)
  <1> DEFINE Bounds == {m \in Nat : \A y \in T : y <= m}
  <1>1. n \in Bounds /\ Bounds \in SUBSET Nat
    OBVIOUS
  <1>2. PICK x \in Bounds : \A m \in Bounds : x <= m
    BY <1>1, LeastElement
  <1>3. x \in T
    <2> SUFFICES ASSUME x \notin T PROVE FALSE
      OBVIOUS
    <2>1. \A y \in T : y <= x - 1
      BY <1>2
    <2>2. PICK y \in T : y \in 0..n
      OBVIOUS
    <2>3. x - 1 \in Nat
      BY <2>1, <2>2
    <2>4. x - 1 \in Bounds
      BY <2>1, <2>3
    <2>5. QED
      BY <1>2, <2>4
  <1>4. \E m \in T : \A y \in T : m >= y
    BY <1>2, <1>3
  <1>5. Max(T) \in T /\ \A y \in T : Max(T) >= y
    BY <1>4 DEF Max
  <1>6. QED
    BY <1>5

\* A set that has 0 and, with a number below n, the next one, has all numbers
\* up to n.
LEMMA InductionUpTo ==
    ASSUME NEW n \in Nat, NEW S, 0 \in S, \A i \in 1..n : i - 1 \in S => i \in S
    PROVE  0..n \subseteq S
  <1> SUFFICES ASSUME (0..n) \ S # {} PROVE FALSE
    OBVIOUS
  <1>1. (0..n) \ S \in SUBSET Nat
    OBVIOUS
  <1>2. PICK x \in (0..n) \ S : \A y \in (0..n) \ S : x <= y
    BY <1>1, LeastElement
  <1>3. x \in 1..n /\ x - 1 \in 0..n
    BY <1>2
  <1>4. x - 1 \in S
    BY <1>2, <1>3
  <1>5. QED
    BY <1>2, <1>3, <1>4

\* A power of two is a positive number.
LEMMA PowerOfTwo ==
    ASSUME NEW n \in Nat
    PROVE  2^n \in Nat \ {0}
  <1>1. IsFiniteSet(1..n) /\ Cardinality(1..n) = n
    BY FS_Interval
  <1>2. IsFiniteSet(SUBSET (1..n)) /\ Cardinality(SUBSET (1..n)) = 2^n
    BY <1>1, FS_SUBSET
  <1>3. {} \in SUBSET (1..n)
    OBVIOUS
  <1>4. Cardinality(SUBSET (1..n)) \in Nat /\ Cardinality(SUBSET (1..n)) # 0
    BY <1>2, <1>3, FS_CardinalityType, FS_EmptySet
  <1>5. QED
    BY <1>2, <1>4
=============================================================================
