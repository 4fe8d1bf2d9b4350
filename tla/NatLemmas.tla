------------------------------- MODULE NatLemmas -------------------------------
(***************************************************************************)
(* Induction over the natural numbers as statements about sets, and what   *)
(* the proofs need of powers of two.  The induction theorems of the        *)
(* library take an operator as parameter, which the provers cannot         *)
(* instantiate; WFMin takes sets, and so do the lemmas here.               *)
(***************************************************************************)
EXTENDS Integers, FiniteSets, FiniteSetTheorems, WellFoundedInduction, TLAPS

\* Every non-empty set of natural numbers has a least element.
LEMMA LeastNat ==
  ASSUME NEW T \in SUBSET Nat, T # {}
  PROVE  \E x \in T : \A y \in T : x <= y
<1> DEFINE R == OpToRel(<, Nat)
<1>1. IsWellFoundedOn(R, Nat)
  BY NatLessThanWellFounded
<1>2. \E x \in T : \A y \in T : ~(<<y, x>> \in R)
  <2> HIDE DEF R
  <2> QED
    BY <1>1, WFMin
<1>3. \A x, y \in Nat : y < x => <<y, x>> \in R
  BY DEF OpToRel
<1>4. PICK x \in T : \A y \in T : ~(<<y, x>> \in R)
  BY <1>2
<1>5. ASSUME NEW y \in T PROVE x <= y
  <2>1. ~(y < x)
    <3> HIDE DEF R
    <3> QED
      BY <1>3, <1>4
  <2> QED
    BY <2>1
<1> QED
  BY <1>5

\* Induction: a set that holds zero and the successor of each of its numbers below n
\* holds all numbers up to n.
LEMMA UpTo ==
  ASSUME NEW n \in Nat, NEW S, 0 \in S, \A k \in 0 .. n - 1 : k \in S => k + 1 \in S
  PROVE  0 .. n \subseteq S
<1> DEFINE T == {k \in 0 .. n : k \notin S}
<1> SUFFICES ASSUME T # {} PROVE FALSE
  OBVIOUS
<1>1. PICK x \in T : \A y \in T : x <= y
  <2> T \in SUBSET Nat
    OBVIOUS
  <2> HIDE DEF T
  <2> QED
    BY LeastNat
<1>2. x - 1 \in 0 .. n - 1 /\ x - 1 \notin T
  BY <1>1
<1>3. (x - 1) + 1 \in S
  BY <1>2
<1> QED
  BY <1>1, <1>2, <1>3

\* 2 ^ n is the number of subsets of a set with n elements, and one more element
\* doubles it.
LEMMA PowerOfTwo ==
  /\ 2 ^ 0 = 1
  /\ \A n \in Nat : 2 ^ n \in Nat \ {0} /\ 2 ^ (n + 1) = 2 * 2 ^ n
<1> DEFINE Subsets(n) == SUBSET (1 .. n)
<1>1. \A n \in Nat : IsFiniteSet(Subsets(n)) /\ Cardinality(Subsets(n)) = 2 ^ n
  <2> TAKE n \in Nat
  <2>1. IsFiniteSet(1 .. n) /\ Cardinality(1 .. n) = n
    BY FS_Interval
  <2>2. IsFiniteSet(SUBSET (1 .. n)) /\ Cardinality(SUBSET (1 .. n)) = 2 ^ Cardinality(1 .. n)
    BY <2>1, FS_SUBSET
  <2> QED
    BY <2>1, <2>2
<1>2. ASSUME NEW n \in Nat
      PROVE  Cardinality(Subsets(n + 1)) = 2 * Cardinality(Subsets(n))
  <2> DEFINE New == {T \union {n + 1} : T \in Subsets(n)}
             Add == [T \in Subsets(n) |-> T \union {n + 1}]
  <2>1. n + 1 \notin 1 .. n
    OBVIOUS
  <2>2. Add \in Bijection(Subsets(n), New)
    <3>1. \A T, U \in Subsets(n) : T \union {n + 1} = U \union {n + 1} => T = U
      BY <2>1
    <3>2. Add \in [Subsets(n) -> New] /\ \A U \in New : \E T \in Subsets(n) : Add[T] = U
      OBVIOUS
    <3>3. \A T, U \in Subsets(n) : Add[T] = Add[U] => T = U
      BY <3>1
    <3> HIDE DEF Subsets, New, Add
    <3> QED
      BY <3>2, <3>3 DEF Bijection, Injection, Surjection, IsInjective
  <2>3. IsFiniteSet(New) /\ Cardinality(New) = Cardinality(Subsets(n))
    BY <1>1, <2>2, FS_Bijection DEF ExistsBijection
  <2>4. Subsets(n) \intersect New = {}
    BY <2>1
  <2>5. Subsets(n + 1) = Subsets(n) \union New
    <3>1. 1 .. n + 1 = (1 .. n) \union {n + 1}
      OBVIOUS
    <3>2. ASSUME NEW T \in Subsets(n + 1), n + 1 \in T
          PROVE  T \in New
      <4>1. T \ {n + 1} \in Subsets(n) /\ T = (T \ {n + 1}) \union {n + 1}
        BY <3>1, <3>2
      <4> QED
        BY <4>1
    <3>3. ASSUME NEW T \in Subsets(n + 1), n + 1 \notin T
          PROVE  T \in Subsets(n)
      BY <3>1, <3>3
    <3>4. Subsets(n) \subseteq Subsets(n + 1) /\ New \subseteq Subsets(n + 1)
      BY <3>1
    <3> QED
      BY <3>2, <3>3, <3>4
  <2>6. Cardinality(Subsets(n) \union New)
          = Cardinality(Subsets(n)) + Cardinality(New) - Cardinality(Subsets(n) \intersect New)
    <3> HIDE DEF Subsets, New
    <3> QED
      BY <1>1, <2>3, FS_Union
  <2>7. Cardinality({}) = 0
    BY FS_EmptySet
  <2>8. Cardinality(Subsets(n)) \in Nat
    BY <1>1, FS_CardinalityType
  <2>9. Cardinality(Subsets(n + 1))
          = Cardinality(Subsets(n)) + Cardinality(Subsets(n)) - 0
    <3> HIDE DEF Subsets, New
    <3> QED
      BY <2>3, <2>4, <2>5, <2>6, <2>7
  <2> HIDE DEF Subsets
  <2> QED
    BY <2>8, <2>9
<1>3. ASSUME NEW n \in Nat
      PROVE  2 ^ n \in Nat \ {0} /\ 2 ^ (n + 1) = 2 * 2 ^ n
  <2>1. 2 ^ (n + 1) = 2 * 2 ^ n
    <3>1. 2 ^ n = Cardinality(Subsets(n)) /\ 2 ^ (n + 1) = Cardinality(Subsets(n + 1))
      <4> n + 1 \in Nat
        OBVIOUS
      <4> HIDE DEF Subsets
      <4> QED
        BY <1>1
    <3> HIDE DEF Subsets
    <3> QED
      BY <1>2, <3>1
  <2>2. Cardinality(Subsets(n)) \in Nat /\ Cardinality(Subsets(n)) # 0
    <3>1. {} \in Subsets(n)
      OBVIOUS
    <3> HIDE DEF Subsets
    <3> QED
      BY <1>1, <3>1, FS_EmptySet, FS_CardinalityType
  <2> QED
    BY <1>1, <2>1, <2>2
<1>4. 2 ^ 0 = 1
  OBVIOUS
<1> QED
  BY <1>3, <1>4
================================================================================
