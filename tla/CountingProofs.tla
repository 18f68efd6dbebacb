--------------------------- MODULE CountingProofs ---------------------------
(***************************************************************************)
(* The facts of Counting hold.                                             *)
(***************************************************************************)
EXTENDS Counting, FiniteSetTheorems, TLAPS

\* A set of numbers that has a bound has a greatest element, which Max chooses.
LEMMA GreatestOfBounded ==
    ASSUME NEW S \in SUBSET Nat, S # {}, NEW m \in Nat, \A x \in S : x <= m
    PROVE  Max(S) \in S /\ \A x \in S : x <= Max(S)
  <1> DEFINE T == {n \in Nat : \E x \in S : n = m - x}
  <1>1. \A x \in S : m - x \in T
    OBVIOUS
  <1>2. T \in SUBSET Nat /\ T # {}
    BY <1>1
  <1> HIDE DEF T
  <1>3. PICK t \in T : \A y \in T : ~(<<y, t>> \in OpToRel(<, Nat))
    BY <1>2, NatLessThanWellFounded, WFMin
  <1>4. \A y \in T : ~(y < t)
    BY <1>2, <1>3 DEF OpToRel
  <1>5. PICK x \in S : t = m - x
    BY DEF T
  <1>6. \A y \in S : ~(m - y < m - x)
    BY <1>1, <1>4, <1>5
  <1>7. \A y \in S : y <= x
    BY <1>6
  <1>8. x \in S /\ \A y \in S : x >= y
    BY <1>7
  <1> QED
    BY <1>8 DEF Max

\* How many numbers there are from 1 to k.
LEMMA CountTo ==
    ASSUME NEW k \in Nat
    PROVE  IsFiniteSet(1..k) /\ Cardinality(1..k) = k
  <1>1. 1 \in Int /\ k \in Int
    OBVIOUS
  <1>2. IsFiniteSet(1..k) /\ Cardinality(1..k) = IF 1 > k THEN 0 ELSE k - 1 + 1
    BY <1>1, FS_Interval
  <1> QED
    BY <1>2

\* Numbers from 1 to m: there are at most m, and they are finitely many.
LEMMA CountWithin ==
    ASSUME NEW m \in Nat, NEW S \in SUBSET (1..m)
    PROVE  IsFiniteSet(S) /\ Cardinality(S) \in 0..m
  <1>1. IsFiniteSet(1..m) /\ Cardinality(1..m) = m
    BY CountTo
  <1>2. IsFiniteSet(S) /\ Cardinality(S) <= m
    BY <1>1, FS_Subset
  <1>3. Cardinality(S) \in Nat
    BY <1>2, FS_CardinalityType
  <1> QED
    BY <1>2, <1>3

\* A set of numbers from 1 to m that has all those to n has at least n.
LEMMA CountAtLeast ==
    ASSUME NEW m \in Nat, NEW S \in SUBSET (1..m), NEW n \in Nat, 1..n \in SUBSET S
    PROVE  n <= Cardinality(S)
  <1>1. IsFiniteSet(S)
    BY CountWithin
  <1>2. Cardinality(1..n) <= Cardinality(S)
    BY <1>1, FS_Subset
  <1>3. Cardinality(1..n) = n
    BY CountTo
  <1> QED
    BY <1>2, <1>3

\* A list of the elements of a finite set, as long as the set is large, in which none is
\* twice, has every element.
LEMMA ListsAll ==
    ASSUME NEW D, IsFiniteSet(D), NEW order \in [1..Cardinality(D) -> D],
           \A i, j \in 1..Cardinality(D) : order[i] = order[j] => i = j
    PROVE  \A x \in D : \E i \in 1..Cardinality(D) : order[i] = x
  <1> DEFINE c == Cardinality(D)
  <1>1. c \in Nat
    BY FS_CardinalityType
  <1>2. IsFiniteSet(1..c) /\ Cardinality(1..c) = c
    BY <1>1, CountTo
  <1>3. order \in Injection(1..c, D)
    BY DEF Injection, IsInjective
  <1>4. order \in Surjection(1..c, D)
    BY <1>2, <1>3, FS_Injection
  <1> QED
    BY <1>4 DEF Surjection

\* A set of numbers that has 0, and the next of each of its elements, has every number.
LEMMA Induction ==
    ASSUME NEW S, 0 \in S, \A n \in Nat : n \in S => n + 1 \in S
    PROVE  \A n \in Nat : n \in S
  <1> DEFINE T == Nat \ S
  <1>1. SUFFICES ASSUME T # {} PROVE FALSE
    OBVIOUS
  <1>2. T \in SUBSET Nat
    OBVIOUS
  <1> HIDE DEF T
  <1>3. PICK t \in T : \A y \in T : ~(<<y, t>> \in OpToRel(<, Nat))
    BY <1>1, <1>2, NatLessThanWellFounded, WFMin
  <1>4. \A y \in T : ~(y < t)
    BY <1>2, <1>3 DEF OpToRel
  <1>5. t \in Nat /\ t # 0 /\ t \notin S
    BY DEF T
  <1>6. t - 1 \in Nat /\ t - 1 < t /\ (t - 1) + 1 = t
    BY <1>5
  <1>7. t - 1 \in S
    BY <1>4, <1>6 DEF T
  <1> QED
    BY <1>5, <1>6, <1>7

\* What the other proofs take from here.
THEOREM CountingHolds == CountingFacts
  <1>1. MaxFact
    BY GreatestOfBounded DEF MaxFact
  <1>2. CountFact
    <2> SUFFICES ASSUME NEW m \in Nat, NEW S \in SUBSET (1..m)
                 PROVE  /\ IsFiniteSet(S)
                        /\ Cardinality(S) \in 0..m
                        /\ \A n \in Nat : 1..n \in SUBSET S => n <= Cardinality(S)
      BY DEF CountFact
    <2> QED
      BY CountWithin, CountAtLeast
  <1>3. ListFact
    BY ListsAll DEF ListFact
  <1>4. InductionFact
    <2> SUFFICES ASSUME NEW S, 0 \in S, \A n \in Nat : n \in S => n + 1 \in S
                 PROVE  Nat \in SUBSET S
      BY DEF InductionFact
    <2>1. \A n \in Nat : n \in S
      BY Induction
    <2> QED
      BY <2>1
  <1> QED
    BY <1>1, <1>2, <1>3, <1>4 DEF CountingFacts
=============================================================================
