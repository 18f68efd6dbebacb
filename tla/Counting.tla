------------------------------ MODULE Counting ------------------------------
(***************************************************************************)
(* Facts about numbers and finite sets that the proofs use, as formulas:   *)
(* a proof that needs one has it as a hypothesis, and CountingProofs shows *)
(* that they hold.  (A proof that reaches the library's theorems is many   *)
(* times slower to check.)                                                 *)
(***************************************************************************)
EXTENDS Integers, FiniteSetsExt

\* A set of numbers that has a bound has a greatest element, which Max chooses.
MaxFact ==
    \A S \in SUBSET Nat, m \in Nat :
        S # {} /\ (\A x \in S : x <= m) => Max(S) \in S /\ \A x \in S : x <= Max(S)

\* Of the numbers from 1 to m there are at most m; of a set that has all those from 1 to n,
\* at least n.
CountFact ==
    \A m \in Nat : \A S \in SUBSET (1..m) :
        /\ IsFiniteSet(S)
        /\ Cardinality(S) \in 0..m
        /\ \A n \in Nat : 1..n \in SUBSET S => n <= Cardinality(S)

\* A list as long as a finite set is large, of elements of the set and without repetition,
\* has every element.
ListFact ==
    \A D :
        IsFiniteSet(D) =>
            \A list \in [1..Cardinality(D) -> D] :
                (\A i, j \in 1..Cardinality(D) : list[i] = list[j] => i = j) =>
                    \A x \in D : \E i \in 1..Cardinality(D) : list[i] = x

\* A set that has 0, and with a number the next one, has every number.
InductionFact ==
    \A S : 0 \in S /\ (\A n \in Nat : n \in S => n + 1 \in S) => Nat \in SUBSET S

CountingFacts == MaxFact /\ CountFact /\ ListFact /\ InductionFact
=============================================================================
