---------------------------- MODULE ByteStrings ----------------------------
(***************************************************************************)
(* The order of byte strings: Ord for Vec<u8>, which the storage engine    *)
(* keeps its keys in and the executor sorts and merges by.                 *)
(***************************************************************************)
EXTENDS Integers, Sequences, FiniteSetsExt

\* Lexicographic order on byte sequences: a proper prefix comes first.
LexLess(a, b) ==
    \E i \in DOMAIN b :
        /\ i <= Len(a) + 1
        /\ \A j \in 1 .. i - 1 : a[j] = b[j]
        /\ i <= Len(a) => a[i] < b[i]
============================================================================
