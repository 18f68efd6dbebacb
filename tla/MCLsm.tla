------------------------------- MODULE MCLsm -------------------------------
(***************************************************************************)
(* Lsm for TLC: a tree on a sound disk, and a tree with a small memtable   *)
(* on a disk that tears appends and fails them late.                       *)
(***************************************************************************)
EXTENDS Lsm, TLC

CONSTANTS v1, v2

MCSettings == {[vals |-> {v1, v2}, capacity |-> 99, faults |-> {}],
               [vals |-> {v1}, capacity |-> 3, faults |-> {"torn", "late"}]}

\* Keys are compared for equality only.
KeySymmetry == Permutations(Keys)
=============================================================================
