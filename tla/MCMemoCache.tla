----------------------------- MODULE MCMemoCache -----------------------------
(* Three keys of different weights, every policy and every kind of budget. *)
EXTENDS MemoCache

MCWeight(k) == k
MCBudgets == {[kind |-> "unbounded", max |-> 0], [kind |-> "entries", max |-> 0],
              [kind |-> "entries", max |-> 2], [kind |-> "bytes", max |-> 2],
              [kind |-> "bytes", max |-> 4]}
=============================================================================
