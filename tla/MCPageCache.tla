---------------------------- MODULE MCPageCache ----------------------------
(***************************************************************************)
(* PageCache for TLC: three versions of pages and two faults without       *)
(* readers, or two versions and one fault with two readers per frame.      *)
(***************************************************************************)
EXTENDS PageCache

MCLimits == {[stamps |-> 3, readers |-> 0, faults |-> 2],
             [stamps |-> 2, readers |-> 2, faults |-> 1]}
=============================================================================
