------------------------------- MODULE Frames -------------------------------
(***************************************************************************)
(* The contents of a journal file (crates/journal) after its header: a     *)
(* sequence of frames.  A frame is the record it carries, or one of two    *)
(* remains of a write that never completed:                                *)
(*                                                                         *)
(*   Torn   bytes whose length or CRC check fails, or too few bytes for a  *)
(*          frame header;                                                  *)
(*   Zeros  eight or more zero bytes.  A frame header of zeros says        *)
(*          "payload of length 0 with CRC 0", and 0 is the CRC32 of the    *)
(*          empty payload, so read_frame accepts it.                       *)
(*                                                                         *)
(* A 32-bit CRC is taken to detect every torn frame.                       *)
(***************************************************************************)
EXTENDS Naturals, Sequences, FiniteSets

CONSTANTS Torn, Zeros

(***************************************************************************)
(* Replay reads frames from the start and stops at the first one that      *)
(* read_frame rejects: frame i is reached iff no frame up to it is torn.   *)
(***************************************************************************)
Reached(log, i) == \A j \in 1..i : log[j] # Torn

ReachedIndices(log) == {i \in DOMAIN log : Reached(log, i)}

\* The frames a replay yields, in file order.
Replay(log) == SubSeq(log, 1, Cardinality(ReachedIndices(log)))

\* The same frames as a set.
Replayed(log) == {log[i] : i \in ReachedIndices(log)}

(***************************************************************************)
(* The codecs of the three clients (memtable, manifest, page cache) reject *)
(* the empty payload of a zero frame, and each client turns that into an   *)
(* error of its own open.                                                  *)
(***************************************************************************)
DecodeFails(log) == Zeros \in Replayed(log)
=============================================================================
