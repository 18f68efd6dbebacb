------------------------------ MODULE Memtable ------------------------------
(***************************************************************************)
(* lsm::memstore and lsm::key: the sorted in-memory table of versioned     *)
(* entries, and its reconstruction from the memtable journal.              *)
(*                                                                         *)
(* A table is a record: map, the set of its entries; size, the bytes it    *)
(* accounts for; capacity, its byte budget; full, set when a put was       *)
(* refused (StoreFull).                                                    *)
(***************************************************************************)
EXTENDS Frames, Integers, FiniteSetsExt

CONSTANTS Keys,      \* user keys
          Vals,      \* values of puts
          Empty      \* the empty value: what a tombstone carries

\* The bytes an entry accounts for: one for its key and one for its value.
Bytes(e) == IF e.val = Empty THEN 1 ELSE 2

EmptyTable(capacity) ==
    [map |-> {}, size |-> 0, capacity |-> capacity, full |-> FALSE]

\* InternalKey's Ord: user key, then seq; the op does not take part.
SameSlot(e, f) == e.key = f.key /\ e.seq = f.seq

(***************************************************************************)
(* BTreeMap::insert: where the slot is taken it replaces the value and     *)
(* keeps the key that is there, and with it the op.                        *)
(***************************************************************************)
Insert(map, e) ==
    {f \in map : ~SameSlot(e, f)}
    \cup IF \E f \in map : SameSlot(e, f)
         THEN {[f EXCEPT !.val = e.val] : f \in {g \in map : SameSlot(e, g)}}
         ELSE {e}

\* BTreeMemtable::put.  The first entry is accepted whatever its size.
TablePut(t, e) ==
    IF t.full \/ (t.map # {} /\ t.size + Bytes(e) > t.capacity)
    THEN [t EXCEPT !.full = TRUE]
    ELSE [t EXCEPT !.map = Insert(t.map, e), !.size = t.size + Bytes(e)]

\* Journaled::open: put every replayed record; the first refusal ends it.
Recover(capacity, wal) ==
    LET records == Replay(wal)
        table[n \in 0..Len(records)] ==
            IF n = 0 THEN EmptyTable(capacity) ELSE TablePut(table[n - 1], records[n])
    IN  table[Len(records)]

-----------------------------------------------------------------------------
\* The versions of k visible at snapshot s, and the newest of them.
Versions(map, k, s) == {e \in map : e.key = k /\ e.seq <= s}

NewestOf(versions) == CHOOSE e \in versions : \A f \in versions : f.seq <= e.seq

MaxSeq(map) == IF map = {} THEN 0 ELSE Max({e.seq : e \in map})
=============================================================================
