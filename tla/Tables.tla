------------------------------- MODULE Tables -------------------------------
(***************************************************************************)
(* lsm::storage: how an SSTable is packed into blocks, how its index is    *)
(* sharded, and how a lookup finds a version in it.                        *)
(*                                                                         *)
(* Keys are numbers and an entry's value is its seq.  Where the index has  *)
(* an offset and a length, it has here what a read of these bytes returns. *)
(***************************************************************************)
EXTENDS Integers, SequencesExt

CONSTANTS Target,    \* page_size_bytes: what a block should not exceed
          PerChunk   \* blocks_per_chunk: what an inline index may hold

ASSUME TablesAssumption == Target \in Nat \ {0} /\ PerChunk \in Nat \ {0}

\* InternalKey's Ord: key ascending, then seq descending.
Before(e, f) == e.key < f.key \/ (e.key = f.key /\ e.seq > f.seq)

Sorted(entries) == SetToSortSeq(entries, Before)

\* entry_size: a tombstone has no value.
EntrySize(e) == IF e.op = "put" THEN 2 ELSE 1

BlockSize(block) == FoldLeft(LAMBDA n, e : n + EntrySize(e), 0, block)

\* One turn of build's loop: e starts a block unless it fits the last one.
Pack(blocks, e) ==
    IF blocks = <<>> \/ BlockSize(Last(blocks)) + EntrySize(e) > Target
    THEN Append(blocks, <<e>>)
    ELSE Front(blocks) \o <<Append(Last(blocks), e)>>

\* build, on entries in order.
Build(entries) == FoldLeft(Pack, <<>>, entries)

\* BlockMeta: the range of a block, and the block.
BlockMeta(block) == [min |-> block[1].key, max |-> Last(block).key, at |-> block]

\* append_shards: slices of PerChunk block metas, the last one shorter.
Shards(metas) ==
    LET n == (Len(metas) + PerChunk - 1) \div PerChunk
    IN  [c \in 1..n |-> LET last == c * PerChunk
                        IN  SubSeq(metas, last - PerChunk + 1,
                                   IF last < Len(metas) THEN last ELSE Len(metas))]

\* ChunkRef: the range of a shard, and the shard.
ChunkRef(shard) == [min |-> shard[1].min, max |-> Last(shard).max, at |-> shard]

(***************************************************************************)
(* SsTable::write, of a non-empty set of entries.  inline is the block     *)
(* index in the root, and empty if chunks, the directory of shards, is not.*)
(***************************************************************************)
Table(entries) ==
    LET blocks == Build(Sorted(entries))
        metas == [i \in DOMAIN blocks |-> BlockMeta(blocks[i])]
        shards == Shards(metas)
        small == Len(blocks) <= PerChunk
    IN  [min    |-> metas[1].min,
         max    |-> Last(metas).max,
         inline |-> IF small THEN metas ELSE <<>>,
         chunks |-> IF small THEN <<>>
                    ELSE [c \in DOMAIN shards |-> ChunkRef(shards[c])]]

-----------------------------------------------------------------------------
(* Lookup.                                                                 *)

\* Mutant: the last meta whose range holds the key.
CoveringLast(metas, k) ==
    LET hits == {i \in DOMAIN metas : metas[i].min <= k /\ k <= metas[i].max}
    IN  {metas[i] : i \in {j \in hits : \A h \in hits : j >= h}}

\* covering: the first meta whose range holds the key, as a set.
Covering(metas, k) ==
    LET hits == {i \in DOMAIN metas : metas[i].min <= k /\ k <= metas[i].max}
    IN  {metas[i] : i \in {j \in hits : \A h \in hits : j <= h}}

\* locate_block: through the shard that covers the key, if there are any.
LocateBlock(t, k) ==
    IF t.chunks = <<>> THEN Covering(t.inline, k)
    ELSE UNION {Covering(c.at, k) : c \in Covering(t.chunks, k)}

(***************************************************************************)
(* SsTable::get, as the set of its result: the first entry of the located  *)
(* block that has the key and is visible.  The bloom filter only skips     *)
(* tables that do not hold the key.                                        *)
(***************************************************************************)
TableGet(t, k, s) ==
    UNION {LET hits == {i \in DOMAIN m.at : m.at[i].key = k /\ m.at[i].seq <= s}
           IN  {m.at[i] : i \in {j \in hits : \A h \in hits : j <= h}}
           : m \in LocateBlock(t, k)}
=============================================================================
