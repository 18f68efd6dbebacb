------------------------------ MODULE ReadPath ------------------------------
(***************************************************************************)
(* Lsm::scan_at over the memtable and SSTables on disk: lazy streams that  *)
(* fault index shards and blocks in as they are drained, merged by key and *)
(* seq, and resolved to one pair per key; any read of the disk may fail.   *)
(*                                                                         *)
(* The tree was filled by Writes writes, numbered by their seq, and        *)
(* flushed after some of them.                                             *)
(***************************************************************************)
EXTENDS Tables

CONSTANTS MaxKey,     \* keys are 1..MaxKey
          Writes,     \* how many writes filled the tree
          Snapshots,  \* the max_seq of a scan
          MaxFaults   \* bound: reads that fail

ASSUME ReadPathAssumption ==
    MaxKey \in Nat /\ Writes \in Nat /\ Snapshots \subseteq Nat /\ MaxFaults \in Nat

VARIABLES mem,      \* the memtable's entries
          tables,   \* the SSTables, oldest first
          query,    \* the range and snapshot of the scan
          sources,  \* what is left of each source's stream
          heads,    \* MergeIterator: the next item of each source
          pulling,  \* the source whose head is being fetched; 0: none
          lastKey,  \* VersionResolver::last_key; 0: none
          out,      \* what the scan has yielded
          faults    \* counter for the bound

tree == <<mem, tables, query>>
vars == <<tree, sources, heads, pulling, lastKey, out, faults>>

Keys == 1..MaxKey

\* Heads other than an entry: not fetched, a stream at its end, an error.
Pending == [key |-> 0, seq |-> 0, op |-> "pending"]
End == [key |-> 0, seq |-> 0, op |-> "end"]
Err == [key |-> 0, seq |-> 0, op |-> "error"]

-----------------------------------------------------------------------------
(* Ranges.  A bound is a kind and a key.                                   *)

Unbounded == [kind |-> "none", key |-> 0]
Bounds == {Unbounded} \cup [kind : {"incl", "excl"}, key : Keys]

InBounds(k, q) ==
    /\ q.start.kind = "incl" => k >= q.start.key
    /\ q.start.kind = "excl" => k > q.start.key
    /\ q.end.kind = "incl" => k <= q.end.key
    /\ q.end.kind = "excl" => k < q.end.key

\* block_overlaps, and overlaps for a whole table.
BlockOverlaps(m, q) ==
    /\ q.start.kind = "incl" => m.max >= q.start.key
    /\ q.start.kind = "excl" => m.max > q.start.key
    /\ q.end.kind = "incl" => m.min <= q.end.key
    /\ q.end.kind = "excl" => m.min < q.end.key

\* BTreeMap::range panics on a start behind the end: not a query.
ValidRange(q) ==
    q.start.kind # "none" /\ q.end.kind # "none" =>
        \/ q.start.key < q.end.key
        \/ q.start.key = q.end.key /\ ~(q.start.kind = "excl" /\ q.end.kind = "excl")

Queries == {q \in [start : Bounds, end : Bounds, seq : Snapshots] : ValidRange(q)}

-----------------------------------------------------------------------------
(* The trees a scan may meet.                                              *)

Visible(e, q) == e.seq <= q.seq /\ InBounds(e.key, q)

\* A stream: shards, block metas and entries that are left, in this order.
Stream(chunks, metas, entries) ==
    [chunks |-> chunks, metas |-> metas, entries |-> entries]

MemStream == Stream(<<>>, <<>>, Sorted({e \in mem : Visible(e, query)}))

\* SsTable::scan: the index is walked on demand.
TableStream(t) == Stream(t.chunks, t.inline, <<>>)

(***************************************************************************)
(* Writes w[1..n] with a flush after each of cuts; if kept, a crash came   *)
(* between the commit and the clear of the last flush, and the memtable    *)
(* was replayed with the flushed entries.                                  *)
(***************************************************************************)
History == [1..Writes -> [key : Keys, op : {"put", "delete"}]]

EntriesIn(w, lo, hi) == {[key |-> w[i].key, seq |-> i, op |-> w[i].op] : i \in lo..hi}

Fill(w, cuts, kept) ==
    LET flushes == SetToSortSeq(cuts, <)
        first(i) == IF i = 1 THEN 1 ELSE flushes[i - 1] + 1
        n == Len(flushes)
        from == IF n = 0 THEN 1 ELSE IF kept THEN first(n) ELSE flushes[n] + 1
    IN  /\ mem = EntriesIn(w, from, Writes)
        /\ tables = [i \in 1..n |-> Table(EntriesIn(w, first(i), flushes[i]))]

Init ==
    /\ \E w \in History, cuts \in SUBSET (1..Writes), kept \in BOOLEAN :
          /\ kept => cuts # {}
          /\ Fill(w, cuts, kept)
    /\ query \in Queries
    /\ sources = <<>>
    /\ heads = <<>>
    /\ pulling = 0
    /\ lastKey = 0
    /\ out = <<>>
    /\ faults = 0

-----------------------------------------------------------------------------
(* Starting the scan.                                                      *)

Fault(n) == faults + n <= MaxFaults /\ faults' = faults + n

(***************************************************************************)
(* scan_at: the memtable and every table whose range overlaps is a source; *)
(* a table that cannot be opened is a source of one error.                 *)
(***************************************************************************)
Start ==
    /\ sources = <<>>
    /\ \E broken \in SUBSET (DOMAIN tables) :
          LET kept == {i \in DOMAIN tables :
                          i \in broken \/ BlockOverlaps(tables[i], query)}
              stream(i) == IF i \in broken THEN Stream(<<>>, <<>>, <<Err>>)
                                           ELSE TableStream(tables[i])
              order == SetToSortSeq(kept, <)
          IN  /\ Fault(Cardinality(broken))
              /\ sources' = <<MemStream>> \o [j \in DOMAIN order |-> stream(order[j])]
    /\ heads' = [i \in DOMAIN sources' |-> Pending]
    /\ pulling' = 1
    /\ UNCHANGED <<tree, lastKey, out>>

-----------------------------------------------------------------------------
(* BlockStream::next for the source being pulled.                          *)

Current == sources[pulling]

Overlapping(metas) == SelectSeq(metas, LAMBDA m : BlockOverlaps(m, query))

\* The head arrives; MergeIterator::new goes on to the next source.
Fetched(head, rest) ==
    /\ heads' = [heads EXCEPT ![pulling] = head]
    /\ sources' = [sources EXCEPT ![pulling] = rest]
    /\ pulling' = IF \E i \in DOMAIN heads : i > pulling /\ heads[i] = Pending
                  THEN pulling + 1 ELSE 0
    /\ UNCHANGED <<tree, lastKey, out>>

Take ==
    /\ pulling # 0
    /\ Current.entries # <<>>
    /\ Fetched(Head(Current.entries),
               Stream(Current.chunks, Current.metas, Tail(Current.entries)))
    /\ UNCHANGED faults

\* next_block and load_entries: skip what does not overlap, read the next
\* block and keep what is visible of it.
LoadBlock ==
    /\ pulling # 0
    /\ Current.entries = <<>>
    /\ LET todo == Overlapping(Current.metas)
       IN  /\ todo # <<>>
           /\ sources' = [sources EXCEPT ![pulling] =
                 Stream(Current.chunks, Tail(todo),
                        SelectSeq(Head(todo).at, LAMBDA e : Visible(e, query)))]
    /\ UNCHANGED <<tree, heads, pulling, lastKey, out, faults>>

\* next_block at the end of a shard: read the next one that overlaps.
LoadShard ==
    /\ pulling # 0
    /\ Current.entries = <<>>
    /\ Overlapping(Current.metas) = <<>>
    /\ LET todo == Overlapping(Current.chunks)
       IN  /\ todo # <<>>
           /\ sources' = [sources EXCEPT ![pulling] =
                            Stream(Tail(todo), Head(todo).at, <<>>)]
    /\ UNCHANGED <<tree, heads, pulling, lastKey, out, faults>>

\* Either read fails: the stream yields the error and ends.
LoadFails ==
    /\ pulling # 0
    /\ Current.entries = <<>>
    /\ Overlapping(Current.metas) \o Overlapping(Current.chunks) # <<>>
    /\ Fault(1)
    /\ Fetched(Err, Stream(<<>>, <<>>, <<>>))

Drained ==
    /\ pulling # 0
    /\ Current.entries = <<>>
    /\ Overlapping(Current.metas) = <<>>
    /\ Overlapping(Current.chunks) = <<>>
    /\ Fetched(End, Stream(<<>>, <<>>, <<>>))
    /\ UNCHANGED faults

-----------------------------------------------------------------------------
(* MergeIterator::next and VersionResolver::next.                          *)

\* Mutant: errors sort behind entries.
LessErrLast(a, b) == a # Err /\ (b = Err \/ Before(a, b))

\* scan_at's comparison: errors first, then the order of internal keys.
Less(a, b) == b # Err /\ (a = Err \/ Before(a, b))

\* The first source with the smallest head.
Least ==
    CHOOSE i \in DOMAIN heads :
        /\ heads[i] # End
        /\ \A j \in DOMAIN heads :
              heads[j] # End => /\ ~Less(heads[j], heads[i])
                                /\ j < i => Less(heads[i], heads[j])

Failed == out # <<>> /\ Last(out) = Err

\* A pull.  Callers stop at an error.
Pull ==
    /\ pulling = 0 /\ ~Failed
    /\ \E i \in DOMAIN heads : heads[i] # End
    /\ LET item == heads[Least]
       IN  /\ heads' = [heads EXCEPT ![Least] = Pending]
           /\ pulling' = Least
           /\ lastKey' = IF item = Err THEN lastKey ELSE item.key
           /\ out' = IF item = Err THEN Append(out, Err)
                     ELSE IF item.key # lastKey /\ item.op = "put"
                          THEN Append(out, item) ELSE out
    /\ UNCHANGED <<tree, sources, faults>>

Next == Start \/ Take \/ LoadBlock \/ LoadShard \/ LoadFails \/ Drained \/ Pull

Spec == Init /\ [][Next]_vars
-----------------------------------------------------------------------------
(* Properties.                                                             *)

EntriesOf(t) ==
    UNION {ToSet(m.at) : m \in ToSet(t.inline) \cup UNION {ToSet(c.at) : c \in ToSet(t.chunks)}}

NewestIn(entries) == {e \in entries : \A f \in entries : e.key = f.key => f.seq <= e.seq}

\* What the scan should yield: the newest visible version of each key in
\* range, in key order, without the tombstones.
Wanted ==
    LET all == mem \cup UNION {EntriesOf(t) : t \in ToSet(tables)}
        newest == NewestIn({e \in all : Visible(e, query)})
    IN  Sorted({e \in newest : e.op = "put"})

Finished == sources # <<>> /\ pulling = 0 /\ \A i \in DOMAIN heads : heads[i] = End

(***************************************************************************)
(* A scan yields each key in range once, in order, with its newest visible *)
(* version and without deleted keys, whatever blocks, shards and layers    *)
(* hold its versions; if a read fails, what came before the error is right *)
(* as far as it goes: no older version shows because a newer one could not *)
(* be read.                                                                *)
(***************************************************************************)
ScanRight ==
    /\ IsPrefix(IF Failed THEN Front(out) ELSE out, Wanted)
    /\ Finished /\ ~Failed => out = Wanted

(***************************************************************************)
(* At the newest snapshot, the only one Lsm::get uses, SsTable::get finds  *)
(* the newest version of every key, though versions of one key may span    *)
(* blocks and shards and several of their ranges cover it.                 *)
(***************************************************************************)
GetNewest ==
    sources = <<>> =>
        \A t \in ToSet(tables), k \in Keys :
            TableGet(t, k, Writes) = {e \in NewestIn(EntriesOf(t)) : e.key = k}
=============================================================================
