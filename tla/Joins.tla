------------------------------- MODULE Joins -------------------------------
(***************************************************************************)
(* What a join and a sort return, and the algorithms of                    *)
(* crates/strata-db/src/query/volcano that compute it in one call: the two *)
(* nested loops, the sort-merge join and the external merge sort.  A row   *)
(* is [id, key]; a key is NULL or a sequence of bytes, the encoding of a   *)
(* value of the one type both join columns have.  An output row is a pair  *)
(* <<l, r>> with NoRow for the side that is padded with NULLs.             *)
(***************************************************************************)
EXTENDS ByteStrings, Workspace, FiniteSets

CONSTANTS
    NULL, NoRow,
    OuterBlock,     \* OUTER_BLOCK_TUPLES
    RunTuples,      \* SORT_RUN_TUPLES
    MaxByte         \* the largest byte

ASSUME JoinsAssumption ==
    /\ OuterBlock \in Nat \ {0}
    /\ RunTuples \in Nat \ {0}
    /\ MaxByte \in Nat

JoinTypes == {"Inner", "Left", "Right", "Full"}
KeepsLeft(type)  == type \in {"Left", "Full"}
KeepsRight(type) == type \in {"Right", "Full"}

\* Equality of join keys: NULL equals nothing.
Matches(l, r) == l.key # NULL /\ l.key = r.key

(***************************************************************************)
(* The reference: what each join type returns, as a set.                   *)
(***************************************************************************)
JoinOf(left, right, type) ==
    LET L == ToSet(left)
        R == ToSet(right)
    IN  {p \in L \X R : Matches(p[1], p[2])}
          \union {<<l, NoRow>> : l \in {x \in L : KeepsLeft(type)
                                          /\ \A r \in R : ~Matches(x, r)}}
          \union {<<NoRow, r>> : r \in {x \in R : KeepsRight(type)
                                          /\ \A l \in L : ~Matches(l, x)}}

\* Rows returned are exactly the reference, none of them twice.
Returns(out, left, right, type) ==
    /\ ToSet(out) = JoinOf(left, right, type)
    /\ IsInjective(out)

PadRight(rows) == [i \in DOMAIN rows |-> <<rows[i], NoRow>>]
PadLeft(rows)  == [i \in DOMAIN rows |-> <<NoRow, rows[i]>>]

(***************************************************************************)
(* Nested loops.                                                           *)
(***************************************************************************)
Unmatched(rows, other) ==
    SelectSeq(rows, LAMBDA x : \A y \in ToSet(other) : ~Matches(x, y))

\* nested_loop_join: a pass over the right rows for each left row, the
\* unmatched left row behind its pass, the unmatched right rows at the end.
NestedLoop(left, right, type) ==
    FlattenSeq([i \in DOMAIN left |->
        LET hits == SelectSeq(right, LAMBDA r : Matches(left[i], r))
        IN  [j \in DOMAIN hits |-> <<left[i], hits[j]>>]
              \o (IF hits = <<>> /\ KeepsLeft(type) THEN <<<<left[i], NoRow>>>> ELSE <<>>)])
    \o (IF KeepsRight(type) THEN PadLeft(Unmatched(right, left)) ELSE <<>>)

\* The consecutive blocks of at most n rows.
Blocks(rows, n) ==
    [b \in 1 .. (Len(rows) + n - 1) \div n |->
        SubSeq(rows, (b - 1) * n + 1, IF b * n < Len(rows) THEN b * n ELSE Len(rows))]

\* The inner rows as block_nested_loop_join materializes them.
Materialize(rows, capacity) ==
    FoldLeft(LAMBDA ws, row : MemoryAppend(ws, row, capacity), EmptyMemory, rows)

\* block_nested_loop_join: one pass over the inner rows for each outer block.  It
\* fails if the inner rows do not fit the workspace.
BlockNestedLoop(left, right, type, capacity) ==
    LET ws     == Materialize(right, capacity)
        inner  == MemoryTuples(ws)
        blocks == Blocks(left, OuterBlock)
        Pass(block) ==
            FlattenSeq([k \in DOMAIN inner |->
                LET hits == SelectSeq(block, LAMBDA l : Matches(l, inner[k]))
                IN  [i \in DOMAIN hits |-> <<hits[i], inner[k]>>]])
            \o (IF KeepsLeft(type) THEN PadRight(Unmatched(block, inner)) ELSE <<>>)
    IN  [failed |-> ws.full,
         out    |-> FlattenSeq([b \in DOMAIN blocks |-> Pass(blocks[b])])
                    \o (IF KeepsRight(type) THEN PadLeft(Unmatched(inner, left)) ELSE <<>>)]

(***************************************************************************)
(* External merge sort.                                                    *)
(***************************************************************************)
\* Mutant: DESC leaves the bytes as they are.
SortKeyNotInverted(row, ascending, nullsFirst) ==
    IF row.key = NULL
    THEN <<IF nullsFirst THEN 0 ELSE 1>>
    ELSE <<IF nullsFirst THEN 1 ELSE 0>> \o row.key

\* sort_key_bytes: a byte that places NULLs, then the encoding, inverted for
\* DESC.
SortKey(row, ascending, nullsFirst) ==
    IF row.key = NULL
    THEN <<IF nullsFirst THEN 0 ELSE 1>>
    ELSE <<IF nullsFirst THEN 1 ELSE 0>>
           \o [i \in DOMAIN row.key |-> IF ascending THEN row.key[i] ELSE MaxByte - row.key[i]]

\* flush_run: the batch in the order of its keys, equal keys as they came, in a
\* workspace of its own.
FlushRun(batch, ascending, nullsFirst) ==
    LET Key(row) == SortKey(row, ascending, nullsFirst)
    IN  FoldLeft(AfterAppend, EmptyWorkspace,
            SetToSortSeq(ToSet(batch),
                LAMBDA x, y : LexLess(Key(x), Key(y)) \/ (Key(x) = Key(y) /\ x.id < y.id)))

\* One turn of the merge: the least head moves to the output, of equal ones that
\* of the first run.
PopLeast(state, ascending, nullsFirst) ==
    LET open == {r \in DOMAIN state.runs : state.runs[r] # <<>>}
        key(r) == SortKey(state.runs[r][1], ascending, nullsFirst)
        least == CHOOSE r \in open : \A q \in open \ {r} :
                    \/ LexLess(key(r), key(q))
                    \/ key(r) = key(q) /\ r < q
    IN  [runs |-> [state.runs EXCEPT ![least] = Tail(@)],
         out  |-> Append(state.out, state.runs[least][1])]

\* sort: runs of RunTuples rows, merged through a heap.  It fails if a run cannot
\* take a row; `refused` are the ids of the rows whose append returns an error.
\* The pages of run r that cannot be loaded, bad[r], are passed over.
Sort(rows, ascending, nullsFirst, refused, bad) ==
    LET batches == Blocks(rows, RunTuples)
        runs    == [b \in DOMAIN batches |-> FlushRun(batches[b], ascending, nullsFirst)]
        cursors == [b \in DOMAIN runs |-> Tuples(runs[b], bad[b])]
        merged[n \in 0 .. Len(FlattenSeq(cursors))] ==
            IF n = 0 THEN [runs |-> cursors, out |-> <<>>]
            ELSE PopLeast(merged[n - 1], ascending, nullsFirst)
    IN  [failed |-> \E i \in DOMAIN rows : rows[i].id \in refused,
         out    |-> merged[Len(FlattenSeq(cursors))].out]

\* The rows sorted when every append and every load succeeds.
Sorted(rows, ascending, nullsFirst) ==
    Sort(rows, ascending, nullsFirst, {}, [b \in DOMAIN Blocks(rows, RunTuples) |-> {}]).out

\* What ORDER BY promises of two rows, the first before the second.
InOrder(x, y, ascending, nullsFirst) ==
    CASE x.key = NULL -> nullsFirst \/ y.key = NULL
      [] x.key # NULL /\ y.key = NULL -> ~nullsFirst
      [] OTHER -> IF ascending THEN ~LexLess(y.key, x.key) ELSE ~LexLess(x.key, y.key)

\* sorted is rows in the order asked for.
OrderedAs(sorted, rows, ascending, nullsFirst) ==
    /\ Len(sorted) = Len(rows)
    /\ ToSet(sorted) = ToSet(rows)
    /\ \A i, j \in DOMAIN sorted :
          i < j => InOrder(sorted[i], sorted[j], ascending, nullsFirst)

(***************************************************************************)
(* Sort-merge join.                                                        *)
(***************************************************************************)
\* Mutant: a group is a single row.
GroupEndNext(rows, i) == i + 1

\* One past the group of rows from position i that have the key of row i.
GroupEnd(rows, i) ==
    CHOOSE e \in i + 1 .. Len(rows) + 1 :
        /\ \A k \in i .. e - 1 : rows[k].key = rows[i].key
        /\ e <= Len(rows) => rows[e].key # rows[i].key

\* The row that ends a group is compared with it, and cmp_values refuses a NULL.
EndsAtNull(rows, end) == end <= Len(rows) /\ rows[end].key = NULL

\* One turn of the merge loop of sort_merge_join.
MergeTurn(state, left, right) ==
    LET i == state.i
        j == state.j
        leftEnd  == GroupEnd(left, i)
        rightEnd == GroupEnd(right, j)
        group    == SubSeq(right, j, rightEnd - 1)
    IN  IF state.failed \/ i > Len(left) \/ j > Len(right) THEN state
        ELSE IF left[i].key = NULL THEN [state EXCEPT !.i = @ + 1]
        ELSE IF right[j].key = NULL THEN [state EXCEPT !.j = @ + 1]
        ELSE IF LexLess(left[i].key, right[j].key) THEN [state EXCEPT !.i = @ + 1]
        ELSE IF LexLess(right[j].key, left[i].key) THEN [state EXCEPT !.j = @ + 1]
        ELSE [i      |-> leftEnd,
              j      |-> rightEnd,
              failed |-> EndsAtNull(left, leftEnd) \/ EndsAtNull(right, rightEnd),
              out    |-> state.out \o FlattenSeq([k \in 1 .. leftEnd - i |->
                            [m \in DOMAIN group |-> <<left[i + k - 1], group[m]>>]])]

\* The inner equi-join as the planner lowers it: each input behind a sort on its
\* key, ascending and NULLs last, then one merge pass.
SortMerge(leftRows, rightRows) ==
    LET left  == Sorted(leftRows, TRUE, FALSE)
        right == Sorted(rightRows, TRUE, FALSE)
        turns[n \in 0 .. Len(left) + Len(right)] ==
            IF n = 0 THEN [i |-> 1, j |-> 1, failed |-> FALSE, out |-> <<>>]
            ELSE MergeTurn(turns[n - 1], left, right)
    IN  turns[Len(left) + Len(right)]

=============================================================================
