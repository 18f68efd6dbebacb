----------------------------- MODULE GraceJoin -----------------------------
(***************************************************************************)
(* The grace hash join (query/volcano/join/grace.rs): both inputs are      *)
(* partitioned into workspaces, then each pair of buckets is built and     *)
(* probed, a bucket too large to build being partitioned again with        *)
(* another seed.                                                           *)
(*                                                                         *)
(* The hash is any function from keys to buckets, chosen anew with every   *)
(* seed.  Pairs of one level hold different keys, so a function chosen for *)
(* one pair says nothing about another and the choice may be made when a   *)
(* pair is partitioned.  A row takes one unit of the build budget and one  *)
(* slot of a page.  A page that cannot be loaded is lost without an error. *)
(***************************************************************************)
EXTENDS Workspace, Joins

CONSTANTS
    Keys,           \* the keys that are not NULL: byte sequences
    Partitions,     \* hash_partitions
    MaxLeft,        \* bound on the rows of the left input
    MaxRight,       \* bound on the rows of the right input
    Budget,         \* build_budget
    MaxLevels,      \* MAX_REPARTITION_LEVELS
    MaxLost         \* bound on the pages that cannot be loaded

VARIABLES
    joinType,
    seed,       \* the bucket of each key in the first partitioning pass
    rows,       \* the rows pulled from each input so far
    parts,      \* the buckets of each side while the inputs are partitioned
    nulls,      \* the rows of each side whose key is NULL
    worklist,   \* the pairs still to be joined, with their level
    probe,      \* the table being probed, the rows of it that matched, the cursor
    out,        \* the rows the stream returned
    phase,
    lost        \* pages that could not be loaded

vars == <<joinType, seed, rows, parts, nulls, worklist, probe, out, phase, lost>>

Sides == {"left", "right"}
Buckets == 1 .. Partitions
Limit == [left |-> MaxLeft, right |-> MaxRight]

NoProbe == [table |-> <<>>, matched |-> {}, cursor |-> <<>>, buildIsLeft |-> TRUE, level |-> 0]

Init ==
    /\ joinType \in JoinTypes
    /\ seed \in [Keys -> Buckets]
    /\ rows = [s \in Sides |-> <<>>]
    /\ parts = [s \in Sides |-> [b \in Buckets |-> EmptyWorkspace]]
    /\ nulls = [s \in Sides |-> <<>>]
    /\ worklist = <<>>
    /\ probe = NoProbe
    /\ out = <<>>
    /\ phase = "left"
    /\ lost = 0

(***************************************************************************)
(* Phase 1: partition_input, the left input first.                         *)
(***************************************************************************)
\* A row comes in and goes to the NULL rows or to its bucket; a full bucket
\* fails the query.
PartitionRow(side, key) ==
    /\ phase = side
    /\ Len(rows[side]) < Limit[side]
    /\ LET row == [id |-> Len(rows[side]) + 1, key |-> key]
       IN  /\ rows' = [rows EXCEPT ![side] = Append(@, row)]
           /\ IF key = NULL
              THEN /\ nulls' = [nulls EXCEPT ![side] = Append(@, row)]
                   /\ UNCHANGED <<parts, phase>>
              ELSE /\ parts' = [parts EXCEPT ![side][seed[key]] = AfterAppend(@, row)]
                   /\ phase' = IF AppendFull(parts[side][seed[key]], row)
                               THEN "failed" ELSE phase
                   /\ UNCHANGED nulls
    /\ UNCHANGED <<joinType, seed, worklist, probe, out, lost>>

\* The input, or the append of its row to a bucket, returns an error.
PartitionFails(side) ==
    /\ phase = side
    /\ phase' = "failed"
    /\ UNCHANGED <<joinType, seed, rows, parts, nulls, worklist, probe, out, lost>>

\* The left input is exhausted.
LeftEnds ==
    /\ phase = "left"
    /\ phase' = "right"
    /\ UNCHANGED <<joinType, seed, rows, parts, nulls, worklist, probe, out, lost>>

\* Pairs of workspaces of the two sides, bucket by bucket.
Pairs(leftParts, rightParts, level) ==
    [b \in Buckets |-> [left |-> leftParts[b], right |-> rightParts[b], level |-> level]]

\* Both inputs are partitioned: bucket i of the left meets bucket i of the right.
RightEnds ==
    /\ phase = "right"
    /\ worklist' = Pairs(parts["left"], parts["right"], 0)
    /\ parts' = [s \in Sides |-> [b \in Buckets |-> EmptyWorkspace]]
    /\ phase' = "pairs"
    /\ UNCHANGED <<joinType, seed, rows, nulls, probe, out, lost>>

(***************************************************************************)
(* Phase 2: GraceHashStream::next.                                         *)
(***************************************************************************)
\* Spill rows one after the other into fresh buckets.
Spill(tuples, hash) ==
    [b \in Buckets |->
        FoldLeft(AfterAppend, EmptyWorkspace,
                 SelectSeq(tuples, LAMBDA row : hash[row.key] = b))]

\* Mutant: the right side is hashed with the first seed.
RepartitionOldSeed(left, right, hash, level) ==
    Pairs(Spill(left, hash), Spill(right, seed), level)

\* Mutant: the pairs keep the level of the pair they come from.
RepartitionSameLevel(left, right, hash, level) ==
    Pairs(Spill(left, hash), Spill(right, hash), level - 1)

\* repartition of both sides of a pair with a fresh seed.
Repartition(left, right, hash, level) ==
    Pairs(Spill(left, hash), Spill(right, hash), level)

\* build_table gives up: the rows outgrow the budget and levels are left.
Overflows(build, level) == level < MaxLevels /\ Len(build) > Budget

\* build_next_pair: the smaller side is read into a table; if it outgrows the
\* budget and levels are left, both sides are partitioned again instead.
NextPair(bad, hash) ==
    /\ phase = "pairs"
    /\ worklist # <<>>
    /\ lost' = lost + Cardinality(bad.left) + Cardinality(bad.right)
    /\ lost' <= MaxLost
    /\ LET pair  == Last(worklist)
           rest  == Front(worklist)
           left  == Tuples(pair.left, bad.left)
           right == Tuples(pair.right, bad.right)
           buildIsLeft == Used(pair.left) <= Used(pair.right)
           build == IF buildIsLeft THEN left ELSE right
       IN  /\ bad.left \subseteq ToSet(pair.left.listed)
           /\ bad.right \subseteq ToSet(pair.right.listed)
           /\ IF Overflows(build, pair.level)
              THEN /\ worklist' = rest \o Repartition(left, right, hash, pair.level + 1)
                   /\ UNCHANGED <<probe, phase>>
              ELSE /\ worklist' = rest
                   /\ probe' = [table |-> build, matched |-> {},
                                cursor |-> IF buildIsLeft THEN right ELSE left,
                                buildIsLeft |-> buildIsLeft, level |-> pair.level]
                   /\ phase' = "probe"
    /\ UNCHANGED <<joinType, seed, rows, parts, nulls, out>>

\* An error while a pair is built or partitioned again ends the stream.
PairFails ==
    /\ phase = "pairs"
    /\ worklist # <<>>
    /\ phase' = "failed"
    /\ UNCHANGED <<joinType, seed, rows, parts, nulls, worklist, probe, out, lost>>

\* The probe row with build rows, in the order left, right.
Combine(entries, row) ==
    [i \in DOMAIN entries |->
        IF probe.buildIsLeft THEN <<entries[i], row>> ELSE <<row, entries[i]>>]

\* A row of the side padded for the other one.
Padded(row, isLeft) == IF isLeft THEN <<row, NoRow>> ELSE <<NoRow, row>>

Keeps(isLeft) == IF isLeft THEN KeepsLeft(joinType) ELSE KeepsRight(joinType)

\* Mutant: the build rows are not marked as matched.
ProbeOneForgets ==
    /\ phase = "probe"
    /\ probe.cursor # <<>>
    /\ LET row == Head(probe.cursor)
           entries == SelectSeq(probe.table, LAMBDA entry : entry.key = row.key)
       IN  /\ probe' = [probe EXCEPT !.cursor = Tail(@)]
           /\ out' = out \o Combine(entries, row)
                         \o (IF entries = <<>> /\ Keeps(~probe.buildIsLeft)
                             THEN <<Padded(row, ~probe.buildIsLeft)>> ELSE <<>>)
    /\ UNCHANGED <<joinType, seed, rows, parts, nulls, worklist, phase, lost>>

\* probe_one: the rows the table has for the key, or the row itself if its side
\* is kept.
ProbeOne ==
    /\ phase = "probe"
    /\ probe.cursor # <<>>
    /\ LET row == Head(probe.cursor)
           entries == SelectSeq(probe.table, LAMBDA entry : entry.key = row.key)
       IN  /\ probe' = [probe EXCEPT !.cursor = Tail(@), !.matched = @ \union ToSet(entries)]
           /\ out' = out \o Combine(entries, row)
                         \o (IF entries = <<>> /\ Keeps(~probe.buildIsLeft)
                             THEN <<Padded(row, ~probe.buildIsLeft)>> ELSE <<>>)
    /\ UNCHANGED <<joinType, seed, rows, parts, nulls, worklist, phase, lost>>

\* A tuple of the probe side does not decode: the error ends the stream.
ProbeFails ==
    /\ phase = "probe"
    /\ probe.cursor # <<>>
    /\ phase' = "failed"
    /\ UNCHANGED <<joinType, seed, rows, parts, nulls, worklist, probe, out, lost>>

\* unmatched_build_tail: the build rows nothing matched, if their side is kept.
ProbeEnds ==
    /\ phase = "probe"
    /\ probe.cursor = <<>>
    /\ LET tail == SelectSeq(probe.table, LAMBDA entry : entry \notin probe.matched)
       IN  out' = out \o (IF Keeps(probe.buildIsLeft)
                          THEN [i \in DOMAIN tail |-> Padded(tail[i], probe.buildIsLeft)]
                          ELSE <<>>)
    /\ probe' = NoProbe
    /\ phase' = "pairs"
    /\ UNCHANGED <<joinType, seed, rows, parts, nulls, worklist, lost>>

\* No pair is left: the rows with NULL keys of the sides that are kept.
EmitNulls ==
    /\ phase = "pairs"
    /\ worklist = <<>>
    /\ out' = out \o (IF KeepsLeft(joinType) THEN PadRight(nulls["left"]) ELSE <<>>)
                  \o (IF KeepsRight(joinType) THEN PadLeft(nulls["right"]) ELSE <<>>)
    /\ phase' = "done"
    /\ UNCHANGED <<joinType, seed, rows, parts, nulls, worklist, probe, lost>>

Next ==
    \/ \E side \in Sides : \/ \E key \in Keys \union {NULL} : PartitionRow(side, key)
                           \/ PartitionFails(side)
    \/ LeftEnds
    \/ RightEnds
    \/ \E bad \in [Sides -> SUBSET (1 .. MaxPages)], hash \in [Keys -> Buckets] :
          NextPair(bad, hash)
    \/ PairFails
    \/ ProbeOne
    \/ ProbeFails
    \/ ProbeEnds
    \/ EmitNulls

Spec == Init /\ [][Next]_vars

\* The steps the join takes when nothing fails.
Advance ==
    \/ LeftEnds
    \/ RightEnds
    \/ \E hash \in [Keys -> Buckets] : NextPair([s \in Sides |-> {}], hash)
    \/ ProbeOne
    \/ ProbeEnds
    \/ EmitNulls

\* The inputs are finite and the consumer keeps pulling.
FairSpec == Spec /\ WF_vars(Advance)

(***************************************************************************)
(* Properties.                                                             *)
(***************************************************************************)
\* The keys a pair of buckets holds on either side.
KeysOf(pair) ==
    {row.key : row \in ToSet(Tuples(pair.left, {})) \union ToSet(Tuples(pair.right, {}))}

\* All rows with one key are in one pair: no two pairs of the worklist, and not
\* the pair being probed and one of the worklist, hold the same key, however
\* often buckets were partitioned again.  (Equal join keys always route to the
\* same bucket.)
KeysTogether ==
    /\ \A i, j \in DOMAIN worklist :
          i # j => KeysOf(worklist[i]) \intersect KeysOf(worklist[j]) = {}
    /\ \A i \in DOMAIN worklist :
          {row.key : row \in ToSet(probe.table \o probe.cursor)}
             \intersect KeysOf(worklist[i]) = {}

\* At every point of the stream no row was returned twice, a pair returned is one
\* of the inner join, and a padded row is an input row of a side that is kept,
\* even when pages were lost.  A stream that ended without an error and without a
\* lost page returned the join of its inputs, for every join type.  (With a lost
\* page a row may be padded although it has a match: the page is passed over
\* without an error.)
JoinRight ==
    /\ IsInjective(out)
    /\ \A p \in ToSet(out) :
          \/ p \in JoinOf(rows["left"], rows["right"], "Inner")
          \/ p[2] = NoRow /\ KeepsLeft(joinType) /\ p[1] \in ToSet(rows["left"])
          \/ p[1] = NoRow /\ KeepsRight(joinType) /\ p[2] \in ToSet(rows["right"])
    /\ phase = "done" /\ lost = 0 => Returns(out, rows["left"], rows["right"], joinType)

\* The last key that is not NULL is matched, and NULLs follow it: the merge
\* compares the first of them with the group it ends.
NullBehindMatch(inputs) ==
    \E s \in Sides :
        /\ \E x \in ToSet(inputs[s]) : x.key = NULL
        /\ \E l \in ToSet(inputs["left"]), r \in ToSet(inputs["right"]) :
              /\ Matches(l, r)
              /\ \A x \in ToSet(inputs[s]) : x.key # NULL => ~LexLess(l.key, x.key)

\* On the inputs of every execution the nested loops return the join, for every
\* type; the block nested loop fails instead exactly when its inner rows exceed
\* its workspace.  The sort-merge join with its sorts returns the inner join, and
\* fails instead exactly when a NULL key is behind the last key, and that matches.
StrategiesAgree ==
    phase = "right" =>
        LET left   == rows["left"]
            right  == rows["right"]
            merged == SortMerge(left, right)
        IN  /\ Returns(NestedLoop(left, right, joinType), left, right, joinType)
            /\ \A capacity \in 1 .. MaxRight :
                  LET joined == BlockNestedLoop(left, right, joinType, capacity)
                  IN  IF Len(right) > capacity * PerPage THEN joined.failed
                      ELSE ~joined.failed /\ Returns(joined.out, left, right, joinType)
            /\ merged.failed <=> NullBehindMatch(rows)
            /\ ~merged.failed => Returns(merged.out, left, right, "Inner")

\* The sort-merge join returns the inner join of every pair of inputs: "NULL keys
\* never match (SQL semantics) and are skipped" (join/merge.rs).
NullKeysSkipped ==
    phase = "right" =>
        LET merged == SortMerge(rows["left"], rows["right"])
        IN  ~merged.failed /\ Returns(merged.out, rows["left"], rows["right"], "Inner")

\* No key of the rows is a proper prefix of another, as with types of a fixed
\* width.
PrefixFree(s) ==
    \A x, y \in ToSet(s) :
        x.key # NULL /\ y.key # NULL /\ x.key # y.key => ~IsPrefix(x.key, y.key)

\* The rows of a side that are on no bad page of the runs a sort makes of them.
Loaded(input, ascending, nullsFirst, bad) ==
    LET batches == Blocks(input, RunTuples)
    IN  UNION {ToSet(Tuples(FlushRun(batches[b], ascending, nullsFirst), bad[b])) :
                 b \in DOMAIN batches}

\* The rows with their keys brought to one width, as keys of a type of fixed
\* width are: none is a proper prefix of another.
FixedWidth(s) ==
    LET width == Max({Len(key) : key \in Keys})
        Wide(key) == [i \in 1 .. width |-> IF i \in DOMAIN key THEN key[i] ELSE 0]
    IN  [i \in DOMAIN s |-> IF s[i].key = NULL THEN s[i]
                            ELSE [s[i] EXCEPT !.key = Wide(@)]]

\* The external sort returns its input in the order asked for, whatever the
\* number of runs, and equal keys in the order of the input; descending order of
\* keys one of which is a prefix of another is left out.  Of pages that cannot be
\* loaded exactly the rows are missing, without an error, and the others are in
\* order all the same.
SortRight ==
    phase = "right" /\ rows["right"] = <<>> =>
        \A input \in {rows["left"], FixedWidth(rows["left"])},
           ascending, nullsFirst \in BOOLEAN,
           bad \in [DOMAIN Blocks(rows["left"], RunTuples) -> {{}, {1}, {MaxPages}}] :
            LET loaded == Loaded(input, ascending, nullsFirst, bad)
                kept   == SelectSeq(input, LAMBDA row : row \in loaded)
                sorted == Sort(input, ascending, nullsFirst, {}, bad).out
            IN  ascending \/ PrefixFree(input) =>
                /\ OrderedAs(sorted, kept, ascending, nullsFirst)
                /\ \A i, j \in DOMAIN sorted :
                      i < j /\ sorted[i].key = sorted[j].key => sorted[i].id < sorted[j].id

\* The stream ends: partitioning again stops, even when no seed splits a bucket.
StreamEnds == <>(phase \in {"done", "failed"})

=============================================================================
