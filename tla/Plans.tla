------------------------------- MODULE Plans --------------------------------
(***************************************************************************)
(* A SELECT from the parsed query to its rows: the query binder            *)
(* (planner/binder/query.rs), the lowering to a physical plan              *)
(* (planner/lower.rs) and the pull-based executor (query/volcano).         *)
(*                                                                         *)
(* A plan node is a record: op, its variant; inputs, its input nodes; and  *)
(* what the variants carry (exprs is a predicate, an ON or a projection).  *)
(* A database maps a path to a table: its schema, and its store, a         *)
(* function from encoded keys to encoded rows.                             *)
(***************************************************************************)
EXTENDS Binder, Codec

CONSTANT OuterBlock          \* OUTER_BLOCK_TUPLES

ASSUME PlansAssumption == OuterBlock \in Nat \ {0}

PlanNode(op, inputs) ==
    [op |-> op, inputs |-> inputs, table |-> << >>, exprs |-> << >>, count |-> 0,
     keys |-> << >>, schema |-> << >>, rows |-> << >>, join |-> "", strategy |-> "",
     error |-> Null]

PlanFailure(error) == [PlanNode("Failure", << >>) EXCEPT !.error = error]
PlanFailed(node)   == node.op = "Failure"

\* A node, and the scope of its rows.
Source(node, scope) == [node |-> node, scope |-> scope]

DefaultPath == <<"strata", "public">>

\* qualify_table_name; << >> for a name of too many parts.
Qualify(name) ==
    CASE Len(name) = 1 -> DefaultPath \o name
      [] Len(name) = 2 -> <<DefaultPath[1]>> \o name
      [] Len(name) = 3 -> name
      [] OTHER         -> << >>

\* The error of a name that is no table's: resolve_table's NotFound.
Missing(path) == IF path = << >> THEN Unsupported ELSE CatalogError

(* A relation of a FROM is its name, its alias ("" if none), and, where it *)
(* is joined, the join operator and the ON; an item of a FROM is a         *)
(* relation and those joined to it.                                        *)
BindTableFactor(rel, db) ==
    LET path == Qualify(rel.name)
    IN  IF rel.rest THEN Source(PlanFailure(Unsupported), NoScope)
        ELSE IF path \notin DOMAIN db THEN Source(PlanFailure(Missing(path)), NoScope)
        ELSE Source([PlanNode("Scan", << >>) EXCEPT !.table = path],
                    ForRelation(IF rel.alias = "" THEN Last(rel.name) ELSE rel.alias,
                                db[path].schema))

JoinTypes == {"Inner", "Left", "Right", "Full", "Cross"}

\* The two sources joined; the ON is bound in the scope of both.
BindJoin(left, right, join, ons) ==
    LET scope == ConcatScopes(left.scope, right.scope)
        node(on) == [PlanNode("Join", <<left.node, right.node>>) EXCEPT
                       !.join   = IF join = "Cross" THEN "Inner" ELSE join,
                       !.exprs  = on,
                       !.schema = <<SchemaOf(left.scope), SchemaOf(right.scope)>>]
        joined(on) == IF on # << >> /\ IsFailure(on[1])
                      THEN Source(PlanFailure(on[1].val), NoScope) ELSE Source(node(on), scope)
    IN  IF PlanFailed(left.node) THEN left
        ELSE IF PlanFailed(right.node) THEN right
        ELSE IF join \notin JoinTypes THEN Source(PlanFailure(Unsupported), NoScope)
        ELSE joined([i \in DOMAIN ons |-> Bind(ons[i], scope)])

\* bind_table_with_joins: left-deep.
BindTableWithJoins(item, db) ==
    FoldLeft(LAMBDA left, rel : BindJoin(left, BindTableFactor(rel, db), rel.join, rel.on),
             BindTableFactor(item[1], db), Tail(item))

\* A comma is a cross join; an empty FROM is one row of no columns.
BindFrom(from, db) ==
    IF from = << >>
    THEN Source([PlanNode("Values", << >>) EXCEPT !.rows = <<<< >>>>], EmptyScope)
    ELSE FoldLeft(LAMBDA left, item :
                      BindJoin(left, BindTableWithJoins(item, db), "Cross", << >>),
                  BindTableWithJoins(from[1], db), Tail(from))

\* A slip that puts NULLs last whatever the direction.
BindSortKeyNullsLast(o, scope) ==
    [expr |-> Bind(o.expr, scope), ascending |-> o.dir # "Desc", nullsFirst |-> o.nulls = "First"]

\* The direction and the place of NULLs default as in Postgres.
BindSortKey(o, scope) ==
    LET ascending == o.dir # "Desc"
    IN  [expr |-> Bind(o.expr, scope), ascending |-> ascending,
         nullsFirst |-> IF o.nulls = "" THEN ~ascending ELSE o.nulls = "First"]

\* A projection item: an expression, or * for every column.
BindItem(item, scope) ==
    IF item.op = "Wildcard" THEN [i \in DOMAIN scope.cols |-> Column(i)]
    ELSE <<Bind(item, scope)>>

FirstFailure(exprs) == exprs[Min({i \in DOMAIN exprs : IsFailure(exprs[i])})].val

\* bind_select: the sort is below the projection and sees all columns of FROM.
SelectNode(source, where, keys, items) ==
    LET all    == where \o [i \in DOMAIN keys |-> keys[i].expr] \o items
        filter == IF where = << >> THEN source.node
                  ELSE [PlanNode("Filter", <<source.node>>) EXCEPT !.exprs = where]
        sort   == IF keys = << >> THEN filter
                  ELSE [PlanNode("Sort", <<filter>>) EXCEPT !.keys = keys,
                                                            !.schema = <<SchemaOf(source.scope)>>]
    IN  IF \E i \in DOMAIN all : IsFailure(all[i]) THEN PlanFailure(FirstFailure(all))
        ELSE [PlanNode("Project", <<sort>>) EXCEPT !.exprs = items]

BindClauses(q, source) ==
    IF PlanFailed(source.node) THEN source.node
    ELSE SelectNode(source,
                    [i \in DOMAIN q.where |-> Bind(q.where[i], source.scope)],
                    [i \in DOMAIN q.order |-> BindSortKey(q.order[i], source.scope)],
                    FlattenSeq([i \in DOMAIN q.items |-> BindItem(q.items[i], source.scope)]))

BindSelect(q, db) == BindClauses(q, BindFrom(q.from, db))

\* bind_count: a constant integer that is not negative; << >> if there is none.
BindCount(op, asts, input) ==
    LET node(n) == CASE IsError(n)                -> PlanFailure(n)
                     [] ~IsInt(n) \/ AsI64(n) < 0 -> PlanFailure(TypeError)
                     [] OTHER -> [PlanNode(op, <<input>>) EXCEPT !.count = AsI64(n)]
    IN  IF PlanFailed(input) \/ asts = << >> THEN input ELSE node(ConstEval(asts[1]))

\* The bound query; OFFSET is applied before LIMIT.
BindQuery(q, db) ==
    IF q.rest THEN PlanFailure(Unsupported)
    ELSE BindCount("Limit", q.limit, BindCount("Offset", q.offset, BindSelect(q, db)))
-----------------------------------------------------------------------------
(* Lowering.                                                               *)

\* equi_join_keys: the columns of `col = col` across the two sides, or << >>.
EquiJoinKeys(on, leftArity) ==
    LET a == on[1].args[1].index
        b == on[1].args[2].index
    IN  IF \/ on = << >>
           \/ on[1].op # "Binary" \/ on[1].fn # "Eq"
           \/ \E i \in {1, 2} : on[1].args[i].op # "Column"
        THEN << >>
        ELSE IF a <= leftArity /\ b > leftArity THEN <<a, b - leftArity>>
        ELSE IF b <= leftArity /\ a > leftArity THEN <<b, a - leftArity>>
        ELSE << >>

SortOn(input, column, schema) ==
    [PlanNode("Sort", <<input>>) EXCEPT
        !.keys = <<[expr |-> Column(column), ascending |-> TRUE, nullsFirst |-> FALSE]>>,
        !.schema = <<schema>>]

LowerJoin(node, left, right) ==
    LET keys == EquiJoinKeys(node.exprs, Len(node.schema[1]))
    IN  IF node.join = "Inner" /\ keys # << >>
        THEN [node EXCEPT !.inputs = <<SortOn(left, keys[1], node.schema[1]),
                                       SortOn(right, keys[2], node.schema[2])>>,
                          !.strategy = "SortMerge"]
        ELSE [node EXCEPT !.inputs = <<left, right>>, !.strategy = "BlockNestedLoop"]

RECURSIVE Lower(_)
Lower(node) ==
    LET inputs == [i \in DOMAIN node.inputs |-> Lower(node.inputs[i])]
    IN  CASE node.op = "Scan" -> [node EXCEPT !.op = "SeqScan"]
          [] node.op = "Join" -> LowerJoin(node, inputs[1], inputs[2])
          [] OTHER            -> [node EXCEPT !.inputs = inputs]
-----------------------------------------------------------------------------
(* Execution.  A stream is the rows an operator yields, or the errors in   *)
(* their place; or it cannot be built.  What pulls a stream stops at the   *)
(* first error, so what is behind one is never seen.                       *)

Item(row)       == [err |-> Null, row |-> row]
Part(err, bytes) == [err |-> err, bytes |-> bytes]
ErrItem(err)    == [err |-> err, row |-> << >>]
Stream(items)   == [fail |-> Null, items |-> items]
FailedStream(e) == [fail |-> e, items |-> << >>]

ErrorsIn(items)   == {i \in DOMAIN items : IsError(items[i].err)}
FirstErrorIn(items) == items[Min(ErrorsIn(items))].err

\* An operator that consumes its input when it is built fails with its error.
Eager(items) ==
    IF ErrorsIn(items) # {} THEN FailedStream(FirstErrorIn(items)) ELSE Stream(items)

\* RowStream::collect: the rows, or an error.
Collected(s) ==
    IF IsError(s.fail) THEN s ELSE Eager(s.items)

Rows(items) == [i \in DOMAIN items |-> items[i].row]
Items(rows) == [i \in DOMAIN rows |-> Item(rows[i])]

\* The members of a finite set of byte strings in order.
Ascending(keys) ==
    [i \in 1 .. Cardinality(keys) |->
        CHOOSE k \in keys : Cardinality({j \in keys : LexLess(j, k)}) = i - 1]

\* A row as it comes back from the bytes it was encoded to.
Reread(schema, bytes) ==
    LET item(row) == IF row # << >> /\ IsError(Last(row)) THEN ErrItem(Last(row)) ELSE Item(row)
    IN  item(DecodeRow(schema, bytes))

\* TableScan: the rows in the order of their keys.
Scan(table) ==
    LET in(keys) == [i \in DOMAIN keys |-> table.store[keys[i]]]
        rows(all) == [i \in DOMAIN all |-> Reread(table.schema, all[i])]
    IN  Stream(rows(in(Ascending(DOMAIN table.store))))

\* Rows through their encoding: those of a sort, and the inner rows of a block
\* nested-loop join.
Materialized(items, schema) ==
    [i \in DOMAIN items |-> IF IsError(items[i].err) THEN ErrItem(items[i].err)
                            ELSE Reread(schema, EncodeRow(schema, items[i].row))]

\* Only TRUE lets a row through.
FilterItem(item, predicate) ==
    LET by(x) == IF IsError(x) THEN <<ErrItem(x)>> ELSE IF IsTrue(x) THEN <<item>> ELSE << >>
    IN  IF IsError(item.err) THEN <<item>> ELSE by(Eval(predicate, item.row))

ProjectItem(item, exprs) ==
    LET of(xs) == IF \E i \in DOMAIN xs : IsError(xs[i]) THEN ErrItem(FirstError(xs)) ELSE Item(xs)
    IN  IF IsError(item.err) THEN item ELSE of([i \in DOMAIN exprs |-> Eval(exprs[i], item.row)])

\* An error met while skipping is not skipped.
OffsetItems(items, count) ==
    IF ErrorsIn(items) # {} /\ Min(ErrorsIn(items)) <= count
    THEN <<ErrItem(FirstErrorIn(items))>>
    ELSE SubSeq(items, count + 1, Len(items))

LimitItems(items, count) == SubSeq(items, 1, Min({count, Len(items)}))

\* One part of sort_key_bytes: NULL placement, then the key's bytes, inverted for
\* DESC; or the error.
SortPart(x, key) ==
    LET bytes(k) == IF k = NullKey THEN Part(TypeError, << >>)
                    ELSE Part(Null, <<IF key.nullsFirst THEN 1 ELSE 0>>
                                        \o (IF key.ascending THEN k ELSE Complement(k)))
    IN  IF IsError(x) THEN Part(x, << >>)
        ELSE IF IsNull(x) THEN Part(Null, <<IF key.nullsFirst THEN 0 ELSE 1>>)
        ELSE bytes(EncodeKey(x))

\* sort_key_bytes: an item of the input with the parts of its key, or the first
\* error among them.
SortKeyBytes(item, keys) ==
    LET keyed(parts) == IF ErrorsIn(parts) # {}
                        THEN [err |-> FirstErrorIn(parts), row |-> item.row, key |-> << >>]
                        ELSE [err |-> Null, row |-> item.row,
                              key |-> [i \in DOMAIN parts |-> parts[i].bytes]]
    IN  IF IsError(item.err) THEN [err |-> item.err, row |-> << >>, key |-> << >>]
        ELSE keyed([i \in DOMAIN keys |-> SortPart(Eval(keys[i].expr, item.row), keys[i])])

PartsLess(a, b) ==
    \E i \in DOMAIN a : LexLess(a[i], b[i]) /\ \A j \in 1 .. i - 1 : a[j] = b[j]

\* The keyed items in the order of their keys; those of equal keys keep theirs.
InOrder(keyed) ==
    LET before(i, j) == \/ PartsLess(keyed[i].key, keyed[j].key)
                        \/ keyed[i].key = keyed[j].key /\ i < j
        order == SortSeq([i \in DOMAIN keyed |-> i], before)
    IN  IF ErrorsIn(keyed) # {} THEN <<ErrItem(FirstErrorIn(keyed))>>
        ELSE [i \in DOMAIN keyed |-> keyed[order[i]]]

\* sort: the rows through their encoding, in the order of their keys.
SortItems(items, keys, schema) ==
    Materialized(InOrder([i \in DOMAIN items |-> SortKeyBytes(items[i], keys)]), schema)

Matched(on, l, r) == IF on = << >> THEN Bool(TRUE) ELSE Eval(on[1], l \o r)

Nulls(n) == [i \in 1 .. n |-> Null]

KeepsLeft(join)  == join \in {"Left", "Full"}
KeepsRight(join) == join \in {"Right", "Full"}

\* An outer row, and what the ON says of it with each of the inner ones.
Probe(item, inner, on) ==
    [err |-> item.err, row |-> item.row,
     hits |-> [k \in DOMAIN inner |-> Matched(on, item.row, inner[k])]]

\* One block of outer rows against all inner ones, inner-major.
BlockItems(block, inner, node) ==
    LET pair(l, k) == CASE IsError(l.hits[k]) -> <<ErrItem(l.hits[k])>>
                        [] IsTrue(l.hits[k])  -> <<Item(l.row \o inner[k])>>
                        [] OTHER              -> << >>
        lone(l) == KeepsLeft(node.join) /\ \A k \in DOMAIN inner : ~IsTrue(l.hits[k])
    IN  FlattenSeq([k \in DOMAIN inner |->
            FlattenSeq([i \in DOMAIN block |-> pair(block[i], k)])])
        \o FlattenSeq([i \in DOMAIN block |->
               IF lone(block[i]) THEN <<Item(block[i].row \o Nulls(Len(node.schema[2])))>>
               ELSE << >>])

Blocks(items) ==
    [b \in 1 .. (Len(items) + OuterBlock - 1) \div OuterBlock |->
        SubSeq(items, (b - 1) * OuterBlock + 1, Min({b * OuterBlock, Len(items)}))]

\* block_nested_loop_join over the probed outer rows: an error of the outer side
\* comes up when its block is filled.
JoinBlocks(probed, inner, node) ==
    LET blocks  == Blocks(probed)
        lone(k) == \A i \in DOMAIN probed : ~IsTrue(probed[i].hits[k])
    IN  FlattenSeq([b \in DOMAIN blocks |->
            IF ErrorsIn(blocks[b]) # {} THEN <<ErrItem(FirstErrorIn(blocks[b]))>>
            ELSE BlockItems(blocks[b], inner, node)])
        \o (IF ~KeepsRight(node.join) THEN << >>
             ELSE FlattenSeq([k \in DOMAIN inner |->
                 IF lone(k) THEN <<Item(Nulls(Len(node.schema[1])) \o inner[k])>> ELSE << >>]))

BlockNestedLoop(outer, inner, node) ==
    JoinBlocks([i \in DOMAIN outer |-> Probe(outer[i], inner, node.exprs)], inner, node)

\* One past the group from position i; the row that ends it is compared too.
GroupEnd(rows, i, key) ==
    Min({e \in i .. Len(rows) + 1 :
            e = Len(rows) + 1 \/ CmpValues(rows[e][key], rows[i][key]) # 0})
GroupFails(rows, i, key, end) ==
    end <= Len(rows) /\ CmpValues(rows[end][key], rows[i][key]) = Incomparable

\* sort_merge_join from row i of the left and row j of the right input.
RECURSIVE MergeItems(_, _, _, _, _)
MergeItems(left, right, keys, i, j) ==
    LET l == left[i][keys[1]]
        r == right[j][keys[2]]
        product(p, q) == FlattenSeq([k \in 1 .. p - i |->
                             [m \in 1 .. q - j |-> Item(left[i + k - 1] \o right[j + m - 1])]])
        groups(p, q) == IF GroupFails(left, i, keys[1], p) \/ GroupFails(right, j, keys[2], q)
                        THEN <<ErrItem(TypeError)>>
                        ELSE product(p, q) \o MergeItems(left, right, keys, p, q)
        by(order) == CASE order = Incomparable -> <<ErrItem(TypeError)>>
                       [] order = -1 -> MergeItems(left, right, keys, i + 1, j)
                       [] order = 1  -> MergeItems(left, right, keys, i, j + 1)
                       [] OTHER -> groups(GroupEnd(left, i, keys[1]), GroupEnd(right, j, keys[2]))
    IN  IF i > Len(left) \/ j > Len(right) THEN << >>
        ELSE IF IsNull(l) THEN MergeItems(left, right, keys, i + 1, j)
        ELSE IF IsNull(r) THEN MergeItems(left, right, keys, i, j + 1)
        ELSE by(CmpValues(l, r))

SortMerge(left, right, node) ==
    MergeItems(Rows(left), Rows(right), EquiJoinKeys(node.exprs, Len(node.schema[1])), 1, 1)

\* The two sides built in the order of the strategy, then joined.
Merged(node, l, r) ==
    IF IsError(l.fail) THEN l ELSE IF IsError(r.fail) THEN r
    ELSE Eager(SortMerge(l.items, r.items, node))
Looped(node, l, r) ==
    IF IsError(r.fail) THEN r ELSE IF IsError(l.fail) THEN l
    ELSE Eager(BlockNestedLoop(l.items, Rows(r.items), node))

JoinStream(node, left, right) ==
    IF node.strategy = "SortMerge" THEN Merged(node, Collected(left), Collected(right))
    ELSE Looped(node, left, IF IsError(right.fail) THEN right
                            ELSE Eager(Materialized(right.items, node.schema[2])))

\* An operator over the streams of its inputs.
BuildNode(node, db, inputs) ==
    LET items == inputs[1].items
    IN  IF node.op = "SeqScan" THEN Scan(db[node.table])
        ELSE IF node.op = "Values" THEN Stream(Items(node.rows))
        ELSE IF node.op = "Join" THEN JoinStream(node, inputs[1], inputs[2])
        ELSE IF IsError(inputs[1].fail) THEN inputs[1]
        ELSE CASE node.op = "Filter"  ->
                    Stream(FlattenSeq([i \in DOMAIN items |-> FilterItem(items[i], node.exprs[1])]))
               [] node.op = "Project" ->
                    Stream([i \in DOMAIN items |-> ProjectItem(items[i], node.exprs)])
               [] node.op = "Offset"  -> Stream(OffsetItems(items, node.count))
               [] node.op = "Limit"   -> Stream(LimitItems(items, node.count))
               [] node.op = "Sort"    -> Eager(SortItems(items, node.keys, node.schema[1]))

RECURSIVE Build(_, _)
Build(node, db) ==
    BuildNode(node, db, [i \in DOMAIN node.inputs |-> Build(node.inputs[i], db)])

Execute(plan, db) ==
    IF PlanFailed(plan) THEN FailedStream(plan.error) ELSE Collected(Build(Lower(plan), db))

\* The answer to a query: its rows, or the error.
RunQuery(q, db) == Execute(BindQuery(q, db), db)
=============================================================================
