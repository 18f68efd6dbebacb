-------------------------------- MODULE Sql ---------------------------------
(***************************************************************************)
(* A session of crates/strata-db: CREATE SCHEMA, CREATE TABLE, INSERT and  *)
(* SELECT, each from the parsed statement through the binder               *)
(* (planner/binder), the lowering and the executor (query/volcano) to the  *)
(* table's rows (storage/table_api.rs) and back.  A statement's answer is  *)
(* read before the next one is sent.                                       *)
(*                                                                         *)
(* A session follows a script: the definitions it runs first, in order,    *)
(* then any of its inserts (a definition may be among them), up to a       *)
(* number, and any of its queries.                                         *)
(***************************************************************************)
EXTENDS Plans

CONSTANTS Scripts,       \* [ddl: a sequence, inserts, queries: sets, most: a number]
          MaxTextSize    \* MAX_TEXT_SIZE

ASSUME SqlAssumption == MaxTextSize \in Nat \ {0}

VARIABLES
    script,      \* the script of the session
    next,        \* the next definition of the script
    inserts,     \* how many INSERTs were run
    datasets,    \* the paths of the datasets
    db,          \* path -> [schema, store]
    given,       \* path -> the rows INSERTs supplied, as values of the columns (history)
    last         \* the last statement and its answer

vars == <<script, next, inserts, datasets, db, given, last>>

Idle == [kind |-> "Idle", stmt |-> << >>, fail |-> Null, rows |-> << >>]
-----------------------------------------------------------------------------
(* CREATE TABLE.                                                           *)

\* A column with one more of its options taken in.
BindOption(col, opt) ==
    LET default(e) == IF IsFailure(e) THEN [col EXCEPT !.err = e.val]
                      ELSE [col EXCEPT !.field.default = <<e>>]
    IN  IF IsError(col.err) THEN col
        ELSE CASE opt.op = "Null"    -> [col EXCEPT !.field.nullable = TRUE]
               [] opt.op = "NotNull" -> [col EXCEPT !.field.nullable = FALSE]
               [] opt.op = "Default" -> default(Bind(opt.expr[1], NoScope))
               [] opt.op = "Other"   -> [col EXCEPT !.err = Unsupported]

BindColumn(def) ==
    LET ty == BindDataType(def.ty)
    IN  FoldLeft(BindOption,
                 [field |-> [name |-> def.name, ty |-> ty, nullable |-> TRUE, default |-> << >>],
                  err   |-> IF ty = << >> THEN Unsupported ELSE Null],
                 def.options)

\* The schema, or the first error.
BindSchema(defs) ==
    LET of(cols) ==
            LET bad == {i \in DOMAIN cols : IsError(cols[i].err)}
            IN  [fields |-> [i \in DOMAIN cols |-> cols[i].field],
                 err    |-> IF cols = << >> THEN Unsupported
                            ELSE IF bad = {} THEN Null ELSE cols[Min(bad)].err]
    IN  of([i \in DOMAIN defs |-> BindColumn(defs[i])])

\* bind_create_table and the CreateTable of run.
CreateTableError(stmt, schema) ==
    LET path == Qualify(stmt.name)
    IN  IF stmt.rest \/ path = << >> THEN Unsupported
        ELSE IF SubSeq(path, 1, 2) \notin datasets THEN CatalogError
        ELSE IF IsError(schema.err) THEN schema.err
        ELSE IF path \in DOMAIN db /\ ~stmt.orReplace THEN CatalogError
        ELSE Null

With(f, x, y) == [z \in DOMAIN f \union {x} |-> IF z = x THEN y ELSE f[z]]

CreateTable(stmt) ==
    /\ stmt.kind = "CreateTable"
    /\ \E schema \in {BindSchema(stmt.cols)} :
         LET fail == CreateTableError(stmt, schema)
             path == Qualify(stmt.name)
         IN  /\ IF IsError(fail) THEN UNCHANGED <<db, given>>
                ELSE /\ db' = With(db, path, [schema |-> schema.fields, store |-> << >>])
                     /\ given' = With(given, path, << >>)
             /\ last' = [Idle EXCEPT !.kind = stmt.kind, !.stmt = stmt, !.fail = fail]
    /\ UNCHANGED datasets
-----------------------------------------------------------------------------
(* CREATE SCHEMA.                                                          *)

\* dataset_name; << >> for a name of too many parts.
DatasetName(name) ==
    CASE Len(name) = 1 -> <<DefaultPath[1]>> \o name
      [] Len(name) = 2 -> name
      [] OTHER         -> << >>

CreateSchemaError(stmt) ==
    LET path == DatasetName(stmt.name)
    IN  IF stmt.rest \/ path = << >> THEN Unsupported
        ELSE IF path[1] \notin {d[1] : d \in datasets} THEN CatalogError
        ELSE IF path \in datasets /\ ~stmt.ifNotExists THEN CatalogError
        ELSE Null

CreateSchema(stmt) ==
    LET fail == CreateSchemaError(stmt)
    IN  /\ stmt.kind = "CreateSchema"
        /\ datasets' = IF IsError(fail) THEN datasets
                       ELSE datasets \union {DatasetName(stmt.name)}
        /\ last' = [Idle EXCEPT !.kind = stmt.kind, !.stmt = stmt, !.fail = fail]
        /\ UNCHANGED <<db, given>>
-----------------------------------------------------------------------------
(* INSERT.                                                                 *)

\* fit_int.
FitInt(n, t) == IF Fits(n, t) THEN Val(t, <<n>>) ELSE TypeError

\* coerce_value for a type that is no array.
CoerceScalar(x, t) ==
    CASE x.t = t /\ t \notin Ints            -> x
      [] IsInt(x) /\ t \in Ints              -> FitInt(AsI64(x), t)
      [] IsNumber(x) /\ t \in Floats         -> Val(t, Narrow(AsF64(x), t))
      [] IsInt(x) /\ t = "Numeric"           -> Val(t, AsDecimal(x))
      [] OTHER                               -> TypeError

CoerceValue(x, field) ==
    IF IsNull(x) THEN IF field.nullable THEN Null ELSE TypeError
    ELSE IF x.t = "Array" /\ Head(field.ty) = "Array"
    THEN LET els == [i \in DOMAIN x.els |-> CoerceScalar(x.els[i], field.ty[2])]
         IN  IF \E i \in DOMAIN els : IsError(els[i]) THEN TypeError ELSE Array(els)
    ELSE CoerceScalar(x, Head(field.ty))

Coerced(x, field) == IF IsError(x) THEN x ELSE CoerceValue(x, field)

\* The stored DEFAULT is JSON, which has no number for an infinite literal: it is
\* written as null, and cannot be read back.
RECURSIVE Readable(_)
Readable(e) ==
    /\ e.op = "Literal" /\ e.val.t \in Floats => e.val.v[2] < Inf
    /\ \A i \in DOMAIN e.args : Readable(e.args[i])

ResolveDefault(field) ==
    IF field.default = << >> THEN IF field.nullable THEN Null ELSE TypeError
    ELSE IF ~Readable(field.default[1]) THEN InternalError
    ELSE Coerced(Eval(field.default[1], << >>), field)

\* resolve_target_columns: the positions of the named columns, all of them if
\* none is named; an unknown or repeated name is an error.
TargetColumns(cols, schema) ==
    LET at(name) == {i \in DOMAIN schema : schema[i].name = name[1]}
        bad      == {i \in DOMAIN cols : \/ Len(cols[i]) # 1
                                         \/ at(cols[i]) = {}
                                         \/ \E j \in 1 .. i - 1 : cols[j] = cols[i]}
    IN  [pos |-> IF cols = << >> THEN [i \in DOMAIN schema |-> i]
                 ELSE [i \in DOMAIN cols |-> Min(at(cols[i]) \union {Len(schema) + 1})],
         err |-> IF bad = {} THEN Null
                 ELSE IF Len(cols[Min(bad)]) # 1 THEN Unsupported ELSE TypeError]

\* A row of VALUES to a row of the table: the value for every column, or an error.
BindRow(exprs, pos, schema) ==
    LET slots(i) == {j \in DOMAIN exprs : pos[j] = i}
    IN  IF Len(exprs) > Len(pos) THEN <<TypeError>>
        ELSE [i \in DOMAIN schema |->
                 IF slots(i) = {} THEN ResolveDefault(schema[i])
                 ELSE Coerced(ConstEval(exprs[CHOOSE j \in slots(i) : TRUE]), schema[i])]

InsertNode(path, rows) ==
    LET all == FlattenSeq(rows)
    IN  IF \E i \in DOMAIN all : IsError(all[i]) THEN PlanFailure(FirstError(all))
        ELSE [PlanNode("Insert", <<[PlanNode("Values", << >>) EXCEPT !.rows = rows]>>) EXCEPT
                 !.table = path]

\* bind_insert: the rows, or an Insert plan's error.
BindInsert(stmt) ==
    LET path   == Qualify(stmt.name)
        schema == db[path].schema
        target == TargetColumns(stmt.cols, schema)
    IN  IF path \notin DOMAIN db THEN PlanFailure(Missing(path))
        ELSE IF IsError(target.err) THEN PlanFailure(target.err)
        ELSE IF stmt.rest THEN PlanFailure(Unsupported)
        ELSE InsertNode(path, [i \in DOMAIN stmt.rows |->
                                  BindRow(stmt.rows[i], target.pos, schema)])

\* check_value_size.
TooLarge(x) ==
    \/ x.t = "Text" /\ Len(Utf8(x.v)) > MaxTextSize
    \/ x.t = "Bytes" /\ Len(x.v) > MaxTextSize
    \/ x.t = "Array" /\ EncodedSize(x) > MaxTextSize

PutError(row) ==
    IF \E i \in DOMAIN row : TooLarge(row[i]) THEN Unsupported
    ELSE IF EncodeKey(row[1]) = NullKey THEN CodecError
    ELSE Null

\* sink::insert: the rows are put one by one, up to the first that fails.
Put(rows) ==
    LET upto(errs) ==
            LET bad == {i \in DOMAIN errs : IsError(errs[i])}
            IN  IF bad = {} THEN [count |-> Len(errs), fail |-> Null]
                ELSE [count |-> Min(bad) - 1, fail |-> errs[Min(bad)]]
    IN  upto([i \in DOMAIN rows |-> PutError(rows[i])])

Stored(table, rows) ==
    FoldLeft(LAMBDA store, row : With(store, EncodeKey(row[1]), EncodeRow(table.schema, row)),
             table.store, rows)

\* What a row of VALUES supplies for a column: the value of its expression, else of
\* the column's DEFAULT (history).
Supplied(stmt, exprs, i, schema) ==
    LET j == {k \in DOMAIN exprs : IF stmt.cols = << >> THEN k = i
                                   ELSE stmt.cols[k] = <<schema[i].name>>}
    IN  IF j # {} THEN ConstEval(exprs[Min(j)])
        ELSE IF schema[i].default # << >> THEN Eval(schema[i].default[1], << >>)
        ELSE Null

SuppliedRows(stmt, n, schema) ==
    [r \in 1 .. n |-> [i \in DOMAIN schema |-> Supplied(stmt, stmt.rows[r], i, schema)]]

Insert(stmt) ==
    /\ stmt.kind = "Insert"
    /\ \E plan \in {BindInsert(stmt)} :
         IF PlanFailed(plan)
         THEN /\ last' = [Idle EXCEPT !.kind = "Insert", !.stmt = stmt, !.fail = plan.error]
              /\ UNCHANGED <<db, given>>
         ELSE \E put \in {Put(plan.inputs[1].rows)} :
                LET path == plan.table
                    rows == SubSeq(plan.inputs[1].rows, 1, put.count)
                IN  /\ db' = [db EXCEPT ![path].store = Stored(db[path], rows)]
                    /\ given' = [given EXCEPT ![path] =
                                    @ \o SuppliedRows(stmt, put.count, db[path].schema)]
                    /\ last' = [Idle EXCEPT !.kind = "Insert", !.stmt = stmt, !.fail = put.fail]
    /\ UNCHANGED datasets
-----------------------------------------------------------------------------
Select(q) ==
    /\ \E answer \in {RunQuery(q, db)} :
         last' = [Idle EXCEPT !.kind = "Select", !.stmt = q, !.fail = answer.fail,
                              !.rows = Rows(answer.items)]
    /\ UNCHANGED <<datasets, db, given>>

\* The rest of the language is refused by the binder.
OtherStatement(stmt) ==
    /\ stmt.kind = "Other"
    /\ last' = [Idle EXCEPT !.kind = stmt.kind, !.stmt = stmt, !.fail = Unsupported]
    /\ UNCHANGED <<datasets, db, given>>
-----------------------------------------------------------------------------
Init ==
    /\ script \in Scripts
    /\ next = 1
    /\ inserts = 0
    /\ datasets = {DefaultPath}
    /\ db = << >>
    /\ given = << >>
    /\ last = Idle

Change(stmt) == CreateTable(stmt) \/ CreateSchema(stmt) \/ Insert(stmt) \/ OtherStatement(stmt)

Defined == next > Len(script.ddl)

Define ==
    /\ last = Idle /\ ~Defined
    /\ next' = next + 1
    /\ Change(script.ddl[next])
    /\ UNCHANGED <<script, inserts>>

Fill ==
    /\ last = Idle /\ Defined
    /\ inserts < script.most
    /\ inserts' = inserts + 1
    /\ \E stmt \in script.inserts : Change(stmt)
    /\ UNCHANGED <<script, next>>

Ask ==
    /\ last = Idle /\ Defined
    /\ \E q \in script.queries : Select(q)
    /\ UNCHANGED <<script, next, inserts>>

\* The answer is read.
Read ==
    /\ last # Idle
    /\ last' = Idle
    /\ UNCHANGED <<script, next, inserts, datasets, db, given>>

Next == Define \/ Fill \/ Ask \/ Read

Spec == Init /\ [][Next]_vars
=============================================================================
