------------------------------ MODULE Answers -------------------------------
(***************************************************************************)
(* What a session of Sql may rely on: the stored rows against the values   *)
(* that INSERTs supplied, the answer to a query against its relational     *)
(* meaning, and the value of an expression against that of arithmetic,     *)
(* three-valued logic and text.                                            *)
(***************************************************************************)
EXTENDS Sql

TableRows(path) == Rows(Scan(db[path]).items)

(***************************************************************************)
(* Numbers by their amount, an integer in units of the least float.        *)
(***************************************************************************)
Unit == FloatOne

Finite(x) == IsNumber(x) /\ (x.t \in Floats => x.v[2] < Inf)

Amount(x) ==
    CASE IsInt(x)        -> x.v[1] * Unit
      [] x.t = "Numeric" -> x.v[1] * (Unit \div Ten ^ x.v[2])
      [] x.t \in Floats  -> IF x.v[1] = 1 THEN -x.v[2] ELSE x.v[2]

\* Half a place above the largest float of type t and beyond.
BeyondFloats(n, t) == n >= (2 * Format(t).sig - 1) * 2 ^ (Format(t).emax - 1)

\* An assignment keeps the value; a float column takes one next to it, and none
\* beyond its range.
Assigned(x, y, ty) ==
    \/ y = x
    \/ /\ IsNumber(x) /\ <<y.t>> = ty
       /\ CASE ~Finite(x) -> y.v = x.v
            [] ~Finite(y) -> y.v[2] = Inf /\ BeyondFloats(Abs(Amount(x)), y.t)
            [] OTHER      -> \/ Amount(x) = Amount(y)
                             \/ /\ y.t \in Floats
                                /\ Abs(Amount(x) - Amount(y)) <= Abs(Amount(x)) \div Format(y.t).sig
    \/ /\ x.t = "Array" /\ y.t = "Array" /\ Len(x.els) = Len(y.els)
       /\ \A i \in DOMAIN x.els : ValuesEq(x.els[i], y.els[i]) /\ y.els[i].t = ty[2]

\* The key of an array of texts does not tell where an element ends.
ArrayOfTexts(schema) == schema[1].ty \in {<<"Array", "Text">>, <<"Array", "Bytes">>}

\* The rows of a scan are those supplied last for their key.
Kept(all, rows, schema) ==
    LET final == {i \in DOMAIN all : \A j \in i + 1 .. Len(all) : ~ValuesEq(all[i][1], all[j][1])}
        same(x, y) == \A c \in DOMAIN schema : Assigned(x[c], y[c], schema[c].ty)
    IN  /\ Len(rows) = Cardinality(final)
        /\ \A i \in final : \E r \in DOMAIN rows : same(all[i], rows[r])
        /\ \A r \in 2 .. Len(rows) :
              CmpValues(rows[r - 1][1], rows[r][1]) \in {-1, Incomparable}

(***************************************************************************)
(* A table holds, for every primary key supplied, the row supplied last    *)
(* with that key, equal as the comparison operators have it, and its scan  *)
(* returns these rows in the order of the primary key: the row and key     *)
(* codecs, the coercion of an INSERT's values and its DEFAULTs lose        *)
(* nothing and merge no two keys (tables keyed by an array of texts are    *)
(* left out).  A statement that failed while it was bound changed nothing. *)
(***************************************************************************)
RowsKept ==
    \A path \in DOMAIN db :
        ArrayOfTexts(db[path].schema) \/ Kept(given[path], TableRows(path), db[path].schema)
-----------------------------------------------------------------------------
(***************************************************************************)
(* The relational meaning of a query over the rows of its tables; the rows *)
(* of a relation are distinct, they have a primary key.                    *)
(***************************************************************************)
JoinMeaning(L, R, node, arity) ==
    LET with(hits) ==
            {p[1] \o p[2] : p \in hits}
              \union {l \o Nulls(arity[2]) : l \in {l \in L : KeepsLeft(node.join)
                                                       /\ \A r \in R : <<l, r>> \notin hits}}
              \union {Nulls(arity[1]) \o r : r \in {r \in R : KeepsRight(node.join)
                                                       /\ \A l \in L : <<l, r>> \notin hits}}
    IN  with({p \in L \X R : IsTrue(Matched(node.exprs, p[1], p[2]))})

\* A node over the meaning of its inputs.
NodeMeaning(node, ins) ==
    CASE node.op = "Scan"   -> Range(TableRows(node.table))
      [] node.op = "Values" -> Range(node.rows)
      [] node.op = "Join"   -> JoinMeaning(ins[1], ins[2], node,
                                           <<Len(node.schema[1]), Len(node.schema[2])>>)
      [] node.op = "Filter" -> {x \in ins[1] : IsTrue(Eval(node.exprs[1], x))}
      [] node.op \in {"Sort", "Project"} -> ins[1]

RECURSIVE Meaning(_)
Meaning(node) == NodeMeaning(node, [i \in DOMAIN node.inputs |-> Meaning(node.inputs[i])])

\* Some evaluation of a node over its inputs may fail: of an expression on a row
\* it reads, or of a comparison of join keys.
NodeMayFail(node, ins) ==
    LET both  == {p[1] \o p[2] : p \in ins[1] \X ins[2]}
        exprs == IF node.op = "Sort" THEN [i \in DOMAIN node.keys |-> node.keys[i].expr]
                 ELSE node.exprs
        keys  == EquiJoinKeys(node.exprs, Len(node.schema[1]))
    IN  \/ /\ node.op \in {"Filter", "Project", "Sort", "Join"}
           /\ \E x \in IF node.op = "Join" THEN both ELSE ins[1], i \in DOMAIN exprs :
                 IsError(Eval(exprs[i], x))
        \/ /\ node.op = "Join" /\ node.join = "Inner" /\ keys # << >>
           /\ \E l \in ins[1], r \in ins[2] :
                 \/ IsNull(l[keys[1]]) \/ IsNull(r[keys[2]])
                 \/ CmpValues(l[keys[1]], r[keys[2]]) = Incomparable

RECURSIVE MayFail(_)
MayFail(node) ==
    \/ \E i \in DOMAIN node.inputs : MayFail(node.inputs[i])
    \/ NodeMayFail(node, [i \in DOMAIN node.inputs |-> Meaning(node.inputs[i])])

\* A selected row with the values of its sort keys, and as it is shown.
Entry(x, plan, keys) ==
    [row   |-> x,
     key   |-> [k \in DOMAIN keys |-> Eval(keys[k].expr, x)],
     shown |-> [i \in DOMAIN plan.exprs |-> Eval(plan.exprs[i], x)]]

\* x comes before y by the first sort key that tells them apart.
Precedes(x, y, keys) ==
    LET order(k) ==
            LET a == x.key[k]
                b == y.key[k]
            IN  CASE IsNull(a) /\ IsNull(b) -> 0
                  [] IsNull(a) -> IF keys[k].nullsFirst THEN -1 ELSE 1
                  [] IsNull(b) -> IF keys[k].nullsFirst THEN 1 ELSE -1
                  [] OTHER     -> IF keys[k].ascending THEN CmpValues(a, b) ELSE CmpValues(b, a)
    IN  \E k \in DOMAIN keys : order(k) = -1 /\ \A j \in 1 .. k - 1 : order(j) = 0

\* Descending keys of which one is a proper prefix of another: sort_key_bytes puts
\* the prefix first.
PrefixDesc(entries, keys) ==
    \E x, y \in entries, k \in DOMAIN keys :
        LET a == x.key[k]
            b == y.key[k]
        IN  /\ ~keys[k].ascending
            /\ a.t \in {"Text", "Bytes", "Array"}
            /\ a # b /\ (IsPrefix(a.v, b.v) /\ IsPrefix(a.els, b.els))

\* The ORDER BY of a query as it is meant: NULLs last if ascending, first if
\* descending, unless it says otherwise.
MeantKeys(q, scope) ==
    [i \in DOMAIN q.order |->
        [expr       |-> Bind(q.order[i].expr, scope),
         ascending  |-> q.order[i].dir \in {"", "Asc"},
         nullsFirst |-> q.order[i].nulls = "First"
                          \/ (q.order[i].nulls = "" /\ q.order[i].dir = "Desc")]]

\* The counts of an OFFSET and a LIMIT, or what stands for none.
Counts(q, none) ==
    [i \in 1 .. 2 |-> LET c == <<q.offset, q.limit>>[i]
                      IN  IF c = << >> THEN Int64(none[i]) ELSE ConstEval(c[1])]

\* The rows shown are the entries from the OFFSET on, as many as LIMIT says, each
\* at a place it may have.
ShownRight(entries, counts, keys, shown) ==
    LET off  == counts[1].v[1]
        most == Max({0, Min({counts[2].v[1], Cardinality(entries) - off})})
        mayBeAt(x, i) ==
            /\ Cardinality({y \in entries : Precedes(y, x, keys)}) < off + i
            /\ Cardinality({y \in entries : ~Precedes(x, y, keys)}) >= off + i
    IN  /\ Len(shown) = most
        /\ \A i \in DOMAIN shown : \E x \in entries :
              x.shown = shown[i] /\ (PrefixDesc(entries, keys) \/ mayBeAt(x, i))
        /\ \A x \in entries : Cardinality({i \in DOMAIN shown : shown[i] = x.shown})
                                 <= Cardinality({y \in entries : y.shown = x.shown})

PlanRight(q, plan, keys, counts) ==
    IF IsError(last.fail)
    THEN \/ q.rest \/ PlanFailed(plan)
         \/ \E i \in {1, 2} : ~IsInt(counts[i]) \/ counts[i].v[1] < 0
         \/ MayFail(plan)
    ELSE ShownRight({Entry(x, plan, keys) : x \in Meaning(plan)}, counts, keys, last.rows)

(***************************************************************************)
(* An answer without an error is what the query means: the selected rows   *)
(* of the join, the OFFSET of them skipped and as many as LIMIT says, each *)
(* at a place it may have in the order asked for, whichever join strategy  *)
(* the planner chose.  An error is one of the binder, or some evaluation   *)
(* of the query fails.  Two answers of the code are let pass: an inner     *)
(* join on keys of which one is NULL may fail (the merge join's comparison *)
(* of it is an error), and of two DESC sort keys that begin alike the      *)
(* shorter one may come first (the inversion of sort_key_bytes leaves a    *)
(* prefix a prefix).                                                       *)
(***************************************************************************)
AnswerRight ==
    last.kind = "Select" =>
        PlanRight(last.stmt, BindSelect(last.stmt, db),
                  MeantKeys(last.stmt, BindFrom(last.stmt.from, db).scope),
                  Counts(last.stmt, <<0, MaxOf("Int64")>>))
-----------------------------------------------------------------------------
(***************************************************************************)
(* A query of one expression over a table of one row: the expression, the  *)
(* values of its operands, and what came of it.                            *)
(***************************************************************************)
Expr     == last.stmt.items[1]
Relation == BindTableFactor(last.stmt.from[1][1], db)
Scope    == Relation.scope
TheRow   == TableRows(Relation.node.table)[1]
Result   == IF IsError(last.fail) THEN last.fail ELSE last.rows[1][1]
ValueOf(ast) == Eval(Bind(ast, Scope), TheRow)
Operands     == [i \in DOMAIN Expr.args |-> ValueOf(Expr.args[i])]

Probed ==
    /\ last.kind = "Select"
    /\ Len(last.stmt.items) = 1 /\ last.stmt.items[1].op # "Wildcard"
    /\ Len(last.stmt.from) = 1 /\ Len(last.stmt.from[1]) = 1
    /\ last.stmt.where = << >> /\ last.stmt.order = << >> /\ last.stmt.limit = << >>
    /\ ~PlanFailed(Relation.node)
    /\ Cardinality(DOMAIN db[Relation.node.table].store) = 1
    /\ ~IsFailure(Bind(Expr, Scope))

(***************************************************************************)
(* Arithmetic.                                                             *)
(***************************************************************************)
IntRight(fn, a, b, r) ==
    CASE fn \in {"Div", "Mod"} /\ b = 0 -> r = TypeError
      [] fn = "Add" -> r = IF Fits(a + b, "Int64") THEN Int64(a + b) ELSE TypeError
      [] fn = "Sub" -> r = IF Fits(a - b, "Int64") THEN Int64(a - b) ELSE TypeError
      [] fn = "Mul" -> r = IF Fits(a * b, "Int64") THEN Int64(a * b) ELSE TypeError
      [] IsError(r) -> b = -1 /\ ~Fits(-a, "Int64")
      [] fn = "Div" -> /\ Abs(r.v[1] * b) <= Abs(a) /\ Abs(a) < Abs(r.v[1] * b) + Abs(b)
                       /\ r.v[1] # 0 => Signum(r.v[1]) = Signum(a) * Signum(b)
      [] fn = "Mod" -> /\ (a - r.v[1]) % Abs(b) = 0 /\ Abs(r.v[1]) < Abs(b)
                       /\ r.v[1] # 0 => Signum(r.v[1]) = Signum(a)

\* The nearest decimal of as many digits as there are; an error for 0 or beyond
\* the range.
DecimalRight(fn, a, b, r) ==
    LET x     == Amount(a)
        y     == Amount(b)
        z     == Amount(r)
        sum   == IF fn = "Add" THEN x + y ELSE x - y
        least == Unit \div Ten ^ MaxScale
        place == least * Ten ^ Min({k \in 0 .. MaxScale : Abs(z) \div (least * Ten ^ k) <= MaxMantissa})
        range == MaxMantissa * Unit
    IN  IF fn \in {"Div", "Mod"} /\ y = 0 THEN r = TypeError
        ELSE IF IsError(r)
        THEN CASE fn = "Mod" -> FALSE
               [] fn = "Mul" -> Abs(x) >= (range \div Abs(y)) * Unit
               [] fn = "Div" -> Abs(x) \div Abs(y) >= MaxMantissa
               [] OTHER      -> Abs(sum) > range
        ELSE CASE fn \in {"Add", "Sub"} -> 2 * Abs(z - sum) <= place
               [] fn = "Mul" -> y # 0 /\ Abs(x) <= 2 ^ 29 \div Abs(y) =>
                                    2 * Abs(Unit * z - x * y) <= place * Unit
               [] fn = "Div" -> 2 * Abs(z * y - Unit * x) <= place * Abs(y)
               [] fn = "Mod" -> (x - z) % Abs(y) = 0 /\ Abs(z) < Abs(y) /\ z * Signum(x) >= 0

\* r is a Float64 within half a place of n / d, or an infinity beyond them, on
\* the side `negative` says; n >= 0 and d > 0.
NearFloat(r, negative, n, d) ==
    LET off == Abs(r.v[2] * d - n)
    IN  /\ r.v[1] = (IF negative THEN 1 ELSE 0)
        /\ IF BeyondFloats(n \div d, "Float64") THEN r.v[2] = Inf
           ELSE r.v[2] < Inf /\ (off <= n \div Format("Float64").sig \/ 2 * off <= d)

\* Of two finite floats; a product of 2^30 is beyond the floats.
FiniteRight(fn, x, y, r) ==
    LET p       == x.v[2]
        q       == y.v[2]
        exact   == IF fn = "Add" THEN Amount(x) + Amount(y) ELSE Amount(x) - Amount(y)
        differ  == x.v[1] # y.v[1]
    IN  CASE fn = "Mul" -> IF q > 0 /\ p > 2 ^ 30 \div q THEN r.v = <<IF differ THEN 1 ELSE 0, Inf>>
                           ELSE NearFloat(r, differ, p * q, Unit)
          [] fn = "Div" -> NearFloat(r, differ, p * Unit, q)
          [] OTHER      -> IF exact = 0 THEN r.v[2] = 0 ELSE NearFloat(r, exact < 0, Abs(exact), 1)

\* Of which one is an infinity or no number.
NonFiniteRight(fn, x, y, r) ==
    LET infinite(z) == z.v[2] = Inf
        undefined   == \/ NaN \in {x.v[2], y.v[2]}
                       \/ infinite(x) /\ infinite(y)
                              /\ CASE fn = "Add" -> x.v[1] # y.v[1]
                                   [] fn = "Sub" -> x.v[1] = y.v[1]
                                   [] OTHER      -> fn = "Div"
                       \/ fn = "Mul" /\ 0 \in {x.v[2], y.v[2]}
    IN  r.v[2] = IF undefined THEN NaN ELSE IF fn = "Div" /\ infinite(y) THEN 0 ELSE Inf

FloatRight(fn, a, b, r) ==
    LET x == Val("Float64", AsF64(a))
        y == Val("Float64", AsF64(b))
    IN  IF fn = "Mod" \/ (fn = "Div" /\ y.v[2] = 0) THEN r = TypeError
        ELSE /\ r.t = "Float64"
             /\ IF Finite(x) /\ Finite(y) THEN FiniteRight(fn, x, y, r)
                                          ELSE NonFiniteRight(fn, x, y, r)

ArithmeticRight(fn, a, b, r) ==
    IF IsNull(a) \/ IsNull(b) THEN r = Null
    ELSE IF ~IsNumber(a) \/ ~IsNumber(b) THEN r = TypeError
    ELSE IF IsInt(a) /\ IsInt(b) THEN IntRight(fn, AsI64(a), AsI64(b), r)
    ELSE IF {a.t, b.t} \cap Floats # {} THEN FloatRight(fn, a, b, r)
    ELSE DecimalRight(fn, a, b, r)

(* Comparison of numbers by amount; a negative zero is below zero.  With a *)
(* float the other one is rounded to a float first.                        *)
MinusZero(x) == x.t \in Floats /\ x.v = <<1, 0>>
ExactAsFloat(x) == x.t \in Floats \/ Amount(Val("Float64", AsF64(x))) = Amount(x)

ComparisonRight(fn, a, b, r) ==
    LET order == IF Amount(a) # Amount(b) THEN Signum(Amount(a) - Amount(b))
                 ELSE IF MinusZero(a) = MinusZero(b) THEN 0
                 ELSE IF MinusZero(a) THEN -1 ELSE 1
        holds == CASE fn = "Eq"    -> order = 0
                   [] fn = "NotEq" -> order # 0
                   [] OTHER        -> Holds(fn, order)
    IN  IF IsNull(a) \/ IsNull(b) THEN r = Null
        ELSE IF Finite(a) /\ Finite(b)
        THEN ({a.t, b.t} \cap Floats # {} => ExactAsFloat(a) /\ ExactAsFloat(b)) => r = Bool(holds)
        ELSE IF IsNumber(a) # IsNumber(b)
        THEN r = CASE fn = "Eq" -> Bool(FALSE) [] fn = "NotEq" -> Bool(TRUE) [] OTHER -> TypeError
        ELSE TRUE

(* The integer nearest to x, either of two; an error if it does not fit.   *)
(* A float is an i64 first: the last of them for one beyond (and 0 for one *)
(* that is no number), which is no error where an i64 is asked for.        *)
RoundedRight(x, t, r) ==
    LET last64  == MaxOf("Int64")
        floor   == Amount(x) \div Unit
        nearest == {n \in {floor, floor + 1} : 2 * Abs(n * Unit - Amount(x)) <= Unit}
        may     == CASE x.t \notin Floats   -> nearest
                     [] x.v[2] = NaN        -> {0}
                     [] floor < -last64 - 1 -> {-last64 - 1}
                     [] floor >= last64     -> {last64}
                     [] OTHER               -> nearest
    IN  IF IsError(r) THEN \E n \in may : ~Fits(n, t) ELSE r.t = t /\ r.v[1] \in may

(* The digits of a float go as far as a decimal's scale; an error beyond   *)
(* the decimals, and for a float that is not finite.                       *)
DecimalCastRight(x, r) ==
    IF IsError(r) THEN x.t \in Floats /\ (Finite(x) => Abs(Amount(x)) > MaxMantissa * Unit)
    ELSE /\ r.t = "Numeric" /\ Finite(x)
         /\ Abs(Amount(r)) <= MaxMantissa * Unit
         /\ 2 * Abs(Amount(r) - Amount(x)) <= IF x.t \in Floats THEN Unit \div Ten ^ MaxScale ELSE 0

CastRight(x, ty, r) ==
    LET t == Head(ty)
    IN  CASE IsNull(x) -> r = Null
          [] t \in Ints /\ IsNumber(x)     -> RoundedRight(x, t, r)
          [] t = "Numeric" /\ IsNumber(x)  -> DecimalCastRight(x, r)
          [] t \in Floats /\ IsNumber(x)   -> r.t = t /\ Assigned(x, r, ty)
          [] OTHER -> TRUE

\* ABS, -, CEIL, FLOOR and ROUND.
StepRight(fn, x, r) ==
    IF IsNull(x) THEN r = Null
    ELSE IF ~IsNumber(x) THEN r = TypeError
    ELSE IF ~Finite(x) THEN r.t = x.t
    ELSE IF IsError(r) THEN IsInt(x) /\ ~Fits(-x.v[1], x.t)
    ELSE /\ r.t = x.t
         /\ CASE fn = "Abs"   -> Amount(r) = Abs(Amount(x))
              [] fn = "Minus" -> Amount(r) = -Amount(x)
              [] fn = "Floor" -> Amount(r) <= Amount(x) /\ Amount(x) < Amount(r) + Unit
              [] fn = "Ceil"  -> Amount(r) >= Amount(x) /\ Amount(x) > Amount(r) - Unit
              [] fn = "Round" -> 2 * Abs(Amount(r) - Amount(x)) <= Unit

Arithmetic == {"Add", "Sub", "Mul", "Div", "Mod"}

NumberRight(xs, r) ==
    CASE Expr.op = "BinaryOp" /\ Expr.fn \in Arithmetic ->
            ArithmeticRight(Expr.fn, xs[1], xs[2], r)
      [] Expr.op = "BinaryOp" /\ Expr.fn \in Comparisons \union {"Eq", "NotEq"} ->
            ComparisonRight(Expr.fn, xs[1], xs[2], r)
      [] Expr.op = "Cast"     -> CastRight(xs[1], BindDataType(Expr.ty), r)
      [] Expr.op = "UnaryOp" /\ Expr.fn = "Minus" -> StepRight("Minus", xs[1], r)
      [] Expr.op \in {"Ceil", "Floor"} -> StepRight(Expr.op, xs[1], r)
      [] Expr.op = "Function" /\ Expr.name \in {<<"ABS">>, <<"ROUND">>} ->
            StepRight(Functions[Expr.name[1]], xs[1], r)
      [] OTHER -> TRUE

(***************************************************************************)
(* Arithmetic on numbers of any two types is exact, or rounded to the type *)
(* of the result, or an error where the code says so: overflow, division   *)
(* by zero, no number.  Comparison follows the amounts where both are      *)
(* exact as floats or neither is one.  A cast to an integer gives the next *)
(* one, to a decimal the digits that fit, an error out of range, and NULL  *)
(* gives NULL.  One cast out of range is no error: a float beyond the i64s *)
(* gives the last i64, as `as i64` has it, against the comment of          *)
(* eval_cast.                                                              *)
(***************************************************************************)
NumbersRight == Probed => NumberRight(Operands, Result)
-----------------------------------------------------------------------------
(***************************************************************************)
(* Logic: the NULLs of a row stand for values nobody knows.                *)
(***************************************************************************)
RECURSIVE ColumnsOf(_)
ColumnsOf(ast) ==
    IF ast.op = "Identifier" THEN <<ast.name[1]>>
    ELSE FlattenSeq([i \in DOMAIN ast.args |-> ColumnsOf(ast.args[i])])

\* The values that the columns named may have: any, where one is NULL.
Completions(names, row) ==
    LET at(c)  == CHOOSE i \in DOMAIN Scope.cols : Scope.cols[i].field.name = c
        may(c) == IF ~IsNull(row[at(c)]) THEN {row[at(c)].v[1]}
                  ELSE IF Scope.cols[at(c)].field.ty = <<"Bool">> THEN {0, 1} ELSE -2 .. 3
    IN  {f \in [names -> -2 .. 3] : \A c \in names : f[c] \in may(c)}

\* Two-valued logic, and the numbers it compares.
Term(ast, row) == IF ast.op = "Identifier" THEN row[ast.name[1]] ELSE BindValue(ast).val.v[1]

\* A condition over the numbers and the truth values of its operands.
TruthOver(ast, n, t) ==
    CASE ast.op = "Nested"  -> t[1]
      [] ast.op = "UnaryOp" -> ~t[1]
      [] ast.op = "Between" -> (n[1] \in n[2] .. n[3]) # (ast.fn = "Not")
      [] ast.op = "InList"  -> (\E i \in 2 .. Len(ast.args) : n[i] = n[1]) # (ast.fn = "Not")
      [] ast.fn = "And"     -> t[1] /\ t[2]
      [] ast.fn = "Or"      -> t[1] \/ t[2]
      [] ast.fn = "Eq"      -> n[1] = n[2]
      [] ast.fn = "NotEq"   -> n[1] # n[2]
      [] OTHER              -> Holds(ast.fn, n[1] - n[2])

RECURSIVE Truth(_, _)
Truth(ast, row) ==
    IF ast.op \in {"Identifier", "Value"} THEN Term(ast, row) = 1
    ELSE TruthOver(ast, [i \in DOMAIN ast.args |-> Term(ast.args[i], row)],
                   [i \in DOMAIN ast.args |-> Truth(ast.args[i], row)])

\* TRUE or FALSE if it is so whatever the NULLs are, and no NULL without one
\* (an expression that names a column twice may be NULL where the values would
\* decide).
TruthRight(completions, names, r) ==
    LET for(may) ==
            /\ r \in {Null, Bool(TRUE), Bool(FALSE)}
            /\ r # Null => may = {IsTrue(r)}
            /\ r = Null => /\ Cardinality(completions) > 1
                           /\ Cardinality(may) = 1 => \/ Cardinality(Range(names)) < Len(names)
                                                      \/ Expr.op = "Between"
    IN  for({Truth(Expr, row) : row \in completions})

\* The first branch whose condition is TRUE; no other branch is evaluated, and
\* no condition behind it.
CaseRight(xs, r) ==
    LET whens   == IF Expr.fn = "Operand" THEN Tail(xs) ELSE xs
        n       == Len(whens) \div 2
        cond(i) == LET w == whens[2 * i - 1]
                   IN  IF Expr.fn # "Operand" \/ IsError(w) \/ IsNull(w) THEN w
                       ELSE Bool(ValuesEq(w, xs[1]))
        other   == IF Len(whens) % 2 = 1 THEN Last(whens) ELSE Null
        quiet(i) == \A j \in 1 .. i - 1 : ~IsTrue(cond(j)) /\ ~IsError(cond(j))
    IN  \/ \E i \in 1 .. n : quiet(i) /\ IsTrue(cond(i)) /\ r = whens[2 * i]
        \/ \E i \in 1 .. n : quiet(i) /\ IsError(cond(i)) /\ r = cond(i)
        \/ quiet(n + 1) /\ r = other

\* The greatest and the least of what is not NULL.
ExtremeRight(xs, wins, r) ==
    LET known == {x \in Range(xs) : ~IsNull(x)}
    IN  IF IsError(r) THEN \E x, y \in known : IsError(x) \/ CmpValues(x, y) = Incomparable
        ELSE IF known = {} THEN r = Null
        ELSE r \in known /\ \A x \in known : CmpValues(r, x) \in {0, wins}

ChoiceRight(name, xs, r) ==
    LET some == {i \in DOMAIN xs : ~IsNull(xs[i])}
    IN  CASE name = "COALESCE" -> r = IF some = {} THEN Null ELSE xs[Min(some)]
          [] name \in {"GREATEST", "MAX"} -> ExtremeRight(xs, 1, r)
          [] name \in {"LEAST", "MIN"}    -> ExtremeRight(xs, -1, r)
          [] name = "NULLIF"   -> \/ IsNull(r) /\ (IsNull(xs[1]) \/ ValuesEq(xs[1], xs[2]))
                                  \/ r = xs[1] /\ ~ValuesEq(xs[1], xs[2])

Connectives == {"And", "Or", "Eq", "NotEq"} \union Comparisons
ChoiceFns == {"COALESCE", "GREATEST", "LEAST", "MAX", "MIN", "NULLIF"}

\* The columns are integers or booleans, the latter not compared.
OfLogic == \A i \in DOMAIN Scope.cols : Scope.cols[i].field.ty \in {<<"Bool">>, <<"Int32">>}

ConditionRight(xs, r) ==
    CASE \/ Expr.op = "BinaryOp" /\ Expr.fn \in Connectives
         \/ Expr.op = "UnaryOp" /\ Expr.fn = "Not"
         \/ Expr.op \in {"Between", "InList", "Nested"} ->
            TruthRight(Completions(Range(ColumnsOf(Expr)), TheRow), ColumnsOf(Expr), r)
      [] Expr.op = "Case"   -> CaseRight(xs, r)
      [] Expr.op = "IsNull" -> r = Bool(IsNull(xs[1]) # (Expr.fn = "Not"))
      [] Expr.op = "Function" /\ Expr.name[1] \in ChoiceFns -> ChoiceRight(Expr.name[1], xs, r)
      [] OTHER -> TRUE

(***************************************************************************)
(* A condition over columns that may be NULL is TRUE or FALSE exactly when *)
(* two-valued logic says so for every value the NULLs may stand for, with  *)
(* BETWEEN, IN and their negations as SQL means them.  A BETWEEN, which is *)
(* bound to two comparisons of its operand, and a condition that names a   *)
(* column twice may be NULL though every value decides them alike (a NULL  *)
(* between 2 and 1).  CASE, COALESCE, NULLIF, GREATEST and LEAST choose    *)
(* among their operands as they should and do not fail over one that they  *)
(* do not need.                                                            *)
(***************************************************************************)
LogicRight == Probed /\ OfLogic => ConditionRight(Operands, Result)
-----------------------------------------------------------------------------
(***************************************************************************)
(* Text.                                                                   *)
(***************************************************************************)

\* LIKE: % stands for any text, _ for any character.
RECURSIVE MatchRef(_, _)
MatchRef(t, p) ==
    IF p = << >> THEN t = << >>
    ELSE IF Head(p) = Ch.percent
         THEN \E i \in 0 .. Len(t) : MatchRef(SubSeq(t, i + 1, Len(t)), Tail(p))
    ELSE t # << >> /\ Head(p) \in {Ch.underscore, Head(t)} /\ MatchRef(Tail(t), Tail(p))

\* A % in the text is left out: like_match takes one in the pattern for it.
LikeRight(x, p, r) ==
    IF IsNull(x) \/ IsNull(p) THEN r = Null
    ELSE IF x.t # "Text" \/ p.t # "Text" THEN r = TypeError
    ELSE Ch.percent \in Range(x.v) \/ r = Bool(MatchRef(x.v, p.v) # (Expr.fn = "Not"))

\* The characters at the positions from start, len of them.
SubstringRight(s, start, len, r) ==
    LET at == {i \in DOMAIN s : start <= i /\ i - start < len}
    IN  /\ Len(r.v) = Cardinality(at)
        /\ at # {} => \A i \in DOMAIN r.v : r.v[i] = s[Min(at) + i - 1]

\* s between texts of trimmed characters, and no more to trim.
TrimRight(side, s, chars, r) ==
    LET front == side # "TrimTrailing"
        back  == side # "TrimLeading"
    IN  /\ \E i \in 0 .. Len(s) :
              /\ \A j \in 1 .. i : s[j] \in chars
              /\ front \/ i = 0
              /\ r.v = SubSeq(s, i + 1, i + Len(r.v)) /\ i + Len(r.v) <= Len(s)
              /\ \A j \in i + Len(r.v) + 1 .. Len(s) : s[j] \in chars
              /\ back \/ i + Len(r.v) = Len(s)
        /\ r.v # << >> => /\ front => Head(r.v) \notin chars
                          /\ back => Last(r.v) \notin chars

\* What a text function makes of its operands, texts and integers; NULL of NULL.
TextFnRight(fn, xs, r) ==
    LET s == xs[1].v
        n == xs[Len(xs)].v[1]
    IN  CASE fn = "LENGTH" -> r = Int64(Len(s))
          [] fn = "REPEAT" -> /\ Len(r.v) = Len(s) * Max({0, n})
                              /\ \A i \in DOMAIN r.v : r.v[i] = s[((i - 1) % Len(s)) + 1]
          [] fn = "UPPER"  -> Len(r.v) = Len(s) /\ \A i \in DOMAIN s : r.v[i] \notin {Ch.a, Ch.aAcute}
          [] fn = "LOWER"  -> Len(r.v) = Len(s) /\ \A i \in DOMAIN s : r.v[i] \notin {Ch.A, Ch.AAcute}
          [] OTHER         -> TRUE

\* The text of a value is parsed to the same value: not below a second, not of
\* an interval in several units, and not of bytes, whose text is hexadecimal and
\* parsed as characters.
Shown(x) ==
    CASE x.t \in {"Time", "Timestamp"} -> x.v[1] % Sec = 0
      [] x.t = "Interval"              -> x.v[3] % Sec = 0
      [] OTHER                         -> x.t \notin {"Bytes", "Array"}

\* Bytes and JSON have no text to append.
Appended(xs) ==
    IF \E i \in DOMAIN xs : xs[i].t \in {"Bytes", "Json"} THEN TypeError
    ELSE Text(FlattenSeq([i \in DOMAIN xs |-> IF IsNull(xs[i]) THEN << >> ELSE CastToText(xs[i]).v]))

\* An operand that is no text, an argument of a wrong type or NULL.
Ill(xs, types) == \E i \in DOMAIN xs : xs[i].t \notin types[i]
Whole64 == {"Int16", "Int32", "Int64"}

StrictRight(xs, types, r, right) ==
    IF \E i \in DOMAIN xs : IsNull(xs[i]) THEN r = Null
    ELSE IF Ill(xs, types) THEN r = TypeError
    ELSE r.t \in {"Text", "Int64"} /\ right

RoundTripRight(x, r) == <<x.t>> = BindDataType(Expr.ty) /\ Shown(x) => r = x

TextsRight(xs, r) ==
    CASE Expr.op = "Like" -> LikeRight(xs[1], xs[2], r)
      [] Expr.op = "Substring" ->
            StrictRight(xs, <<{"Text"}, Whole64, Whole64>>, r,
                SubstringRight(xs[1].v, IF Expr.fn = "For" THEN 1 ELSE xs[2].v[1],
                               IF Expr.fn = "From" THEN Len(xs[1].v) + Abs(xs[2].v[1]) + 1
                               ELSE Last(xs).v[1], r))
      [] Expr.op = "Trim" ->
            StrictRight(xs, <<{"Text"}, {"Text"}>>, r,
                TrimRight(Expr.fn, xs[1].v,
                          IF Len(xs) = 1 THEN {Ch.space} ELSE Range(xs[2].v), r))
      [] Expr.op = "Function" /\ Expr.name[1] \in {"LENGTH", "REPEAT", "UPPER", "LOWER"} ->
            StrictRight(xs, <<{"Text"}, Whole64>>, r, TextFnRight(Expr.name[1], xs, r))
      [] Expr.op = "Function" /\ Expr.name[1] = "CONCAT" ->
            r = Appended(xs)
      [] Expr.op = "BinaryOp" /\ Expr.fn = "Concat" ->
            r = IF \E i \in DOMAIN xs : IsNull(xs[i]) THEN Null ELSE Appended(xs)
      [] Expr.op = "Cast" /\ Expr.args[1].op = "Cast" /\ Expr.args[1].ty = <<"Text">> ->
            RoundTripRight(ValueOf(Expr.args[1].args[1]), r)
      [] OTHER -> TRUE

(***************************************************************************)
(* Functions of texts count characters, not bytes: LIKE matches as the     *)
(* reference does (for texts without %), SUBSTRING takes the characters at *)
(* the positions that it names whatever they are, TRIM takes off all of    *)
(* the characters at its sides and no other, || has NULL for NULL and      *)
(* CONCAT nothing, and CAST to TEXT is undone by the CAST back.            *)
(***************************************************************************)
TextRight == Probed => TextsRight(Operands, Result)
=============================================================================
