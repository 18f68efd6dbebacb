------------------------------- MODULE Binder -------------------------------
(***************************************************************************)
(* The binder of crates/strata-db/src/query/planner/binder: names, types   *)
(* and literals of a parsed statement to expressions over column           *)
(* positions, and the values of an INSERT to the columns of its table.     *)
(*                                                                         *)
(* A parsed expression is a record like a bound one (module Exprs): op,    *)
(* its variant; fn, the operator, function or form; name, the identifiers; *)
(* ty, the SQL type; val, the literal; args, the operands; rest, TRUE if   *)
(* the syntax has a part the binder refuses.  A name the parser knows and  *)
(* the binder does not is "Other".  Binding gives an expression, or a      *)
(* Failure.                                                                *)
(***************************************************************************)
EXTENDS Exprs

Ast(op, fn, args) ==
    [op |-> op, fn |-> fn, name |-> << >>, ty |-> << >>, val |-> Null,
     args |-> args, rest |-> FALSE]

Failure(error) == [Node("Failure", "", << >>) EXCEPT !.val = error]
IsFailure(e)   == e.op = "Failure"

\* A relation's columns in scope; `open` is FALSE where no scope was pushed.
NoScope == [open |-> FALSE, cols |-> << >>]
EmptyScope == [open |-> TRUE, cols |-> << >>]
ForRelation(rel, schema) ==
    [open |-> TRUE, cols |-> [i \in DOMAIN schema |-> [rel |-> rel, field |-> schema[i]]]]
ConcatScopes(l, r) == [open |-> TRUE, cols |-> l.cols \o r.cols]
SchemaOf(scope) == [i \in DOMAIN scope.cols |-> scope.cols[i].field]

\* Scope::resolve; an unqualified name matches in every relation.
AnyRelation == ""

Resolve(scope, rel, name) ==
    LET found == {i \in DOMAIN scope.cols : /\ scope.cols[i].field.name = name
                                            /\ rel \in {AnyRelation, scope.cols[i].rel}}
    IN  IF scope.open /\ Cardinality(found) = 1
        THEN Column(CHOOSE i \in found : TRUE) ELSE Failure(InternalError)
-----------------------------------------------------------------------------
(* bind_data_type: the logical type, or << >> for one it refuses.          *)

TypeNames ==
    [Boolean |-> "Bool", SmallInt |-> "Int16", Int |-> "Int32", BigInt |-> "Int64",
     Text |-> "Text", Varchar |-> "Text", Bytea |-> "Bytes", JSON |-> "Json",
     Date |-> "Date", Real |-> "Float32", Double |-> "Float64", Numeric |-> "Numeric",
     Uuid |-> "Uuid", Interval |-> "Interval"]

\* The word behind the name: a time zone, or a precision above or up to 24.
BindScalarType(ty) ==
    CASE ty[1] = "Timestamp" -> IF ty = <<"Timestamp", "Tz">> THEN <<"Timestamp">> ELSE << >>
      [] ty[1] = "Time"      -> IF ty = <<"Time", "Tz">> THEN << >> ELSE <<"Time">>
      [] ty[1] = "Float"     -> IF ty = <<"Float", "Short">> THEN <<"Float32">> ELSE <<"Float64">>
      [] ty[1] \in DOMAIN TypeNames -> <<TypeNames[ty[1]]>>
      [] OTHER               -> << >>

BindDataType(ty) ==
    IF ty[1] # "Array" THEN BindScalarType(ty)
    ELSE IF Len(ty) = 1 \/ ty[2] = "Array" THEN << >>
    ELSE LET elem == BindScalarType(Tail(ty))
         IN  IF elem = << >> THEN << >> ELSE <<"Array">> \o elem
-----------------------------------------------------------------------------
(* Literals.                                                               *)

Bound(x) == IF IsError(x) THEN Failure(x) ELSE Literal(x)

\* An integer, else a float: one too large for an i64 is a float too.
BindValue(ast) ==
    LET number(n, f) == CASE ~IsError(n) -> Literal(n)
                          [] ~IsError(f) -> Literal(f)
                          [] OTHER       -> Failure(InternalError)
    IN  IF ast.fn # "Number" THEN Literal(ast.val)
        ELSE number(ParseI64(ast.val.v), ParseF64(ast.val.v))

BindTypedString(ty, s) ==
    Bound(CASE ty = <<"Date">>            -> ParseDate(s)
            [] ty = <<"Timestamp", "Tz">> -> ParseTimestamptz(s)
            [] ty = <<"Numeric">>         -> ParseDecimal(s)
            [] ty = <<"Time">>            -> ParseTime(s)
            [] ty = <<"Uuid">>            -> ParseUuid(Trimmed(s))
            [] OTHER                      -> Unsupported)

\* The leading field is the unit behind the number.
BindInterval(ast) ==
    IF ast.args # << >> \/ ast.val.t # "Text" THEN Failure(Unsupported)
    ELSE Bound(ParseInterval(ast.val.v \o (IF ast.fn = "Day" THEN <<Ch.d>> ELSE << >>)))
-----------------------------------------------------------------------------
(* Functions by name and number of arguments.                              *)

Functions ==
    [ABS |-> "Abs", ROUND |-> "Round", COALESCE |-> "Coalesce", NULLIF |-> "Nullif",
     GREATEST |-> "Greatest", LEAST |-> "Least", CONCAT |-> "Concat", LENGTH |-> "Length",
     REPEAT |-> "Repeat", UPPER |-> "Upper", LOWER |-> "Lower"]

Accepts(fn, argc) ==
    CASE fn \in {"COALESCE", "GREATEST", "LEAST"} -> argc >= 1
      [] fn = "CONCAT"                            -> TRUE
      [] fn \in {"NULLIF", "REPEAT"}              -> argc = 2
      [] OTHER                                    -> argc = 1

ResolveScalarFunc(name, args) ==
    CASE name \in {"MAX", "MIN"} ->
            IF Len(args) >= 2 THEN Call(IF name = "MAX" THEN "Greatest" ELSE "Least", args)
            ELSE Failure(Unsupported)
      [] name \in DOMAIN Functions ->
            IF Accepts(name, Len(args)) THEN Call(Functions[name], args) ELSE Failure(TypeError)
      [] OTHER -> Failure(Unsupported)

\* BETWEEN and IN are lowered to comparisons.
BindBetween(args) ==
    Binary("And", Binary("GtEq", args[1], args[2]), Binary("LtEq", args[1], args[3]))

BindInList(args) ==
    LET eqs == [i \in 1 .. Len(args) - 1 |-> Binary("Eq", args[1], args[i + 1])]
    IN  IF eqs = << >> THEN Literal(Bool(FALSE))
        ELSE FoldLeft(LAMBDA l, r : Binary("Or", l, r), Head(eqs), Tail(eqs))

\* SUBSTRING(s [FROM start] [FOR len]); fn tells which of the two is given.
BindSubstring(fn, args) ==
    LET start == IF fn \in {"From", "Both"} THEN args[2] ELSE Literal(Int64(1))
        len   == IF fn \in {"For", "Both"} THEN Last(args) ELSE Literal(Int64(MaxOf("Int64")))
    IN  Call("Substr", <<args[1], start, len>>)

\* TRIM([side] [chars FROM] s).
BindTrim(fn, args) ==
    Call(IF fn = "" THEN "TrimBoth" ELSE fn,
         IF Len(args) = 1 THEN Append(args, Literal(Text(<<Ch.space>>))) ELSE args)

\* CASE [operand] WHEN ...: an operand makes every condition an equality.
BindCase(fn, args) ==
    LET whens == Tail(args)
        isCond(i) == i % 2 = 1 /\ i < Len(whens)
    IN  IF fn # "Operand" THEN Node("Case", "", args)
        ELSE Node("Case", "", [i \in DOMAIN whens |->
                 IF isCond(i) THEN Binary("Eq", args[1], whens[i]) ELSE whens[i]])

Negated(ast, e) == IF ast.fn = "Not" THEN Node("Not", "", <<e>>) ELSE e

BinaryOps == {"Eq", "NotEq", "Lt", "LtEq", "Gt", "GtEq", "And", "Or",
              "Add", "Sub", "Mul", "Div", "Mod", "Concat"}

\* What is refused before an operand is bound.
Refused(ast) ==
    \/ ast.rest
    \/ ast.op = "Other"
    \/ ast.op = "BinaryOp" /\ ast.fn \notin BinaryOps
    \/ ast.op = "UnaryOp" /\ ast.fn \notin {"Not", "Minus"}
    \/ ast.op = "Function" /\ Len(ast.name) # 1

\* A node over its bound operands.
BindNode(ast, args, scope) ==
    CASE ast.op = "Value"       -> BindValue(ast)
      [] ast.op = "Identifier"  -> Resolve(scope, AnyRelation, ast.name[1])
      [] ast.op = "Compound"    -> IF scope.open /\ Len(ast.name) # 2 THEN Failure(Unsupported)
                                   ELSE Resolve(scope, ast.name[1], ast.name[2])
      [] ast.op = "BinaryOp"    -> Binary(ast.fn, args[1], args[2])
      [] ast.op = "UnaryOp"     -> Node(IF ast.fn = "Not" THEN "Not" ELSE "Neg", "", args)
      [] ast.op = "Nested"      -> args[1]
      [] ast.op = "TypedString" -> BindTypedString(ast.ty, ast.val.v)
      [] ast.op = "Function"    -> ResolveScalarFunc(ast.name[1], args)
      [] ast.op \in {"Ceil", "Floor"}  -> Call(ast.op, args)
      [] ast.op \in {"IsNull", "Like"} -> Node(ast.op, ast.fn, args)
      [] ast.op = "Between"     -> Negated(ast, BindBetween(args))
      [] ast.op = "InList"      -> Negated(ast, BindInList(args))
      [] ast.op = "Substring"   -> BindSubstring(ast.fn, args)
      [] ast.op = "Trim"        -> BindTrim(ast.fn, args)
      [] ast.op = "Case"        -> BindCase(ast.fn, args)
      [] ast.op = "Cast"        -> IF BindDataType(ast.ty) = << >> THEN Failure(Unsupported)
                                   ELSE CastTo(args[1], BindDataType(ast.ty))
      [] ast.op = "Array"       -> Node("Array", "", args)

\* The same, or the first operand that was not bound.
BindOver(ast, args, scope) ==
    LET bad == {i \in DOMAIN args : IsFailure(args[i])}
    IN  IF Refused(ast) THEN Failure(Unsupported)
        ELSE IF ast.op = "Interval" THEN BindInterval(ast)
        ELSE IF bad # {} THEN args[Min(bad)]
        ELSE BindNode(ast, args, scope)

RECURSIVE Bind(_, _)
Bind(ast, scope) == BindOver(ast, [i \in DOMAIN ast.args |-> Bind(ast.args[i], scope)], scope)

\* Bound without a scope and evaluated on no row: an INSERT's values, a count.
BoundEval(e) == IF IsFailure(e) THEN e.val ELSE Eval(e, << >>)
ConstEval(ast) == BoundEval(Bind(ast, NoScope))
=============================================================================
