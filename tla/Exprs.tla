------------------------------- MODULE Exprs --------------------------------
(***************************************************************************)
(* The expression evaluator of crates/strata-db/src/query/expression:      *)
(* Expr::eval, the built-in functions, LIKE and CAST.                      *)
(*                                                                         *)
(* An expression is a record: op, its variant; fn, the operator, function  *)
(* or "Not" for a negated predicate; index, the column; ty, the target of  *)
(* a cast; val, the literal; args, its operands.  The args of a CASE are   *)
(* condition and result by turns, and the ELSE if their number is odd.     *)
(* An evaluation gives a value, or an Error.                               *)
(***************************************************************************)
EXTENDS Texts

Node(op, fn, args) ==
    [op |-> op, fn |-> fn, index |-> 0, ty |-> << >>, val |-> Null, args |-> args]

Column(i)        == [Node("Column", "", << >>) EXCEPT !.index = i]
Literal(x)       == [Node("Literal", "", << >>) EXCEPT !.val = x]
Binary(fn, l, r) == Node("Binary", fn, <<l, r>>)
Call(fn, args)   == Node("Call", fn, args)
CastTo(e, ty)    == [Node("Cast", "", <<e>>) EXCEPT !.ty = ty]
-----------------------------------------------------------------------------
(* Arithmetic.                                                             *)

\* A slip that wraps where the code checks.
IntArithWrapping(fn, a, b) ==
    LET n == CASE fn = "Add" -> a + b
               [] fn = "Sub" -> a - b
               [] fn = "Mul" -> a * b
               [] OTHER      -> 0
        span == 2 * (MaxOf("Int64") + 1)
    IN  IF fn \in {"Div", "Mod"} THEN TypeError
        ELSE Int64(((n + span \div 2) % span) - span \div 2)

IntArith(fn, a, b) ==
    LET checked(wide, n) == IF Fits(wide, "Int64") THEN Int64(n) ELSE TypeError
    IN  IF fn \in {"Div", "Mod"} /\ b = 0 THEN TypeError
        ELSE CASE fn = "Add" -> checked(a + b, a + b)
               [] fn = "Sub" -> checked(a - b, a - b)
               [] fn = "Mul" -> checked(a * b, a * b)
               [] fn = "Div" -> checked(Quotient(a, b), Quotient(a, b))
               \* checked_rem fails with the quotient
               [] fn = "Mod" -> checked(Quotient(a, b), Remainder(a, b))

\* IEEE-754 (external).
FloatOp(fn, a, b) ==
    LET signed(f) == IF f[1] = 1 THEN -f[2] ELSE f[2]
        sign      == (a[1] + b[1]) % 2
        sum       == signed(a) + signed(b)
    IN  IF NaN \in {a[2], b[2]} THEN <<0, NaN>>
        ELSE CASE fn = "Add" ->
                     (IF a[2] = Inf THEN IF b[2] = Inf /\ sign = 1 THEN <<0, NaN>> ELSE a
                      ELSE IF b[2] = Inf THEN b
                      ELSE IF sum = 0 THEN <<a[1] * b[1], 0>>
                      ELSE Float(sum, 1, "Float64"))
               [] fn = "Mul" ->
                     (IF {a[2], b[2]} = {0, Inf} THEN <<0, NaN>>
                      ELSE IF Inf \in {a[2], b[2]} THEN <<sign, Inf>>
                      ELSE IF b[2] > 0 /\ a[2] > 2 ^ 30 \div b[2] THEN <<sign, Inf>>
                      ELSE <<sign, RoundTo(a[2] * b[2], FloatOne, "Float64")>>)
               [] fn = "Div" ->
                     (IF a[2] = Inf /\ b[2] = Inf THEN <<0, NaN>>
                      ELSE IF a[2] = Inf THEN <<sign, Inf>>
                      ELSE IF b[2] = Inf THEN <<sign, 0>>
                      ELSE <<sign, RoundTo(a[2] * FloatOne, b[2], "Float64")>>)

FloatArith(fn, a, b) ==
    CASE fn = "Mod"               -> TypeError
      [] fn = "Div" /\ b[2] = 0   -> TypeError
      [] fn = "Sub"               -> Val("Float64", FloatOp("Add", a, <<1 - b[1], b[2]>>))
      [] OTHER                    -> Val("Float64", FloatOp(fn, a, b))

\* rust_decimal's checked operations (external); << >> is None.
DecimalOp(fn, a, b) ==
    LET sum(m) == Fit(CASE fn = "Add" -> m[1] + m[2]
                        [] fn = "Sub" -> m[1] - m[2]
                        [] fn = "Mod" -> Remainder(m[1], m[2]), m[3])
        short(d) == IF d = << >> THEN << >> ELSE Normalized(d)
    IN  CASE fn = "Mul" -> IF b[1] # 0 /\ Abs(a[1]) > 2 ^ 29 \div Abs(b[1]) THEN << >>
                           ELSE Fit(a[1] * b[1], a[2] + b[2])
          [] fn = "Div" -> short(Fit(NearestEven(a[1] * Signum(b[1]) * Ten ^ (MaxScale + b[2]),
                                                 Abs(b[1]) * Ten ^ a[2]), MaxScale))
          [] OTHER      -> sum(Aligned(a, b))

DecimalArith(fn, a, b) ==
    LET numeric(d) == IF d = << >> THEN TypeError ELSE Val("Numeric", d)
    IN  IF fn \in {"Div", "Mod"} /\ b[1] = 0 THEN TypeError ELSE numeric(DecimalOp(fn, a, b))

EvalArithmetic(fn, l, r) ==
    IF IsInt(l) /\ IsInt(r) THEN IntArith(fn, AsI64(l), AsI64(r))
    ELSE IF {l.t, r.t} \cap Floats # {} /\ IsNumber(l) /\ IsNumber(r)
         THEN FloatArith(fn, AsF64(l), AsF64(r))
    ELSE IF IsExact(l) /\ IsExact(r) THEN DecimalArith(fn, AsDecimal(l), AsDecimal(r))
    ELSE TypeError

EvalNeg(x) ==
    CASE IsNull(x)       -> Null
      [] IsInt(x)        -> IF Fits(-x.v[1], x.t) THEN Val(x.t, <<-x.v[1]>>) ELSE TypeError
      [] x.t \in Floats  -> Val(x.t, <<1 - x.v[1], x.v[2]>>)
      [] x.t = "Numeric" -> Val(x.t, <<-x.v[1], x.v[2]>>)
      [] OTHER           -> TypeError
-----------------------------------------------------------------------------
(* eval_binary.                                                            *)

Comparisons == {"Lt", "LtEq", "Gt", "GtEq"}

Holds(fn, order) ==
    CASE fn = "Lt"   -> order < 0
      [] fn = "LtEq" -> order <= 0
      [] fn = "Gt"   -> order > 0
      [] fn = "GtEq" -> order >= 0

EvalCompare(fn, l, r) ==
    LET by(order) == IF order = Incomparable THEN TypeError ELSE Bool(Holds(fn, order))
    IN  by(CmpValues(l, r))

EvalConcat2(l, r) ==
    LET both(s, t) == IF IsError(s) THEN s ELSE IF IsError(t) THEN t ELSE Text(s.v \o t.v)
    IN  both(ConcatStr(l), ConcatStr(r))

\* A slip that lets NULL come first.
DecidesNever(fn, x) == FALSE

\* FALSE decides an AND and TRUE an OR, whatever the other side is.
Decides(fn, x) == fn \in {"And", "Or"} /\ x = Bool(fn = "Or")

Connected(fn, p, q) == IF fn = "And" THEN p /\ q ELSE p \/ q

EvalBinary(fn, l, r) ==
    IF Decides(fn, l) \/ Decides(fn, r) THEN Bool(fn = "Or")
    ELSE IF IsNull(l) \/ IsNull(r) THEN Null
    ELSE CASE fn = "Eq"                 -> Bool(ValuesEq(l, r))
           [] fn = "NotEq"              -> Bool(~ValuesEq(l, r))
           [] fn \in Comparisons        -> EvalCompare(fn, l, r)
           [] fn \in {"And", "Or"}      -> IF l.t = "Bool" /\ r.t = "Bool"
                                           THEN Bool(Connected(fn, IsTrue(l), IsTrue(r)))
                                           ELSE InternalError
           [] fn = "Concat"             -> EvalConcat2(l, r)
           [] OTHER                     -> EvalArithmetic(fn, l, r)
-----------------------------------------------------------------------------
(* LIKE: the two-pointer scan with backtracking on the last %.             *)

RECURSIVE LikeScan(_, _, _, _, _, _)
LikeScan(t, p, ti, pi, starPi, starTi) ==
    IF ti > Len(t)
    THEN \A i \in pi .. Len(p) : p[i] = Ch.percent
    ELSE IF pi <= Len(p) /\ (p[pi] = Ch.underscore \/ p[pi] = t[ti])
         THEN LikeScan(t, p, ti + 1, pi + 1, starPi, starTi)
    ELSE IF pi <= Len(p) /\ p[pi] = Ch.percent
         THEN LikeScan(t, p, ti, pi + 1, pi, ti)
    ELSE IF starPi # 0
         THEN LikeScan(t, p, starTi + 1, starPi + 1, starPi, starTi + 1)
    ELSE FALSE

LikeMatch(t, p) == LikeScan(t, p, 1, 1, 0, 1)

EvalLike(x, pattern, negated) ==
    IF IsNull(x) \/ IsNull(pattern) THEN Null
    ELSE IF x.t = "Text" /\ pattern.t = "Text" THEN Bool(LikeMatch(x.v, pattern.v) # negated)
    ELSE TypeError
-----------------------------------------------------------------------------
(* The built-in functions; NULL propagates through those of AnyNull.       *)

\* A slip that clamps the start before it adds the length.
EvalSubstrFromZero(s, from, len) ==
    LET start == Max({AsI64(from), 1})
        end   == Min({start + AsI64(len), MaxOf("Int64"), Len(s.v) + 1})
    IN  IF s.t # "Text" \/ ~IsInt(from) \/ ~IsInt(len) THEN TypeError
        ELSE Text(SubSeq(s.v, start, end - 1))

EvalSubstr(s, from, len) ==
    LET start == AsI64(from)
        end   == Min({start + AsI64(len), MaxOf("Int64"), Len(s.v) + 1})
    IN  IF s.t # "Text" \/ ~IsInt(from) \/ ~IsInt(len) THEN TypeError
        ELSE Text(SubSeq(s.v, Max({start, 1}), end - 1))

EvalTrim(s, chars, leading, trailing) ==
    IF s.t # "Text" \/ chars.t # "Text" THEN TypeError
    ELSE Text(Strip(s.v, Range(chars.v), leading, trailing))

\* To a whole number: n / d by the mode.
Whole(n, d, mode) ==
    CASE mode = "Floor" -> n \div d
      [] mode = "Ceil"  -> -((-n) \div d)
      [] mode = "Even"  -> NearestEven(n, d)
      [] mode = "Away"  -> NearestAway(n, d)

EvalRound(x, mode) ==
    LET tie(m) == IF mode = "Round" THEN m ELSE mode
        mag    == Whole(IF x.v[1] = 1 THEN -x.v[2] ELSE x.v[2], FloatOne, tie("Away"))
    IN  CASE IsInt(x)        -> x
          [] x.t \in Floats  ->
                (IF x.v[2] >= Inf THEN x
                 ELSE Val(x.t, Narrow(<<x.v[1], RoundTo(Abs(mag) * FloatOne, 1, "Float64")>>, x.t)))
          [] x.t = "Numeric" -> Val(x.t, <<Whole(x.v[1], Ten ^ x.v[2], tie("Even")), 0>>)
          [] OTHER           -> TypeError

EvalLength(x) == IF x.t = "Text" THEN Int64(Len(x.v)) ELSE TypeError

EvalRepeat(s, n) ==
    IF s.t # "Text" \/ ~IsInt(n) THEN TypeError
    ELSE Text(FlattenSeq([i \in 1 .. AsI64(n) |-> s.v]))

\* to_uppercase and to_lowercase (external), on the letters with two cases.
Cases == {<<Ch.a, Ch.A>>, <<Ch.aAcute, Ch.AAcute>>}
UpperCh(c) == IF \E p \in Cases : p[1] = c THEN (CHOOSE p \in Cases : p[1] = c)[2] ELSE c
LowerCh(c) == IF \E p \in Cases : p[2] = c THEN (CHOOSE p \in Cases : p[2] = c)[1] ELSE c

EvalCase(s, upper) ==
    IF s.t # "Text" THEN TypeError
    ELSE Text([i \in DOMAIN s.v |-> IF upper THEN UpperCh(s.v[i]) ELSE LowerCh(s.v[i])])

EvalAbs(x) ==
    CASE IsInt(x)        -> IF Fits(Abs(x.v[1]), x.t) THEN Val(x.t, <<Abs(x.v[1])>>)
                            ELSE TypeError
      [] x.t \in Floats  -> Val(x.t, <<0, x.v[2]>>)
      [] x.t = "Numeric" -> Val(x.t, <<Abs(x.v[1]), x.v[2]>>)
      [] OTHER           -> TypeError

EvalNullif(a, b) == IF ValuesEq(a, b) THEN Null ELSE a

\* The functions that look at one argument after the other stop at the first
\* error, the argument's or their own.
EvalConcat(xs) ==
    LET with(s, t) == IF IsError(t) THEN t ELSE Text(s.v \o t.v)
    IN  FoldLeft(LAMBDA s, x : IF IsError(s) THEN s
                               ELSE with(s, IF IsError(x) THEN x ELSE ConcatStr(x)),
                 Text(<< >>), xs)

EvalExtreme(xs, wins) ==
    LET better(best, x, order) == IF order = Incomparable THEN TypeError
                                  ELSE IF order = wins THEN x ELSE best
    IN  FoldLeft(LAMBDA best, x : IF IsError(best) THEN best
                                  ELSE IF IsError(x) THEN x
                                  ELSE IF IsNull(x) THEN best
                                  ELSE IF IsNull(best) THEN x
                                  ELSE better(best, x, CmpValues(x, best)),
                 Null, xs)

EvalCoalesce(xs) ==
    LET some == {i \in DOMAIN xs : ~IsNull(xs[i])}
    IN  IF some = {} THEN Null ELSE xs[Min(some)]

\* eval_call for the functions that evaluate all of their arguments first.
StrictCall(fn, xs) ==
    IF fn # "Nullif" /\ Null \in Range(xs) THEN Null
    ELSE CASE fn = "Abs"          -> EvalAbs(xs[1])
           [] fn \in {"Ceil", "Floor", "Round"} -> EvalRound(xs[1], fn)
           [] fn = "Length"       -> EvalLength(xs[1])
           [] fn = "Repeat"       -> EvalRepeat(xs[1], xs[2])
           [] fn = "Upper"        -> EvalCase(xs[1], TRUE)
           [] fn = "Lower"        -> EvalCase(xs[1], FALSE)
           [] fn = "Nullif"       -> EvalNullif(xs[1], xs[2])
           [] fn = "Substr"       -> EvalSubstr(xs[1], xs[2], xs[3])
           [] fn = "TrimBoth"     -> EvalTrim(xs[1], xs[2], TRUE, TRUE)
           [] fn = "TrimLeading"  -> EvalTrim(xs[1], xs[2], TRUE, FALSE)
           [] fn = "TrimTrailing" -> EvalTrim(xs[1], xs[2], FALSE, TRUE)
-----------------------------------------------------------------------------
(* CAST.                                                                   *)

\* `as i64`: saturating, and 0 for a NaN.
Saturated(n) == Max({-MaxOf("Int64") - 1, Min({n, MaxOf("Int64")})})

CastToI64(x) ==
    LET n == NearestEven(x.v[1], Ten ^ x.v[2])
        s == IF x.v[1] = 1 THEN -1 ELSE 1
    IN  CASE IsInt(x) \/ x.t = "Bool" -> Int64(x.v[1])
          [] x.t \in Floats           ->
                Int64(IF x.v[2] = NaN THEN 0 ELSE Saturated(s * NearestAway(x.v[2], FloatOne)))
          [] x.t = "Numeric"          -> IF Fits(n, "Int64") THEN Int64(n) ELSE TypeError
          [] x.t = "Text"             -> ParseI64(Trimmed(x.v))
          [] OTHER                    -> TypeError

FitIntCast(x, t) ==
    IF IsError(x) THEN x
    ELSE IF Fits(x.v[1], t) THEN Val(t, x.v)
    ELSE TypeError

CastToF64(x) ==
    IF IsNumber(x) THEN Val("Float64", AsF64(x))
    ELSE IF x.t = "Text" THEN ParseF64(Trimmed(x.v))
    ELSE TypeError

CastToNumeric(x) ==
    LET retained == Fit(IF x.v[1] = 1 THEN -x.v[2] ELSE x.v[2], FloatPlaces)
    IN  CASE IsExact(x)      -> Val("Numeric", AsDecimal(x))
          [] x.t \in Floats  -> IF x.v[2] >= Inf \/ retained = << >> THEN TypeError
                                ELSE Val("Numeric", Normalized(retained))
          [] x.t = "Text"    -> ParseDecimal(Trimmed(x.v))
          [] OTHER           -> TypeError

TrueWords  == {<<Ch.t>>, <<Ch.zero + 1>>}
FalseWords == {<<Ch.f>>, <<Ch.n>>, <<Ch.zero>>}

CastToBool(x) ==
    CASE x.t = "Bool" -> x
      [] IsInt(x)     -> Bool(x.v[1] # 0)
      [] x.t = "Text" -> IF Trimmed(x.v) \in TrueWords THEN Bool(TRUE)
                         ELSE IF Trimmed(x.v) \in FalseWords THEN Bool(FALSE)
                         ELSE TypeError
      [] OTHER        -> TypeError

CastToText(x) ==
    CASE x.t = "Bytes" -> Text(<<Ch.x>> \o Hex(x.v))
      [] x.t = "Json"  -> Text(x.v)
      [] OTHER         -> ConcatStr(x)

CastToDate(x) ==
    CASE x.t = "Text"      -> ParseDate(Trimmed(x.v))
      [] x.t = "Timestamp" -> Val("Date", <<x.v[1] \div Day>>)
      [] OTHER             -> TypeError

CastToTimestamp(x) ==
    CASE x.t = "Text" -> ParseTimestamptz(Trimmed(x.v))
      [] x.t = "Date" -> Val("Timestamp", <<x.v[1] * Day>>)
      [] OTHER        -> TypeError

\* The targets that take themselves and text.
FromText(x, parse) == IF x.t = "Text" THEN parse ELSE TypeError

EvalCast(x, ty) ==
    LET t == Head(ty)
    IN  IF IsNull(x) THEN Null
        ELSE CASE t \in {"Date", "Timestamp", "Time", "Uuid", "Interval", "Json", "Bytes", "Array"}
                      /\ x.t = t        -> x
               [] t = "Bool"            -> CastToBool(x)
               [] t \in Ints            -> FitIntCast(CastToI64(x), t)
               [] t \in Floats          ->
                     (LET float(f) == IF IsError(f) THEN f ELSE Val(t, Narrow(f.v, t))
                      IN  float(CastToF64(x)))
               [] t = "Numeric"         -> CastToNumeric(x)
               [] t = "Text"            -> CastToText(x)
               [] t = "Date"            -> CastToDate(x)
               [] t = "Timestamp"       -> CastToTimestamp(x)
               [] t = "Bytes"           -> FromText(x, Val("Bytes", Utf8(x.v)))
               [] t = "Time"            -> FromText(x, ParseTime(Trimmed(x.v)))
               [] t = "Uuid"            -> FromText(x, ParseUuid(Trimmed(x.v)))
               [] t = "Interval"        -> FromText(x, ParseInterval(Trimmed(x.v)))
               [] t = "Json"            -> FromText(x, ParseJson(x.v))
               [] t = "Array"           -> TypeError
-----------------------------------------------------------------------------
(* Expr::eval.                                                             *)

\* The first error of an evaluation in order, or what `then` makes of it.
FirstError(xs) == xs[Min({i \in DOMAIN xs : IsError(xs[i])})]

\* eval for the variants that evaluate all of their operands first.
Apply(e, xs) ==
    CASE e.op = "Not"    -> IF IsNull(xs[1]) THEN Null
                            ELSE IF xs[1].t = "Bool" THEN Bool(~IsTrue(xs[1]))
                            ELSE InternalError
      [] e.op = "Binary" -> EvalBinary(e.fn, xs[1], xs[2])
      [] e.op = "Call"   -> StrictCall(e.fn, xs)
      [] e.op = "IsNull" -> Bool(IsNull(xs[1]) # (e.fn = "Not"))
      [] e.op = "Like"   -> EvalLike(xs[1], xs[2], e.fn = "Not")
      [] e.op = "Neg"    -> EvalNeg(xs[1])
      [] e.op = "Cast"   -> EvalCast(xs[1], e.ty)
      [] e.op = "Array"  -> Array(xs)

\* CASE: the conditions in order up to the first that is TRUE, or fails.
EvalBranches(xs) ==
    LET n      == Len(xs) \div 2
        chosen == {i \in 1 .. n : IsTrue(xs[2 * i - 1]) \/ IsError(xs[2 * i - 1])}
        first  == Min(chosen)
    IN  IF chosen = {} THEN IF Len(xs) % 2 = 1 THEN Last(xs) ELSE Null
        ELSE IF IsError(xs[2 * first - 1]) THEN xs[2 * first - 1]
        ELSE xs[2 * first]

\* An expression over the values of its operands.
EvalNode(e, row, xs) ==
    CASE e.op = "Column"  -> IF e.index \in DOMAIN row THEN row[e.index] ELSE InternalError
      [] e.op = "Literal" -> e.val
      [] e.op = "Case"    -> EvalBranches(xs)
      [] e.op = "Call" /\ e.fn = "Coalesce" -> EvalCoalesce(xs)
      [] e.op = "Call" /\ e.fn \in {"Greatest", "Least"} ->
            EvalExtreme(xs, IF e.fn = "Greatest" THEN 1 ELSE -1)
      [] e.op = "Call" /\ e.fn = "Concat"   -> EvalConcat(xs)
      [] OTHER -> IF \E i \in DOMAIN xs : IsError(xs[i]) THEN FirstError(xs)
                  ELSE Apply(e, xs)

RECURSIVE Eval(_, _)
Eval(e, row) == EvalNode(e, row, [i \in DOMAIN e.args |-> Eval(e.args[i], row)])
=============================================================================
