-------------------------------- MODULE MCSql -------------------------------
(***************************************************************************)
(* Sessions for TLC.  A script is about one part of the language: what is  *)
(* stored, what a query returns, or the value of an expression over the    *)
(* columns x and y of one row.                                             *)
(***************************************************************************)
EXTENDS Answers

(* Parsed statements.                                                      *)

Id(name)          == [Ast("Identifier", "", << >>) EXCEPT !.name = <<name>>]
Of(rel, name)     == [Ast("Compound", "", << >>) EXCEPT !.name = <<rel, name>>]
Lit(x)            == [Ast("Value", "", << >>) EXCEPT !.val = x]
Num(s)            == [Ast("Value", "Number", << >>) EXCEPT !.val = Text(s)]
Str(s)            == Lit(Text(s))
NullLit           == Lit(Null)
Op(fn, a, b)      == Ast("BinaryOp", fn, <<a, b>>)
Fn(name, args)    == [Ast("Function", "", args) EXCEPT !.name = <<name>>]
As(e, ty)         == [Ast("Cast", "", <<e>>) EXCEPT !.ty = ty]
Star              == Ast("Wildcard", "", << >>)
D(n)              == Ch.zero + n
N(n)              == IF n < 0 THEN Ast("UnaryOp", "Minus", <<Num(IntText(-n))>>) ELSE Num(IntText(n))

Col(name, ty)         == [name |-> name, ty |-> ty, options |-> << >>]
Option(op, expr)      == [op |-> op, expr |-> expr]
NotNullCol(name, ty)  == [Col(name, ty) EXCEPT !.options = <<Option("NotNull", << >>)>>]
DefaultCol(name, ty, e) == [Col(name, ty) EXCEPT !.options = <<Option("Default", <<e>>)>>]

Table(name, cols)  == [kind |-> "CreateTable", name |-> name, cols |-> cols, rest |-> FALSE,
                       orReplace |-> FALSE]
Rel(name)          == [name |-> <<name>>, alias |-> "", join |-> "", on |-> << >>, rest |-> FALSE]
Joined2(name, join, on) == [Rel(name) EXCEPT !.join = join, !.on = on]
InsertInto(name, cols, rows) == [kind |-> "Insert", name |-> name, cols |-> cols, rows |-> rows, rest |-> FALSE]
From(from)         == [items |-> <<Star>>, from |-> from, where |-> << >>, order |-> << >>,
                       limit |-> << >>, offset |-> << >>, rest |-> FALSE]
By(expr, dir, nulls) == [expr |-> expr, dir |-> dir, nulls |-> nulls]
-----------------------------------------------------------------------------
(* Stored rows: the primary key is of every type, the row has a nullable   *)
(* column and one with a DEFAULT.                                          *)

Decimal10(neg, m, s) == Sign(neg) \o DecimalText(<<m, s>>)

\* Literals and casts for the primary key, by its SQL type.
KeyExprs ==
    [SmallInt |-> {N(0), N(-1), N(3), N(15), N(16)},
     BigInt   |-> {N(0), N(-1), N(40), N(-40)},
     Double   |-> {Num(<<Ch.zero, Ch.dot, Ch.zero + 2>>), N(-1), N(-2), N(3),
                   As(Str(<<Ch.n, Ch.a, Ch.n>>), <<"Double">>)},
     Real     |-> {N(-9), N(-2), N(0), N(9), Ast("UnaryOp", "Minus", <<Num(<<Ch.zero, Ch.dot, Ch.zero>>)>>)},
     Numeric  |-> {As(Str(Decimal10(n, m, s)), <<"Numeric">>) :
                      n \in BOOLEAN, m \in {0, 4, 5, 20}, s \in {0, 2}},
     Text     |-> {Str(<< >>), Str(<<Ch.a>>), Str(<<Ch.a, Ch.aAcute>>), Str(<<Ch.a, Ch.a, Ch.a, Ch.a>>),
                   NullLit, N(1)},
     Boolean  |-> {Lit(Bool(TRUE)), Lit(Bool(FALSE))},
     Interval |-> {As(Str(<<Ch.zero + 1, Ch.m>>), <<"Interval">>),
                   As(Str(<<Ch.zero + 1, Ch.zero + 3, Ch.zero + 2, Ch.d>>), <<"Interval">>),
                   As(Str(<<Ch.minus, Ch.zero + 1, Ch.d>>), <<"Interval">>)}]

KeyTable(ty) ==
    Table(<<"t">>, <<Col("k", <<ty>>), Col("b", <<"Boolean">>), NotNullCol("n", <<"Int">>),
                     DefaultCol("d", <<"BigInt">>, Op("Add", N(1), N(1))),
                     Col("e", <<"Text">>), Col("f", <<"Real">>)>>)

KeyScript(ty) ==
    [ddl     |-> <<KeyTable(ty)>>,
     inserts |-> {InsertInto(<<"t">>, << >>, <<<<k, NullLit, N(1)>>>>) : k \in KeyExprs[ty]}
                   \union {InsertInto(<<"public", "t">>, <<<<"n">>, <<"k">>, <<"f">>>>, <<<<N(2), k, N(33)>>>>) :
                             k \in KeyExprs[ty]},
     queries |-> {From(<<<<Rel("t")>>>>)},
     most    |-> 2]

-----------------------------------------------------------------------------
(* Definitions: datasets, replaced tables, DEFAULTs, arrays, refusals.     *)

Schema(name, ifNotExists) ==
    [kind |-> "CreateSchema", name |-> name, rest |-> FALSE, ifNotExists |-> ifNotExists]
Replace(table)  == [table EXCEPT !.orReplace = TRUE]
OtherStmt       == [kind |-> "Other"]

\* 10 ^ 400 in SQL: a float literal beyond the floats.
Huge == Num([i \in 1 .. 9 |-> Ch.zero + 3])

U     == Table(<<"u">>, <<Col("k", <<"Array", "Int">>), DefaultCol("d", <<"Real">>, Huge), Col("e", <<"Bytea">>)>>)
Other == Table(<<"s", "u">>, <<Col("k", <<"Uuid">>), Col("z", <<"Timestamp", "Tz">>),
                               DefaultCol("j", <<"Double">>, N(3)), NotNullCol("i", <<"Time">>)>>)

DefineScript ==
    [ddl |-> <<Schema(<<"s">>, FALSE), Schema(<<"s">>, FALSE), Schema(<<"strata", "s">>, TRUE),
               Schema(<<"other", "s">>, FALSE), Schema(<<"x", "y", "z">>, FALSE),
               Table(<<"none", "u">>, U.cols), Table(<<"v">>, << >>), Table(<<"v">>, <<Col("k", <<"Char">>)>>),
               Table(<<"v">>, <<[Col("k", <<"Int">>) EXCEPT !.options = <<Option("Other", << >>)>>]>>),
               Table(<<"v">>, <<DefaultCol("k", <<"Int">>, Id("k"))>>),
               Table(<<"v">>, <<Col("k", <<"Array", "Array">>)>>),
               U, U, Other, OtherStmt>>,
     inserts |->
        {Replace(U), Replace(Table(<<"u">>, <<Col("k", <<"Array", "Text">>), Col("d", <<"Float", "Short">>)>>)),
         InsertInto(<<"u">>, << >>, <<<<Ast("Array", "", <<N(1), N(2)>>), N(1)>>>>),
         InsertInto(<<"u">>, << >>, <<<<Ast("Array", "", <<N(1)>>)>>>>),
         InsertInto(<<"u">>, << >>, <<<<Ast("Array", "", <<Str(<<Ch.a>>), N(1)>>), N(1)>>>>),
         InsertInto(<<"u">>, <<<<"d">>, <<"k">>>>, <<<<N(2), Ast("Array", "", << >>)>>,
                                                     <<N(3), Ast("Array", "", <<N(1), N(3)>>)>>>>),
         InsertInto(<<"u">>, <<<<"d">>, <<"d">>>>, <<<<N(2), N(1)>>>>),
         InsertInto(<<"u">>, <<<<"w">>>>, <<<<N(2)>>>>),
         InsertInto(<<"u">>, << >>, <<<<N(1), N(1), NullLit, N(1)>>>>),
         InsertInto(<<"none">>, << >>, <<<<N(1)>>>>),
         InsertInto(<<"s", "u">>, << >>,
             <<<<As(Str(<<D(1), D(0), D(3), D(0), D(2), D(2)>>), <<"Uuid">>),
                 As(Str(<<Ch.minus, D(3)>>), <<"Timestamp", "Tz">>), NullLit,
                 As(Str(<<D(1)>>), <<"Time">>)>>>>),
         InsertInto(<<"s", "u">>, <<<<"k">>, <<"i">>>>,
             <<<<As(Str(<<D(1), D(0), D(1), D(0), D(2), D(2)>>), <<"Uuid">>),
                 [Ast("TypedString", "", << >>) EXCEPT !.ty = <<"Time">>, !.val = Text(<<D(1)>>)]>>>>),
         InsertInto(<<"s", "u">>, <<<<"k">>>>, <<<<NullLit>>>>)},
     queries |-> {From(<<<<[Rel("u") EXCEPT !.name = n]>>>>) :
                     n \in {<<"u">>, <<"s", "u">>, <<"strata", "s", "u">>, <<"a", "b", "c", "u">>}},
     most    |-> 3]
-----------------------------------------------------------------------------
(* Queries over two tables; k and s may be NULL.                           *)

RowOf(id, k, s) == <<N(id), k, s>>
Sa == Str(<<Ch.a>>)
Sb == Str(<<Ch.a, Ch.n>>)

QueryTables ==
    <<Table(<<"a">>, <<NotNullCol("id", <<"Int">>), Col("k", <<"SmallInt">>), Col("s", <<"Text">>)>>),
      Table(<<"b">>, <<NotNullCol("id", <<"Int">>), Col("k", <<"Numeric">>), Col("s", <<"Text">>)>>)>>

QueryInserts ==
    {InsertInto(<<"a">>, << >>, rows) : rows \in
        {<<RowOf(1, N(1), Sa), RowOf(2, N(2), Sb), RowOf(3, N(1), NullLit)>>,
         <<RowOf(2, N(2), NullLit), RowOf(3, NullLit, Sa)>>,
         <<RowOf(1, N(3), Sb), RowOf(2, N(0), Str(<<Ch.a, Ch.a, Ch.a, Ch.a>>)), RowOf(4, N(3), Sa)>>}}
      \union
    {InsertInto(<<"b">>, << >>, rows) : rows \in
        {<<RowOf(1, N(2), Sa), RowOf(2, N(1), Sb), RowOf(3, N(1), Sa)>>,
         <<RowOf(1, NullLit, Sa), RowOf(5, N(3), NullLit)>>}}

Ak == Of("a", "k")
Bk == Of("b", "k")
OnKeys == <<Op("Eq", Ak, Bk)>>

Where(q, e)  == [q EXCEPT !.where = <<e>>]
Order(q, o)  == [q EXCEPT !.order = o]
Page(q, limit, offset) == [q EXCEPT !.limit = limit, !.offset = offset]
Pick(q, items) == [q EXCEPT !.items = items]

A        == From(<<<<Rel("a")>>>>)
Join(join, on) == From(<<<<Rel("a"), Joined2("b", join, on)>>>>)

QuerySet ==
    {Join(join, on) : join \in JoinTypes, on \in {OnKeys, <<Op("Lt", Bk, Ak)>>}}
      \union {Join("Inner", on) : on \in {<< >>, <<Op("Eq", Bk, Ak)>>, <<Op("Eq", Ak, Of("b", "s"))>>,
                                         <<Op("Eq", Of("a", "id"), Ak)>>, <<Lit(Bool(FALSE))>>}}
      \union {Join("Left", <<Op("And", Op("Eq", Ak, Bk), Op("Eq", Of("a", "s"), Of("b", "s")))>>),
               Join("Natural", << >>), Join("Full", <<Op("Div", N(1), Ak)>>),
               From(<<<<Rel("a")>>, <<Rel("b")>>>>),
               From(<<<<Rel("a"), Joined2("b", "Inner", OnKeys)>>, <<[Rel("a") EXCEPT !.alias = "c"]>>>>),
               From(<<<<[Rel("a") EXCEPT !.alias = "c"], Joined2("a", "Inner", <<Op("Eq", Of("c", "k"), Ak)>>)>>>>)}
      \union {Order(A, <<By(Id("k"), d, n)>>) : d \in {"", "Asc", "Desc"}, n \in {"", "First", "Last"}}
      \union {Order(Where(Join("Left", OnKeys), Op("GtEq", Of("a", "id"), N(2))),
                     <<By(Of("b", "s"), d, ""), By(Ak, "Desc", "Last")>>) : d \in {"Asc", "Desc"}}
      \union {Page(Order(A, <<By(Id("s"), "", ""), By(Id("id"), "Desc", "")>>), l, o) :
                  l \in {<< >>, <<N(1)>>, <<N(0)>>}, o \in {<< >>, <<N(1)>>, <<N(5)>>}}
      \union {Page(A, <<N(-1)>>, << >>), Page(A, << >>, <<Id("k")>>), Page(A, <<Sa>>, <<N(1)>>)}
      \union {Where(A, e) : e \in {Ast("IsNull", "", <<Id("s")>>), Op("Gt", Op("Div", N(2), Id("k")), N(0)),
                                    Id("none"), Of("b", "k"), Id("k"), Op("Eq", Id("s"), Sa)}}
      \union {Pick(A, <<Op("Add", Id("k"), Id("id")), Star>>), Pick(A, <<Op("Div", N(1), Id("k"))>>),
               Pick(Join("Inner", OnKeys), <<Id("k")>>), Pick(Join("Cross", << >>), <<Bk, Of("a", "s")>>),
               Pick(From(<< >>), <<N(1), Sa>>), From(<<<<Rel("none")>>>>), [A EXCEPT !.rest = TRUE],
               Order(A, <<By(Op("Div", N(1), Id("k")), "", "")>>), Page(Where(A, Op("Gt", Op("Div", N(2), Id("k")), N(0))), <<N(1)>>, << >>)}

QueryScript ==
    [ddl |-> QueryTables, inserts |-> QueryInserts, queries |-> QuerySet, most |-> 2]
-----------------------------------------------------------------------------
(* Expressions over one row.                                               *)

ProbeScript(tx, xs, ty, ys, exprs) ==
    [ddl     |-> <<Table(<<"v">>, <<NotNullCol("id", <<"Int">>), Col("x", tx), Col("y", ty)>>)>>,
     inserts |-> {InsertInto(<<"v">>, << >>, <<<<N(1), x, y>>>>) : x \in xs, y \in ys},
     queries |-> {[From(<<<<Rel("v")>>>>) EXCEPT !.items = <<e>>] : e \in exprs},
     most    |-> 1]

X == Id("x")
Y == Id("y")

Numbers ==
    [SmallInt |-> {NullLit, N(0), N(-3), N(15), Op("Sub", N(-15), N(1))},
     BigInt   |-> {N(0), N(-1), N(6), N(127), N(MaxOf("Int64")), Op("Sub", N(-MaxOf("Int64")), N(1))},
     Numeric  |-> {NullLit} \union {As(Str(Decimal10(FALSE, m, s)), <<"Numeric">>) :
                     m \in {0, 6, 255}, s \in {0, 1, 2}} \union {As(N(-7), <<"Numeric">>)},
     Double   |-> {NullLit, N(0), N(-3), Num(<<Ch.zero + 1, Ch.dot, Ch.zero + 2>>), N(17), N(16000),
                   Num(<<D(0), Ch.dot, D(0), D(0), D(1)>>), Num(IntText(100000)), Huge, As(Str(<<Ch.n, Ch.a, Ch.n>>), <<"Double">>),
                   Ast("UnaryOp", "Minus", <<Num(<<Ch.zero, Ch.dot, Ch.zero>>)>>)},
     Real     |-> {N(0), N(9), N(-1), N(1000)},
     Text     |-> {Str(<<Ch.zero + 1>>)}]

NumberExprs ==
    {Op(fn, X, Y) : fn \in Arithmetic \union Comparisons \union {"Eq", "NotEq"}}
      \union {As(X, <<t>>) : t \in {"SmallInt", "Int", "BigInt", "Real", "Double", "Numeric"}}
      \union {Ast("UnaryOp", "Minus", <<X>>), Ast("Ceil", "", <<X>>), Ast("Floor", "", <<X>>),
               Fn("ABS", <<X>>), Fn("ROUND", <<X>>)}

NumberScript(tx, ty) == ProbeScript(<<tx>>, Numbers[tx], <<ty>>, Numbers[ty], NumberExprs)

(* Conditions and choices over integers and booleans that may be NULL.     *)

Truths   == {NullLit, Lit(Bool(TRUE)), Lit(Bool(FALSE))}
Smalls   == {NullLit, N(0), N(1), N(2)}
Not(e)   == Ast("UnaryOp", "Not", <<e>>)
In(fn, args)      == Ast("InList", fn, args)
Between(fn, args) == Ast("Between", fn, args)
Case(fn, args)    == Ast("Case", fn, args)

BoolExprs ==
    {Op(fn, X, Y) : fn \in {"And", "Or"}} \union {Op(fn, Not(X), Y) : fn \in {"And", "Or"}}
      \union {Not(Op(fn, X, Not(Y))) : fn \in {"And", "Or"}}
      \union {Op("Or", X, Not(X)), Op("And", X, Ast("Nested", "", <<Op("Or", Y, X)>>)),
               Ast("IsNull", "", <<Op("And", X, Y)>>), Ast("IsNull", "Not", <<X>>),
               Case("", <<X, N(1), Y, N(2)>>), Case("", <<Not(X), N(1), Y, N(2), N(3)>>)}

\* A division that fails on 0 and on NULL does not.
Failing == Op("Div", X, Y)

ChoiceExprs ==
    {Op(fn, X, Y) : fn \in Comparisons \union {"Eq", "NotEq"}}
      \union {Op("And", Op("Lt", X, N(1)), Op("Eq", Y, N(1))), Not(Op("LtEq", X, Y))}
      \union {f : f \in {In(fn, <<X, Y, N(1)>>) : fn \in {"", "Not"}}}
      \union {In("", <<X>>), In("Not", <<X, N(2), N(0), Y>>)}
      \union {Between(fn, <<X, N(1), Y>>) : fn \in {"", "Not"}}
      \union {Between("", <<N(1), X, Y>>), Between("Not", <<N(1), X, Y>>)}
      \union {Case("", <<Op("Eq", Y, N(0)), NullLit, Failing>>),
               Case("Operand", <<X, Y, N(1), N(2), Failing>>),
               Case("Operand", <<X, Failing, N(1), N(3)>>)}
      \union {Fn("COALESCE", <<X, Failing>>), Fn("COALESCE", <<X, Y, N(2)>>), Fn("NULLIF", <<X, Y>>)}
      \union {Fn(f, <<X, N(1), Y>>) : f \in {"GREATEST", "LEAST", "MAX"}}
      \union {Fn("LEAST", <<X, Failing>>), Fn("MIN", <<X>>), Fn("NULLIF", <<X>>)}
-----------------------------------------------------------------------------
(* Text.                                                                   *)

Strings(chars, n) == {Str(s) : s \in UNION {[1 .. k -> chars] : k \in 0 .. n}}

LikeExprs    == {Ast("Like", fn, <<X, Y>>) : fn \in {"", "Not"}}
TrimExprs    == {Ast("Trim", fn, <<X, Y>>) : fn \in {"", "TrimLeading", "TrimTrailing"}}
                  \union {Ast("Trim", "", <<X>>), Fn("CONCAT", <<X, Y, X>>), Op("Concat", X, Y)}
IndexExprs   == {Ast("Substring", fn, <<X, Y>>) : fn \in {"From", "For"}}
                  \union {Ast("Substring", "Both", <<X, Y, N(n)>>) : n \in {-1, 2, MaxOf("Int64")}}
                  \union {Ast("Substring", "Both", <<X, N(n), Y>>) : n \in {0, 2}}
                  \union {Fn("REPEAT", <<X, Fn("LEAST", <<Y, N(3)>>)>>), Fn("LENGTH", <<X>>), Fn("UPPER", <<X>>),
                           Fn("LOWER", <<X>>), Fn("LENGTH", <<Y>>), Op("Concat", X, Y),
                           Ast("Like", "", <<X, Y>>), Fn("CONCAT", <<Y, X>>)}

LikeScript  == ProbeScript(<<"Text">>, Strings({Ch.a, Ch.percent}, 3), <<"Text">>,
                           {NullLit} \union Strings({Ch.a, Ch.percent, Ch.underscore}, 3), LikeExprs)
TrimScript  == ProbeScript(<<"Text">>, {NullLit} \union Strings({Ch.a, Ch.space}, 3), <<"Varchar">>,
                           {NullLit, Str(<< >>), Str(<<Ch.space>>), Str(<<Ch.a>>), Str(<<Ch.space, Ch.a>>)},
                           TrimExprs)
IndexScript == ProbeScript(<<"Text">>, {NullLit, Str(<< >>), Str(<<Ch.a, Ch.A>>), Str(<<Ch.a, Ch.AAcute>>)},
                           <<"BigInt">>, {NullLit} \union {N(n) : n \in -1 .. 3} \union {N(MaxOf("Int64"))},
                           IndexExprs)

\* There and back, for values of every type.
Typed(ty, texts) ==
    ProbeScript(ty, {Lit(Null)} \union {As(Str(s), ty) : s \in texts}, <<"Int">>, {N(1)},
                {As(As(X, <<"Text">>), ty), Fn("CONCAT", <<X>>)}
                  \union {As(X, t) : t \in {<<"Date">>, <<"Timestamp", "Tz">>, <<"Boolean">>}})

Instants == {<<D(1)>>, <<D(0)>>, <<D(1), Ch.dot, D(2)>>, <<Ch.minus, D(3)>>, <<D(2), D(0)>>, <<Ch.a>>}
-----------------------------------------------------------------------------
MCScripts ==
    {KeyScript("SmallInt"),
     KeyScript("BigInt"),
     KeyScript("Double"),
     KeyScript("Real"),
     KeyScript("Numeric"),
     KeyScript("Text"),
     KeyScript("Boolean"),
     KeyScript("Interval"),
     DefineScript,
     QueryScript,
     NumberScript("BigInt", "BigInt"),
     NumberScript("SmallInt", "BigInt"),
     NumberScript("Numeric", "Numeric"),
     NumberScript("BigInt", "Numeric"),
     NumberScript("Double", "BigInt"),
     NumberScript("Real", "Double"),
     NumberScript("Double", "Numeric"),
     NumberScript("BigInt", "Text"),
     ProbeScript(<<"Boolean">>, Truths, <<"Boolean">>, Truths, BoolExprs),
     ProbeScript(<<"Int">>, Smalls, <<"Int">>, Smalls, ChoiceExprs),
     LikeScript,
     TrimScript,
     IndexScript,
     Typed(<<"Date">>, Instants),
     Typed(<<"Timestamp", "Tz">>, Instants),
     Typed(<<"Time">>, Instants),
     Typed(<<"Numeric">>, Instants),
     Typed(<<"Double">>, Instants \union {<<Ch.minus, D(0)>>, <<Ch.minus, Ch.i, Ch.n, Ch.f>>}),
     Typed(<<"JSON">>, Instants),
     Typed(<<"Boolean">>, Instants \union {<<Ch.t>>, <<Ch.f>>}),
     Typed(<<"Uuid">>, {<<D(1), D(0), D(3), D(0), D(2), D(2)>>, <<D(1)>>}),
     Typed(<<"Bytea">>, {<<Ch.a, Ch.aAcute>>}),
     Typed(<<"Interval">>, {<<D(1), Ch.m>>, <<Ch.minus, D(2), Ch.d>>, <<D(3), Ch.s>>, <<D(1)>>})}
=============================================================================
