------------------------------- MODULE Values -------------------------------
(***************************************************************************)
(* The runtime values of crates/strata-db (storage/types.rs) and how they  *)
(* compare (query/expression/mod.rs).                                      *)
(*                                                                         *)
(* A value is a record: t, its type; v, its content as a sequence of       *)
(* numbers; els, the elements of an array.  The content is                 *)
(*                                                                         *)
(*     Bool, integers, Date, Timestamp, Time    <<n>>                      *)
(*     Float32, Float64      <<sign, magnitude in units of 1/FloatOne>>    *)
(*     Numeric               <<mantissa, scale>>                           *)
(*     Interval              <<months, days, micros>>                      *)
(*     Text, Json            the codes of its characters                   *)
(*     Bytes, Uuid           its bytes                                     *)
(*                                                                         *)
(* Sizes are scaled down and keep their proportions: a byte has Bits bits, *)
(* the integer types one, two and three bytes, a float a few bits of       *)
(* significand, a numeral the base Ten, a day a few ticks.  A float goes   *)
(* beyond the largest decimal, which is beyond the integers, and below the *)
(* last digit of a decimal.                                                *)
(***************************************************************************)
EXTENDS ByteStrings, SequencesExt

CONSTANTS Bits,      \* bits of a byte
          Ten,       \* the base of numerals; a power of two
          Day        \* MICROS_PER_DAY

ASSUME ValuesAssumption == Bits \in Nat \ {0} /\ Ten \in {2, 4} /\ Day \in Nat \ {0}

Radix == 2 ^ Bits

Val(t, v) == [t |-> t, v |-> v, els |-> << >>]

Null        == Val("Null", << >>)
Bool(b)     == Val("Bool", <<IF b THEN 1 ELSE 0>>)
Int64(n)    == Val("Int64", <<n>>)
Text(s)     == Val("Text", s)
Array(els)  == [t |-> "Array", v |-> << >>, els |-> els]

\* A QueryError in the place of a value: its variant.
Error(kind)   == Val("Error", <<kind>>)
TypeError     == Error(1)
InternalError == Error(2)
Unsupported   == Error(3)
CodecError    == Error(4)
CatalogError  == Error(5)

IsNull(x)  == x.t = "Null"
IsError(x) == x.t = "Error"
IsTrue(x)  == x = Bool(TRUE)

\* The characters the model needs; one of Wide or above takes two bytes.
Ch == [space |-> 0, percent |-> 1, plus |-> 2, minus |-> 3, dot |-> 4, zero |-> 5,
       A |-> 9, underscore |-> 10, a |-> 11, d |-> 12, f |-> 13, i |-> 14,
       m |-> 15, n |-> 16, s |-> 17, t |-> 18, x |-> 19, comma |-> 20,
       open |-> 21, close |-> 22, AAcute |-> 30, aAcute |-> 31]

Wide == 30
-----------------------------------------------------------------------------
(* Integers.                                                               *)

Ints == {"Int16", "Int32", "Int64"}

IntWidth(t) == CASE t = "Int16" -> 1 [] t = "Int32" -> 2 [] t = "Int64" -> 3

MaxOf(t) == 2 ^ (Bits * IntWidth(t) - 1) - 1
Fits(n, t) == n \in -MaxOf(t) - 1 .. MaxOf(t)

Abs(n)    == IF n < 0 THEN -n ELSE n
Signum(n) == IF n < 0 THEN -1 ELSE IF n > 0 THEN 1 ELSE 0

\* n / d rounded to the nearest integer, a tie to the even one or away from 0.
NearestEven(n, d) ==
    LET up(q, r) == r > d \/ (r = d /\ q % 2 = 1)
        near(m)  == m \div d + (IF up(m \div d, 2 * (m % d)) THEN 1 ELSE 0)
    IN  Signum(n) * near(Abs(n))
NearestAway(n, d) == Signum(n) * ((2 * Abs(n) + d) \div (2 * d))

\* Truncation toward zero: the / and % of Rust.
Quotient(a, b)  == Signum(a) * Signum(b) * (Abs(a) \div Abs(b))
Remainder(a, b) == a - b * Quotient(a, b)
-----------------------------------------------------------------------------
(* Floats (IEEE-754, external): a magnitude is a significand below `sig`   *)
(* times 2^e, e up to `emax`, or one of two above them.                    *)

Floats == {"Float32", "Float64"}

Format(t) == [sig |-> IF t = "Float32" THEN 8 ELSE 16, emax |-> 20]
FloatPlaces == 3
FloatOne == Ten ^ FloatPlaces
Inf == 2 ^ 24
NaN == 2 ^ 24 + 1

Exponents(mag, fmt) == {e \in 0 .. fmt.emax : mag < fmt.sig * 2 ^ e}

\* The float of type t nearest to n / d, for n >= 0.
RoundTo(n, d, t) ==
    LET scaled(q, e, fmt) == IF e = fmt.emax /\ q = fmt.sig THEN Inf ELSE q * 2 ^ e
        at(e, fmt)        == scaled(NearestEven(n, d * 2 ^ e), e, fmt)
        among(exps, fmt)  == IF exps = {} THEN Inf ELSE at(Min(exps), fmt)
    IN  among(Exponents(n \div d, Format(t)), Format(t))

\* A magnitude stays what it is beyond the finite ones.
Narrow(f, t) == <<f[1], IF f[2] >= Inf THEN f[2] ELSE RoundTo(f[2], 1, t)>>

Float(n, d, t) == <<IF n < 0 THEN 1 ELSE 0, RoundTo(Abs(n), d, t)>>

\* Where a float is in the order of total_cmp.
FloatRank(f) == IF f[1] = 1 THEN -f[2] - 1 ELSE f[2]
-----------------------------------------------------------------------------
(* Numerics (rust_decimal, external): mantissa / Ten^scale.                *)

MaxMantissa == Ten ^ 8 - 1
MaxScale    == 2

\* An exact result brought into range by rounding digits off; << >>: None.
Fit(m, s) ==
    LET shorter(k) == <<NearestEven(m, Ten ^ k), s - k>>
        fits       == {k \in 0 .. s : /\ s - k <= MaxScale
                                      /\ Abs(shorter(k)[1]) <= MaxMantissa}
        first(ks)  == IF ks = {} THEN << >> ELSE shorter(Min(ks))
    IN  first(fits)

\* Both mantissas at the larger scale.
Aligned(a, b) ==
    LET at(s) == <<a[1] * Ten ^ (s - a[2]), b[1] * Ten ^ (s - b[2]), s>>
    IN  at(Max({a[2], b[2]}))

\* normalize: no trailing zeros.
Normalized(d) ==
    LET without(k) == <<d[1] \div Ten ^ k, d[2] - k>>
    IN  without(Max({j \in 0 .. d[2] : d[1] % Ten ^ j = 0}))
-----------------------------------------------------------------------------
(* as_i64, as_decimal and as_f64 and where they give Some.                 *)

IsInt(x)    == x.t \in Ints
IsExact(x)  == IsInt(x) \/ x.t = "Numeric"
IsNumber(x) == IsExact(x) \/ x.t \in Floats

AsI64(x)     == x.v[1]
AsDecimal(x) == IF IsInt(x) THEN <<x.v[1], 0>> ELSE x.v
AsF64(x) ==
    IF x.t \in Floats THEN x.v
    ELSE LET float(d) == Float(FloatOne * d[1], Ten ^ d[2], "Float64") IN float(AsDecimal(x))

\* Interval::to_micros: a month is 30 days.
ToMicros(x) == (x.v[1] * 30 + x.v[2]) * Day + x.v[3]

RECURSIVE ValuesEq(_, _)
ValuesEq(a, b) ==
    IF IsInt(a) /\ IsInt(b) THEN AsI64(a) = AsI64(b)
    ELSE IF IsExact(a) /\ IsExact(b)
         THEN LET same(m) == m[1] = m[2] IN same(Aligned(AsDecimal(a), AsDecimal(b)))
    ELSE IF IsNumber(a) /\ IsNumber(b) THEN AsF64(a) = AsF64(b)
    ELSE IF a.t = "Interval" /\ b.t = "Interval" THEN ToMicros(a) = ToMicros(b)
    ELSE IF a.t = "Array" /\ b.t = "Array"
         THEN /\ Len(a.els) = Len(b.els)
              /\ \A i \in DOMAIN a.els : ValuesEq(a.els[i], b.els[i])
    ELSE a = b

\* The outcome of a comparison that is a type error.
Incomparable == 2

Lexicographic(a, b) == IF a = b THEN 0 ELSE IF LexLess(a, b) THEN -1 ELSE 1

RECURSIVE CmpValues(_, _)
CmpValues(a, b) ==
    IF IsInt(a) /\ IsInt(b) THEN Signum(AsI64(a) - AsI64(b))
    ELSE IF IsExact(a) /\ IsExact(b)
         THEN LET order(m) == Signum(m[1] - m[2]) IN order(Aligned(AsDecimal(a), AsDecimal(b)))
    ELSE IF IsNumber(a) /\ IsNumber(b)
         THEN Signum(FloatRank(AsF64(a)) - FloatRank(AsF64(b)))
    ELSE IF a.t # b.t THEN Incomparable
    ELSE IF a.t \in {"Bool", "Text", "Date", "Timestamp", "Time", "Uuid"}
         THEN Lexicographic(a.v, b.v)
    ELSE IF a.t = "Interval" THEN Signum(ToMicros(a) - ToMicros(b))
    ELSE IF a.t = "Array"
         THEN LET both == 1 .. Min({Len(a.els), Len(b.els)})
                  cmp(i) == CmpValues(a.els[i], b.els[i])
                  diff == {i \in both : cmp(i) # 0}
              IN  IF diff = {} THEN Signum(Len(a.els) - Len(b.els)) ELSE cmp(Min(diff))
    ELSE Incomparable
=============================================================================
