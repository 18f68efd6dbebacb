------------------------------- MODULE Texts --------------------------------
(***************************************************************************)
(* Values to text and back: concat_str and the text arms of the casts      *)
(* (query/expression), and the dates, times and intervals of               *)
(* storage/temporal.rs.  The Rust, chrono, uuid and serde_json conversions *)
(* they call are external.  A date is the numeral of its day, an instant   *)
(* or a time the numeral of its seconds, an interval of one unit a numeral *)
(* and the unit's letter, a JSON document an integer.                      *)
(***************************************************************************)
EXTENDS Values

Sec == Ten         \* ticks of a second

\* UTF-8 (external).
Utf8(s) == FlattenSeq([i \in DOMAIN s |-> IF s[i] < Wide THEN <<s[i]>> ELSE <<s[i], 0>>])
FromUtf8(bytes) ==
    LET lead == SelectSeq([i \in DOMAIN bytes |-> i],
                          LAMBDA i : i = 1 \/ bytes[i - 1] < Wide)
    IN  [i \in DOMAIN lead |-> bytes[lead[i]]]

\* The digits of n >= 0, most significant first: `width` of them, or no more
\* than it needs.
Digits(n, width) == [i \in 1 .. width |-> (n \div Ten ^ (width - i)) % Ten]
DigitsOf(n) == Digits(n, Min({k \in 1 .. 15 : Ten ^ k > n}))

Chars(digits) == [i \in DOMAIN digits |-> Ch.zero + digits[i]]
Sign(negative) == IF negative THEN <<Ch.minus>> ELSE << >>

\* to_string of an integer, of a decimal (which shows all of its scale) and
\* of a float.
IntText(n) == Sign(n < 0) \o Chars(DigitsOf(Abs(n)))
DecimalText(d) ==
    LET one == Ten ^ d[2]
    IN  Sign(d[1] < 0) \o Chars(DigitsOf(Abs(d[1]) \div one))
            \o (IF d[2] = 0 THEN << >>
                ELSE <<Ch.dot>> \o Chars(Digits(Abs(d[1]) % one, d[2])))
FloatText(f) ==
    CASE f[2] = NaN -> <<Ch.n, Ch.a, Ch.n>>
      [] f[2] = Inf -> Sign(f[1] = 1) \o <<Ch.i, Ch.n, Ch.f>>
      [] OTHER      -> Sign(f[1] = 1) \o DecimalText(Normalized(<<f[2], FloatPlaces>>))

\* A numeral: sign, digits and a point; ok is FALSE for any other text.
Numeral(neg, digits, dots, len) ==
    LET value == FoldLeft(LAMBDA n, c : n * Ten + (c - Ch.zero), 0, digits)
        isNum == /\ digits # << >>
                 /\ Cardinality(dots) <= 1
                 /\ \A i \in DOMAIN digits : digits[i] \in Ch.zero .. Ch.zero + Ten - 1
    IN  [ok    |-> isNum,
         neg   |-> neg,
         whole |-> dots = {},
         m     |-> IF isNum THEN (IF neg THEN -1 ELSE 1) * value ELSE 0,
         s     |-> IF dots = {} THEN 0 ELSE len - Min(dots)]

Number(s) ==
    LET unsigned(body, neg) ==
            Numeral(neg, SelectSeq(body, LAMBDA c : c # Ch.dot),
                    {i \in DOMAIN body : body[i] = Ch.dot}, Len(body))
        signed == s # << >> /\ Head(s) \in {Ch.plus, Ch.minus}
    IN  unsigned(IF signed THEN Tail(s) ELSE s, signed /\ Head(s) = Ch.minus)

\* Without the characters of `set` at the front, at the back.
Strip(s, set, leading, trailing) ==
    LET within(kept) ==
            SubSeq(s, IF leading THEN Min(kept \union {Len(s) + 1}) ELSE 1,
                      IF trailing THEN Max(kept \union {0}) ELSE Len(s))
    IN  within({i \in DOMAIN s : s[i] \notin set})

Trimmed(s) == Strip(s, {Ch.space}, TRUE, TRUE)

\* str::parse to an i64, an f64 and a Decimal; an Error if it fails.
ParseI64(s) ==
    LET int(n) == IF n.ok /\ n.whole /\ Fits(n.m, "Int64") THEN Int64(n.m) ELSE TypeError
    IN  int(Number(s))
ParseF64(s) ==
    LET float(n) ==
            IF n.ok THEN Val("Float64", <<IF n.neg THEN 1 ELSE 0,
                                          RoundTo(FloatOne * Abs(n.m), Ten ^ n.s, "Float64")>>)
            ELSE TypeError
    IN  CASE s = <<Ch.i, Ch.n, Ch.f>>           -> Val("Float64", <<0, Inf>>)
          [] s = <<Ch.minus, Ch.i, Ch.n, Ch.f>> -> Val("Float64", <<1, Inf>>)
          [] s = <<Ch.n, Ch.a, Ch.n>>           -> Val("Float64", <<0, NaN>>)
          [] OTHER                              -> float(Number(s))
ParseDecimal(s) ==
    LET decimal(d) == IF d = << >> THEN TypeError ELSE Val("Numeric", d)
        fit(n)     == IF n.ok THEN decimal(Fit(n.m, n.s)) ELSE TypeError
    IN  fit(Number(s))
-----------------------------------------------------------------------------
(* storage/temporal.rs: the range of a time and of a date is the library's *)
(* (NaiveTime, NaiveDate), and keeps a date's instant an i64.              *)

MaxDay == MaxOf("Int64") \div Day

ParseDate(s) ==
    LET date(n) == IF n.ok /\ n.whole /\ Abs(n.m) <= MaxDay THEN Val("Date", <<n.m>>)
                   ELSE TypeError
    IN  date(Number(s))

\* A number of seconds with at most one digit behind the point, in ticks; the
\* text is trimmed.
Instant(t, s, range) ==
    LET ticks(n) == IF n.s = 1 THEN n.m ELSE n.m * Sec
        of(n)    == IF n.ok /\ n.s <= 1 /\ ticks(n) \in range THEN Val(t, <<ticks(n)>>)
                    ELSE TypeError
    IN  of(Number(Trimmed(s)))

ParseTimestamptz(s) == Instant("Timestamp", s, -(MaxDay * Day) .. MaxDay * Day)
ParseTime(s)        == Instant("Time", s, 0 .. Day - 1)

\* The seconds are shown, what is below a second is not.
FormatSeconds(ticks) == IntText(ticks \div Sec)

ParseInterval(s) ==
    LET amount(n, unit) ==
            IF ~(n.ok /\ n.whole /\ Fits(n.m, "Int32")) THEN TypeError
            ELSE CASE unit = Ch.m -> Val("Interval", <<n.m, 0, 0>>)
                   [] unit = Ch.d -> Val("Interval", <<0, n.m, 0>>)
                   [] unit = Ch.s -> Val("Interval", <<0, 0, n.m * Sec>>)
                   [] OTHER       -> TypeError
        of(text) == IF text = << >> THEN TypeError ELSE amount(Number(Front(text)), Last(text))
    IN  of(Trimmed(s))

FormatInterval(v) ==
    IF v[1] # 0 THEN Append(IntText(v[1]), Ch.m)
    ELSE IF v[2] # 0 THEN Append(IntText(v[2]), Ch.d)
    ELSE Append(FormatSeconds(v[3]), Ch.s)
-----------------------------------------------------------------------------
(* Bytes and UUIDs as hexadecimal, a fixed number of digits for a byte.    *)

HexWidth == Min({k \in 1 .. Bits : Ten ^ k >= Radix})

Hex(bytes) == FlattenSeq([i \in DOMAIN bytes |-> Chars(Digits(bytes[i], HexWidth))])

UuidLen == 2

ParseUuid(s) ==
    LET uuid(bytes) ==
            IF \A i \in DOMAIN bytes : bytes[i].ok /\ bytes[i].m \in 0 .. Radix - 1
            THEN Val("Uuid", [i \in DOMAIN bytes |-> bytes[i].m]) ELSE TypeError
        of(text) ==
            IF Len(text) # UuidLen * HexWidth THEN TypeError
            ELSE uuid([i \in 1 .. UuidLen |->
                          Number(SubSeq(text, (i - 1) * HexWidth + 1, i * HexWidth))])
    IN  of(Trimmed(s))

\* serde_json::from_str.
ParseJson(s) ==
    LET json(n) == IF n.ok /\ n.whole THEN Val("Json", IntText(n.m)) ELSE TypeError
    IN  json(Number(Trimmed(s)))
-----------------------------------------------------------------------------
(* concat_str: the text of a value, or an error.                           *)

Joined(texts) ==
    FoldLeft(LAMBDA s, i : IF i = 1 THEN texts[i] ELSE s \o <<Ch.comma>> \o texts[i],
             << >>, [i \in DOMAIN texts |-> i])

RECURSIVE ConcatStr(_)
ConcatStr(x) ==
    CASE x.t = "Null"                  -> Text(<< >>)
      [] x.t = "Bool"                  -> Text(IF IsTrue(x) THEN <<Ch.t>> ELSE <<Ch.f>>)
      [] IsInt(x)                      -> Text(IntText(x.v[1]))
      [] x.t \in Floats                -> Text(FloatText(x.v))
      [] x.t = "Numeric"               -> Text(DecimalText(x.v))
      [] x.t = "Text"                  -> x
      [] x.t = "Date"                  -> Text(IntText(x.v[1]))
      [] x.t \in {"Timestamp", "Time"} -> Text(FormatSeconds(x.v[1]))
      [] x.t = "Uuid"                  -> Text(Hex(x.v))
      [] x.t = "Interval"              -> Text(FormatInterval(x.v))
      [] x.t = "Array"                 ->
            LET list(parts) ==
                    IF \E i \in DOMAIN parts : IsError(parts[i]) THEN TypeError
                    ELSE Text(<<Ch.open>> \o Joined([i \in DOMAIN parts |-> parts[i].v])
                                  \o <<Ch.close>>)
            IN  list([i \in DOMAIN x.els |-> ConcatStr(x.els[i])])
      [] x.t \in {"Bytes", "Json"}     -> TypeError
=============================================================================
