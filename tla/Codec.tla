------------------------------- MODULE Codec --------------------------------
(***************************************************************************)
(* The two encodings of crates/strata-db/src/storage/codec: ValueCodec,    *)
(* the bytes of a column in a row, and KeyCodec, the bytes of a storage or *)
(* sort key, whose order as byte strings is meant to be the order of the   *)
(* values; and Schema::encode and ::decode (catalog/schema.rs), which put  *)
(* a row together.  A type is <<name>>, or <<"Array", element>>.           *)
(***************************************************************************)
EXTENDS Texts

LenWidth  == 2     \* a u32
WideWidth == 5     \* an i128

\* Numbers as bytes; a negative one in two's complement.
LittleEndian(n, w) == [i \in 1 .. w |-> (n \div Radix ^ (i - 1)) % Radix]
Le(n, w)           == LittleEndian(n % Radix ^ w, w)
FromLe(bytes)      == FoldLeft(LAMBDA n, i : n + bytes[i] * Radix ^ (i - 1), 0,
                               [i \in DOMAIN bytes |-> i])
Signed(n, w)       == IF 2 * n >= Radix ^ w THEN n - Radix ^ w ELSE n

\* The sign bit flipped and the most significant byte first.
IntKey(n, w) == Reverse(Le(n + Radix ^ w \div 2, w))

\* The integers an i16, i32 or i64 codec encodes.
WidthOf(t) == CASE t = "Int16" -> IntWidth("Int16")
                [] t \in {"Int32", "Date"} -> IntWidth("Int32")
                [] t \in {"Int64", "Timestamp", "Time"} -> IntWidth("Int64")
Integral == {"Int16", "Int32", "Int64", "Date", "Timestamp", "Time"}
-----------------------------------------------------------------------------
(* Floats: to_bits and from_bits (IEEE-754, external), and the transform   *)
(* of a key: all bits flipped for a negative one, else the sign bit.       *)

FloatWidth(t) == IF t = "Float32" THEN 2 ELSE 3
SignBit(t)    == 2 ^ (Bits * FloatWidth(t) - 1)

InfBits(fmt) == fmt.emax * (fmt.sig \div 2) + fmt.sig

MagBits(mag, fmt) ==
    IF mag >= Inf THEN InfBits(fmt) + (mag - Inf)
    ELSE LET e == Min(Exponents(mag, fmt)) IN e * (fmt.sig \div 2) + mag \div 2 ^ e

FromMagBits(bits, fmt) ==
    LET half == fmt.sig \div 2
        e    == bits \div half - 1
    IN  IF bits >= InfBits(fmt) THEN Inf + (bits - InfBits(fmt))
        ELSE IF bits < fmt.sig THEN bits
        ELSE (bits - e * half) * 2 ^ e

FloatBits(f, t) == f[1] * SignBit(t) + MagBits(f[2], Format(t))

\* A slip that flips the sign bit only.
FloatKeySignOnly(f, t) == Reverse(Le(FloatBits(f, t) + SignBit(t), FloatWidth(t)))

FloatKey(f, t) ==
    Reverse(Le(IF f[1] = 1 THEN 2 * SignBit(t) - 1 - FloatBits(f, t)
                           ELSE FloatBits(f, t) + SignBit(t), FloatWidth(t)))
-----------------------------------------------------------------------------
(* Numerics: sign, exponent, then the digits in pairs.                     *)

DecNeg == 3
DecZero == 4
DecPos == 5

Complement(bytes) == [i \in DOMAIN bytes |-> Radix - 1 - bytes[i]]

DecimalKey(d) ==
    LET pairs(padded) == [i \in 1 .. Len(padded) \div 2 |->
                             padded[2 * i - 1] * Ten + padded[2 * i] + 1]
        body(digits, scale) ==
            <<Len(digits) - scale + Radix \div 2>>
                \o pairs(IF Len(digits) % 2 = 1 THEN Append(digits, 0) ELSE digits) \o <<0>>
        of(norm) == body(DigitsOf(Abs(norm[1])), norm[2])
    IN  IF d[1] = 0 THEN <<DecZero>>
        ELSE IF d[1] < 0 THEN <<DecNeg>> \o Complement(of(Normalized(d)))
        ELSE <<DecPos>> \o of(Normalized(d))

\* Decimal::serialize (external): sign and scale, then the mantissa.
DecimalBytes(d) == <<IF d[1] < 0 THEN d[2] + Radix \div 2 ELSE d[2]>> \o Le(Abs(d[1]), 4)
FromDecimalBytes(b) ==
    LET m == FromLe(Tail(b))
    IN  IF b[1] >= Radix \div 2 THEN <<-m, b[1] - Radix \div 2>> ELSE <<m, b[1]>>
-----------------------------------------------------------------------------
(* Value::encode and Value::encoded_size.                                  *)

Prefixed(bytes) == Le(Len(bytes), LenWidth) \o bytes

RECURSIVE EncodeValue(_)
EncodeValue(x) ==
    CASE x.t = "Bool"              -> x.v
      [] x.t \in Integral          -> Le(x.v[1], WidthOf(x.t))
      [] x.t \in Floats            -> Le(FloatBits(x.v, x.t), FloatWidth(x.t))
      [] x.t = "Numeric"           -> DecimalBytes(x.v)
      [] x.t = "Interval"          -> Le(x.v[1], WidthOf("Int32"))
                                          \o Le(x.v[2], WidthOf("Int32"))
                                          \o Le(x.v[3], WidthOf("Int64"))
      [] x.t = "Uuid"              -> x.v
      [] x.t \in {"Text", "Json"}  -> Prefixed(Utf8(x.v))
      [] x.t = "Bytes"             -> Prefixed(x.v)
      [] x.t = "Array"             ->
            Le(Len(x.els), LenWidth)
                \o FlattenSeq([i \in DOMAIN x.els |-> EncodeValue(x.els[i])])

EncodedSize(x) == IF IsNull(x) THEN 0 ELSE Len(EncodeValue(x))

\* Value::encode_key; a NULL has no key (NullKey), which says so here.
NullKey == <<-1>>

RECURSIVE EncodeKey(_)
EncodeKey(x) ==
    CASE IsNull(x)                 -> NullKey
      [] x.t = "Bool"              -> x.v
      [] x.t \in Integral          -> IntKey(x.v[1], WidthOf(x.t))
      [] x.t \in Floats            -> FloatKey(x.v, x.t)
      [] x.t = "Numeric"           -> DecimalKey(x.v)
      [] x.t = "Interval"          -> IntKey(ToMicros(x), WideWidth)
      [] x.t \in {"Text", "Json"}  -> Utf8(x.v)
      [] x.t \in {"Bytes", "Uuid"} -> x.v
      [] x.t = "Array"             ->
            IF \E i \in DOMAIN x.els : IsNull(x.els[i]) THEN NullKey
            ELSE FlattenSeq([i \in DOMAIN x.els |-> EncodeKey(x.els[i])])
-----------------------------------------------------------------------------
(* Value::decode of one value of a type: the value, or a DecodeError, and  *)
(* the bytes left.                                                         *)

Decoded(val, rest) == [val |-> val, rest |-> rest]

\* take: the first n bytes; UnexpectedEof if there are fewer.
Take(buf, n) ==
    IF Len(buf) < n THEN Decoded(CodecError, << >>)
    ELSE Decoded(Val("Bytes", SubSeq(buf, 1, n)), SubSeq(buf, n + 1, Len(buf)))

\* A length, and as many bytes.
TakePrefixed(buf) ==
    LET behind(n) == IF IsError(n.val) THEN n ELSE Take(n.rest, FromLe(n.val.v))
    IN  behind(Take(buf, LenWidth))

SignedLe(b) == Signed(FromLe(b), Len(b))

\* The bytes of a value of a fixed size.
SizeOf(t) ==
    CASE t = "Bool"     -> 1
      [] t \in Integral -> WidthOf(t)
      [] t \in Floats   -> FloatWidth(t)
      [] t = "Numeric"  -> 5
      [] t = "Interval" -> 7
      [] t = "Uuid"     -> UuidLen

\* The value that bytes are.
FromBytes(t, b) ==
    CASE t = "Bool"     -> IF b[1] > 1 THEN CodecError ELSE Val(t, b)
      [] t \in Integral -> Val(t, <<SignedLe(b)>>)
      [] t \in Floats   -> Val(t, <<FromLe(b) \div SignBit(t),
                                    FromMagBits(FromLe(b) % SignBit(t), Format(t))>>)
      [] t = "Numeric"  -> Val(t, FromDecimalBytes(b))
      [] t = "Interval" -> Val(t, <<SignedLe(SubSeq(b, 1, 2)), SignedLe(SubSeq(b, 3, 4)),
                                    SignedLe(SubSeq(b, 5, 7))>>)
      [] t \in {"Uuid", "Bytes"} -> Val(t, b)
      [] t \in {"Text", "Json"}  -> Val(t, FromUtf8(b))

DecodeScalar(t, buf) ==
    LET as(d) == IF IsError(d.val) THEN d ELSE Decoded(FromBytes(t, d.val.v), d.rest)
    IN  as(IF t \in {"Text", "Json", "Bytes"} THEN TakePrefixed(buf) ELSE Take(buf, SizeOf(t)))

\* The next element of an array, behind those decoded so far.
DecodeElement(t, soFar) ==
    LET with(next) == IF IsError(next.val) THEN next
                      ELSE Decoded(Array(Append(soFar.val.els, next.val)), next.rest)
    IN  IF IsError(soFar.val) THEN soFar ELSE with(DecodeScalar(t, soFar.rest))

\* An array of the type behind its count.
DecodeArray(t, count) ==
    IF IsError(count.val) THEN count
    ELSE FoldLeft(LAMBDA d, i : DecodeElement(t, d), Decoded(Array(<< >>), count.rest),
                  [i \in 1 .. FromLe(count.val.v) |-> i])

DecodeValue(ty, buf) ==
    IF Head(ty) # "Array" THEN DecodeScalar(Head(ty), buf)
    ELSE DecodeArray(ty[2], Take(buf, LenWidth))
-----------------------------------------------------------------------------
(* Schema::encode and Schema::decode.  A schema is a sequence of fields.   *)

BitmapLen(schema) == (Len(schema) + Bits - 1) \div Bits

\* Bit i of the bitmap, from 0, is bit i % Bits of byte i \div Bits.
Bitmap(schema, tuple) ==
    LET null(i) == i < Len(tuple) /\ IsNull(tuple[i + 1])
    IN  [b \in 1 .. BitmapLen(schema) |->
            FoldLeft(LAMBDA n, j : IF null((b - 1) * Bits + j) THEN n + 2 ^ j ELSE n,
                     0, [j \in 1 .. Bits |-> j - 1])]

EncodeRow(schema, tuple) ==
    Bitmap(schema, tuple)
        \o FlattenSeq([i \in DOMAIN tuple |->
                IF IsNull(tuple[i]) THEN << >> ELSE EncodeValue(tuple[i])])

BitSet(bytes, i) == (bytes[i \div Bits + 1] \div 2 ^ (i % Bits)) % 2 = 1

\* Column i, behind those decoded so far.
DecodeColumn(schema, bytes, soFar, i) ==
    LET with(next) == Decoded(Append(soFar.val, next.val), next.rest)
    IN  IF soFar.val # << >> /\ IsError(Last(soFar.val)) THEN soFar
        ELSE with(IF BitSet(bytes, i - 1) THEN Decoded(Null, soFar.rest)
                  ELSE DecodeValue(schema[i].ty, soFar.rest))

\* The row, or <<CodecError>>.
DecodeRow(schema, bytes) ==
    LET n == BitmapLen(schema)
        whole(row) == IF row.rest # << >> \/ \E i \in DOMAIN row.val : IsError(row.val[i])
                      THEN <<CodecError>> ELSE row.val
    IN  IF Len(bytes) < n THEN <<CodecError>>
        ELSE whole(FoldLeft(LAMBDA d, i : DecodeColumn(schema, bytes, d, i),
                            Decoded(<< >>, SubSeq(bytes, n + 1, Len(bytes))),
                            [i \in DOMAIN schema |-> i]))
=============================================================================
