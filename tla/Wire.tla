---------------------------------- MODULE Wire ----------------------------------
(***************************************************************************)
(* The byte-level primitives every codec is built from: integers and their  *)
(* conversions, varints, strings, floats, scalars by their declared type,   *)
(* and the frame (packages/serializer/src/bytes.ts, frame.ts and the scalar  *)
(* part of schema-codec.ts; packages/types/src/ints.ts, fixed.ts).          *)
(*                                                                          *)
(* The widths are scaled to what TLC can count: a varint's byte holds Base    *)
(* values (128 in the code), a uint32 is a number below Word (2^32) and a     *)
(* uint16 one below Short (2^16); as in the code, five varint bytes hold more *)
(* than a uint32 and four hold less.  A number is a count of twentieths, so  *)
(* that truncating, rounding halves and a decimal place all have something to *)
(* do, or one of the values that are not counts.                              *)
(***************************************************************************)
EXTENDS Integers, Sequences, SequencesExt

CONSTANTS Base, Short, Word

ASSUME WireAssumption ==
    /\ Base \in Nat /\ Base > 3
    /\ Word \in Nat /\ Base * Base * Base * Base < Word
    /\ Word <= Base * Base * Base * Base * Base
    /\ Short \in Nat /\ 256 < Short /\ Short < Word

Num(q)  == [t |-> "num", q |-> q]
NaN     == [t |-> "nan"]
PosInf  == [t |-> "+inf"]
NegInf  == [t |-> "-inf"]
NegZero == [t |-> "-zero"]
Str(s)  == [t |-> "str", s |-> s]
Bool(b) == [t |-> "bool", b |-> b]
Unit == 20

-----------------------------------------------------------------------------
(* Integer kinds, and how a number becomes one. *)

IntKind == {"int8", "int16", "int32", "uint8", "uint16", "uint32"}
IntRange(kind) ==
    CASE kind = "int8" -> [min |-> -128, max |-> 127]
      [] kind = "uint8" -> [min |-> 0, max |-> 255]
      [] kind = "int16" -> [min |-> -(Short \div 2), max |-> Short \div 2 - 1]
      [] kind = "uint16" -> [min |-> 0, max |-> Short - 1]
      [] kind = "int32" -> [min |-> -(Word \div 2), max |-> Word \div 2 - 1]
      [] kind = "uint32" -> [min |-> 0, max |-> Word - 1]

Within(n, range) == n \in range.min..range.max
IsIntOf(n, kind) == Within(n, IntRange(kind))

Clamp(n, range) ==
    IF n <= range.min THEN range.min ELSE IF n >= range.max THEN range.max ELSE n
Magnitude(q) == IF q < 0 THEN -q ELSE q
Signed(q, n) == IF q < 0 THEN -n ELSE n

\* Truncated toward zero and saturated; not a number is 0, and 0 has no sign.
ToInt(x, kind) ==
    CASE x.t = "num" ->
            Clamp(Signed(x.q, Magnitude(x.q) \div Unit), IntRange(kind))
      [] x.t = "+inf" -> IntRange(kind).max
      [] x.t = "-inf" -> IntRange(kind).min
      [] OTHER -> 0

\* A fixed-point value of `decimals` places: a count of step-twentieths.
Step(decimals) == IF decimals = 0 THEN Unit ELSE Unit \div 10

\* Rounding that takes every half up, and so not the same way on both sides of zero.
ToFixed_HalfUp(x, decimals) ==
    CASE x.t = "num" -> Clamp((2 * x.q + Step(decimals)) \div (2 * Step(decimals)),
                              IntRange("int32"))
      [] x.t = "+inf" -> IntRange("int32").max
      [] x.t = "-inf" -> IntRange("int32").min
      [] OTHER -> 0

\* Rounded half away from zero, and saturated.
ToFixed(x, decimals) ==
    CASE x.t = "num" ->
            Clamp(Signed(x.q, (2 * Magnitude(x.q) + Step(decimals)) \div (2 * Step(decimals))),
                  IntRange("int32"))
      [] x.t = "+inf" -> IntRange("int32").max
      [] x.t = "-inf" -> IntRange("int32").min
      [] OTHER -> 0

FromFixed(n, decimals) == Num(n * Step(decimals))

\* Math.fround: the nearest multiple of four twentieths, ties to the even one; what is
\* too large is infinite.
Nearest4(q) ==
    LET low == q \div 4 IN 4 * (IF (q % 4) + (low % 2) > 2 THEN low + 1 ELSE low)
Fround(x) ==
    CASE x.t # "num" -> x
      [] x.t = "num" /\ Nearest4(x.q) >= 400 -> PosInf
      [] x.t = "num" /\ Nearest4(x.q) <= -400 -> NegInf
      [] OTHER -> Num(Nearest4(x.q))

-----------------------------------------------------------------------------
(* Writing: the bytes of a value. *)

RECURSIVE Varint(_)
Varint(n) == IF n < Base THEN <<n>> ELSE <<(n % Base) + Base>> \o Varint(n \div Base)

Zigzag(n)   == IF n >= 0 THEN 2 * n ELSE -2 * n - 1
Unzigzag(u) == IF u % 2 = 0 THEN u \div 2 ELSE -(u \div 2) - 1

\* Characters are UTF-16 units: a letter, U+0000, half of a pair, and U+FFFD.
Replacement == 65533
IsSurrogate(c) == c \in 55296..57343
WireString(s) ==
    [i \in DOMAIN s |-> IF s[i] = 0 \/ IsSurrogate(s[i]) THEN Replacement ELSE s[i]]

\* Any other character stands for a byte that is not UTF-8; no encoder writes one.
Utf8(s) ==
    FoldLeft(LAMBDA b, c : b \o (CASE c < 128 -> <<c>>
                                   [] c = Replacement -> <<239, 191, 189>>
                                   [] OTHER -> <<255>>), <<>>, s)

\* A string this short takes one length byte whatever its characters are.
ShortString == (Base - 1) \div 3 + 1
TextBytes(short, text) == (IF short THEN <<Len(text)>> ELSE Varint(Len(text))) \o text
StringBytes(s) == TextBytes(Len(s) < ShortString, Utf8(WireString(s)))

\* A float's pattern has two bytes for eight, and one for four; NaN has one pattern.
Float64(x) ==
    CASE x.t = "num" -> <<128 + (x.q + 8192) \div 128, (x.q + 8192) % 128>>
      [] x.t = "nan" -> <<0, 0>> [] x.t = "-zero" -> <<0, 1>>
      [] x.t = "+inf" -> <<0, 2>> [] x.t = "-inf" -> <<0, 3>>
Float32(x) ==
    LET y == Fround(x)
    IN CASE y.t = "num" -> <<128 + y.q \div 4>>
         [] y.t = "nan" -> <<0>> [] y.t = "-zero" -> <<1>>
         [] y.t = "+inf" -> <<2>> [] y.t = "-inf" -> <<3>>

WriteInt(kind, n) ==
    CASE kind \in {"int8", "uint8"} -> <<n % 256>>
      [] kind \in {"int16", "int32"} -> Varint(Zigzag(n))
      [] OTHER -> Varint(n)

-----------------------------------------------------------------------------
(* Reading: the bytes left, and an error that stays. *)

Reader(bytes) == [in |-> bytes, err |-> FALSE]
Failing       == [in |-> <<>>, err |-> TRUE]
Read(v, r)    == [v |-> v, r |-> r]
Skip(r, n)    == [r EXCEPT !.in = SubSeq(@, n + 1, Len(@))]

U8(r) == IF r.in = <<>> THEN Read(0, Failing) ELSE Read(Head(r.in), Skip(r, 1))

\* At most five bytes, and a value that fits.
RECURSIVE VarintFrom(_, _, _, _)
VarintFrom(in, i, v, scale) ==
    CASE i > 5 \/ i > Len(in) -> Read(0, Failing)
      [] i <= 5 /\ i <= Len(in) /\ in[i] >= Base ->
            VarintFrom(in, i + 1, v + (in[i] % Base) * scale, scale * Base)
      [] OTHER -> IF v + in[i] * scale < Word
                  THEN Read(v + in[i] * scale, Skip([in |-> in, err |-> FALSE], i))
                  ELSE Read(0, Failing)
ReadVarint(r) == VarintFrom(r.in, 1, 0, 1)

\* A count of things that take at least a byte each.
Countable(c) == IF c.v > Len(c.r.in) THEN Read(0, Failing) ELSE c
ReadCount(r) == Countable(ReadVarint(r))

RECURSIVE DecodeUtf8(_)
DecodeUtf8(b) ==
    CASE b = <<>> -> <<>>
      [] b # <<>> /\ Head(b) < 128 -> <<Head(b)>> \o DecodeUtf8(Tail(b))
      [] OTHER -> <<Replacement>> \o DecodeUtf8(SubSeq(b, 4, Len(b)))

\* Of the bytes above 127, only those of U+FFFD, in their order, are ever valid here.
RECURSIVE IsUtf8(_)
IsUtf8(b) ==
    CASE b = <<>> -> TRUE
      [] b # <<>> /\ Head(b) < 128 -> IsUtf8(Tail(b))
      [] OTHER -> IsPrefix(<<239, 191, 189>>, b) /\ IsUtf8(SubSeq(b, 4, Len(b)))

ReadText(r, text) ==
    IF IsUtf8(text) THEN Read(DecodeUtf8(text), Skip(r, Len(text))) ELSE Read(<<>>, Failing)
ReadChars(n) == IF n.r.err THEN Read(<<>>, Failing) ELSE ReadText(n.r, SubSeq(n.r.in, 1, n.v))
ReadString(r) == ReadChars(ReadCount(r))

Special(n) == CASE n = 0 -> NaN [] n = 1 -> NegZero [] n = 2 -> PosInf [] OTHER -> NegInf
ReadFloat64(r) ==
    IF Len(r.in) < 2 THEN Read(Num(0), Failing)
    ELSE Read(IF r.in[1] = 0 THEN Special(r.in[2])
              ELSE Num((r.in[1] - 128) * 128 + r.in[2] - 8192), Skip(r, 2))
ReadFloat32(r) ==
    IF r.in = <<>> THEN Read(Num(0), Failing)
    ELSE Read(IF r.in[1] < 4 THEN Special(r.in[1]) ELSE Num(4 * (r.in[1] - 128)), Skip(r, 1))

BoolOf(b) == Read(Bool(b.v = 1), IF b.v > 1 THEN Failing ELSE b.r)
ReadBool(r) == BoolOf(U8(r))

SignedByte(b) == Read(IF b.v > 127 THEN b.v - 256 ELSE b.v, b.r)
FromZigzag(u) == Read(Unzigzag(u.v), u.r)
ReadIntRaw(r, kind) ==
    CASE kind = "int8" -> SignedByte(U8(r))
      [] kind = "uint8" -> U8(r)
      [] kind \in {"int16", "int32"} -> FromZigzag(ReadVarint(r))
      [] OTHER -> ReadVarint(r)
InRange(n, kind) ==
    IF IsIntOf(n.v, kind) THEN Read(Num(n.v * Unit), n.r) ELSE Read(Num(0), Failing)
ReadInt(r, kind) == InRange(ReadIntRaw(r, kind), kind)

-----------------------------------------------------------------------------
(* A scalar of a state op, by its declared type: wire values, already converted. *)

IntOf(x) == x.q \div Unit
FitsScalar(type, x) ==
    CASE type \in IntKind \cup {"fixed"} ->
            /\ x.t = "num" /\ x.q % Unit = 0
            /\ IsIntOf(IntOf(x), IF type = "fixed" THEN "int32" ELSE type)
      [] type \in {"float32", "float64"} -> x.t \notin {"str", "bool"}
      [] type = "string" -> x.t = "str"
      [] type = "bool" -> x.t = "bool"

WriteScalar(type, x) ==
    CASE type \in IntKind -> WriteInt(type, IntOf(x))
      [] type = "fixed" -> Varint(Zigzag(IntOf(x)))
      [] type = "float64" -> Float64(x)
      [] type = "float32" -> Float32(x)
      [] type = "string" -> StringBytes(x.s)
      [] type = "bool" -> <<IF x.b THEN 1 ELSE 0>>

StringOf(s) == Read(Str(s.v), s.r)
ReadScalar(r, type) ==
    CASE type \in IntKind -> ReadInt(r, type)
      [] type = "fixed" -> ReadInt(r, "int32")
      [] type = "float64" -> ReadFloat64(r)
      [] type = "float32" -> ReadFloat32(r)
      [] type = "string" -> StringOf(ReadString(r))
      [] type = "bool" -> ReadBool(r)

-----------------------------------------------------------------------------
(* The frame: a type, its header varints, the body. *)

EncodeFrame(type, header, body) ==
    <<type>> \o FoldLeft(LAMBDA b, n : b \o Varint(n), <<>>, header) \o body

Header(r, count) ==
    FoldLeft(LAMBDA h, i : LET n == ReadVarint(h.r) IN Read(Append(h.v, n.v), n.r),
             Read(<<>>, r), [i \in 1..count |-> i])
DecodeFrame(data, counts) ==
    LET type == Head(data)
        h == Header(Reader(Tail(data)), counts[type])
    IN [type |-> type, header |-> h.v, body |-> h.r.in, err |-> h.r.err]
=============================================================================
