------------------------------- MODULE MessageCodec -------------------------------
(***************************************************************************)
(* Contract messages under the two codecs a room may have: the tag-free      *)
(* bytes of the schema codec (packages/serializer/src/schema-codec.ts) and    *)
(* the positional array of the messagepack codec (message-codec.ts), with     *)
(* the walk that refuses invalid strings in a MessagePack body                *)
(* (messagepack.ts).                                                          *)
(*                                                                            *)
(* A declaration is a sequence of field descriptors, a payload a sequence of   *)
(* values in the same order: names are positions.  The variables hold one      *)
(* declaration, one payload a sender may give for it, and what its receiver    *)
(* is handed under each codec.                                                 *)
(***************************************************************************)
EXTENDS MessageTypes, Integers, Sequences, FiniteSets, SequencesExt

CONSTANTS Base, Short, Word,
          Samples    \* pairs of a declaration and a payload

VARIABLES message, received

messageVars == <<message, received>>

W == INSTANCE Wire

-----------------------------------------------------------------------------
(* What a contract may declare. *)

RECURSIVE EncodesEmpty(_)
EncodesEmpty(f) == f.kind = "nested" /\ \A i \in DOMAIN f.def : EncodesEmpty(f.def[i])

RECURSIVE FieldOK(_, _)
FieldOK(f, optional) ==
    CASE f.kind = "enum" -> f.size > 0
      [] f.kind \in {"array", "map"} -> ~EncodesEmpty(f.of) /\ FieldOK(f.of, FALSE)
      [] f.kind = "optional" -> ~optional /\ FieldOK(f.of, TRUE)
      [] f.kind = "nested" -> \A i \in DOMAIN f.def : FieldOK(f.def[i], FALSE)
      [] OTHER -> TRUE
ValidMessage(def) == \A i \in DOMAIN def : FieldOK(def[i], FALSE)

-----------------------------------------------------------------------------
(* The schema codec. *)

\* planOf: the flag bits of a field, and where its value bit is.
BitsOf(f) == CASE f.kind = "bool" -> 1
               [] f.kind = "optional" -> IF f.of.kind = "bool" THEN 2 ELSE 1
               [] OTHER -> 0
BitAt(def, i) == FoldLeft(LAMBDA n, f : n + BitsOf(f), 0, SubSeq(def, 1, i - 1))
Bits(def)     == BitAt(def, Len(def) + 1)
FlagBytes(def) == (Bits(def) + 7) \div 8

\* The bits a payload sets, and the bytes that hold them.
SetBits(def, p) ==
    UNION {CASE def[i].kind = "bool" -> IF p[i].b THEN {BitAt(def, i)} ELSE {}
             [] def[i].kind = "optional" /\ p[i] # Absent ->
                    {BitAt(def, i)} \cup (IF def[i].of.kind = "bool" /\ p[i].b
                                          THEN {BitAt(def, i) + 1} ELSE {})
             [] OTHER -> {} : i \in DOMAIN def}
FlagByte(bits, n) == FoldLeft(LAMBDA v, b : IF 8 * n + b \in bits THEN v + 2 ^ b ELSE v, 0,
                              [b \in 1..8 |-> b - 1])
Flags(def, p) == [n \in 1..FlagBytes(def) |-> FlagByte(SetBits(def, p), n - 1)]
HasBit(flags, bit) == (flags[bit \div 8 + 1] \div 2 ^ (bit % 8)) % 2 = 1

\* Only a bool and an optional bool live in the flags alone.
InFlags(f, x) == f.kind = "bool" \/ (f.kind = "optional" /\ (x = Absent \/ f.of.kind = "bool"))
ValueField(f) == IF f.kind = "optional" THEN f.of ELSE f

RECURSIVE WriteField(_, _)
WriteMessage(def, p) ==
    Flags(def, p)
    \o FoldLeft(LAMBDA b, i : IF InFlags(def[i], p[i]) THEN b
                              ELSE b \o WriteField(ValueField(def[i]), p[i]),
                <<>>, [i \in DOMAIN def |-> i])

WriteField(f, x) ==
    CASE f.kind \in W!IntKind -> W!WriteInt(f.kind, W!ToInt(x, f.kind))
      [] f.kind = "fixed" -> W!Varint(W!Zigzag(W!ToFixed(x, f.decimals)))
      [] f.kind = "float64" -> W!Float64(x)
      [] f.kind = "float32" -> W!Float32(x)
      [] f.kind = "string" -> W!StringBytes(x.s)
      [] f.kind = "bool" -> <<IF x.b THEN 1 ELSE 0>>
      [] f.kind = "enum" -> W!Varint(x.n - 1)
      [] f.kind = "array" ->
            FoldLeft(LAMBDA b, y : b \o WriteField(f.of, y), W!Varint(Len(x.e)), x.e)
      [] f.kind = "map" ->
            FoldLeft(LAMBDA b, y : b \o W!StringBytes(y.k) \o WriteField(f.of, y.v),
                     W!Varint(Len(x.e)), x.e)
      [] f.kind = "optional" -> IF x = Absent THEN <<0>> ELSE <<1>> \o WriteField(f.of, x)
      [] f.kind = "nested" -> WriteMessage(f.def, x.e)

\* The bits of the last flag byte that no field uses must be 0, and so must the value bit
\* of an optional that is absent.
PaddingSet(def, flags) == \E bit \in Bits(def)..8 * FlagBytes(def) - 1 : HasBit(flags, bit)
StrayValueBit(f, flags, bit) ==
    f.kind = "optional" /\ f.of.kind = "bool" /\ ~HasBit(flags, bit) /\ HasBit(flags, bit + 1)

\* What has been read so far, with one more value.
More(s, x) == W!Read(Append(s.v, x.v), x.r)
FlagsOf(r, n) ==
    FoldLeft(LAMBDA s, i : More(s, W!U8(s.r)), W!Read(<<>>, r), [i \in 1..n |-> i])
HasKey(entries, k) == \E i \in DOMAIN entries : entries[i].k = k

RECURSIVE ReadField(_, _)
Element(s, f) == IF s.r.err THEN s ELSE More(s, ReadField(s.r, f))
AddEntry(s, k, x) == W!Read(Append(s.v, [k |-> k, v |-> x.v]), x.r)
KeyedEntry(s, k, f) ==
    AddEntry(s, k.v, ReadField(IF HasKey(s.v, k.v) THEN W!Failing ELSE k.r, f))
Entry(s, f) == IF s.r.err THEN s ELSE KeyedEntry(s, W!ReadString(s.r), f)
ReadPart(s, f, flags, bit) ==
    CASE s.r.err \/ StrayValueBit(f, flags, bit) -> W!Read(s.v, W!Failing)
      [] ~s.r.err /\ f.kind = "bool" -> W!Read(Append(s.v, W!Bool(HasBit(flags, bit))), s.r)
      [] ~s.r.err /\ f.kind = "optional" /\ ~HasBit(flags, bit) ->
            W!Read(Append(s.v, Absent), s.r)
      [] ~s.r.err /\ f.kind = "optional" /\ HasBit(flags, bit) /\ f.of.kind = "bool" ->
            W!Read(Append(s.v, W!Bool(HasBit(flags, bit + 1))), s.r)
      [] OTHER -> Element(s, ValueField(f))
ReadParts(flags, def) ==
    FoldLeft(LAMBDA s, i : ReadPart(s, def[i], flags.v, BitAt(def, i)),
             W!Read(<<>>, IF PaddingSet(def, flags.v) THEN W!Failing ELSE flags.r),
             [i \in DOMAIN def |-> i])
ReadMessage(r, def) == ReadParts(FlagsOf(r, FlagBytes(def)), def)

ReadElements(n, f) ==
    FoldLeft(LAMBDA s, i : Element(s, f), W!Read(<<>>, n.r), [i \in 1..n.v |-> i])
ReadEntries(n, f) ==
    FoldLeft(LAMBDA s, i : Entry(s, f), W!Read(<<>>, n.r), [i \in 1..n.v |-> i])
AsArray(s) == W!Read(Arr(s.v), s.r)
AsMap(s) == W!Read(Map(s.v), s.r)
AsMessage(s) == W!Read(Msg(s.v), s.r)
AsFixed(u, f) == W!Read(W!FromFixed(W!Unzigzag(u.v), f.decimals), u.r)
AsCase(u, f) == IF u.v < f.size THEN W!Read(Case(u.v + 1), u.r) ELSE W!Read(Bad, W!Failing)
Present(b, f) ==
    CASE b.v = 0 -> W!Read(Absent, b.r)
      [] b.v = 1 -> ReadField(b.r, f)
      [] OTHER -> W!Read(Bad, W!Failing)

ReadField(r, f) ==
    CASE f.kind \in W!IntKind \cup {"float64", "float32", "string", "bool"} -> W!ReadScalar(r, f.kind)
      [] f.kind = "fixed" -> AsFixed(W!ReadVarint(r), f)
      [] f.kind = "enum" -> AsCase(W!ReadVarint(r), f)
      [] f.kind = "array" -> AsArray(ReadElements(W!ReadCount(r), f.of))
      [] f.kind = "map" -> AsMap(ReadEntries(W!ReadCount(r), f.of))
      [] f.kind = "optional" -> Present(W!U8(r), f.of)
      [] f.kind = "nested" -> AsMessage(ReadMessage(r, f.def))

EncodeMessage(def, p) == WriteMessage(def, p)

\* Nothing may be left over.
AllOf(s) == IF s.r.err \/ s.r.in # <<>> THEN Bad ELSE Msg(s.v)
DecodeMessage(def, bytes) == AllOf(ReadMessage(W!Reader(bytes), def))

-----------------------------------------------------------------------------
(* The messagepack codec: a positional array, its optional tail left out. *)

RECURSIVE PackField(_, _)
Trimmed(def, out) ==
    LET full == {i \in DOMAIN out : out[i] # Absent \/ def[i].kind # "optional"}
    IN SubSeq(out, 1, IF full = {} THEN 0 ELSE CHOOSE i \in full : \A j \in full : j <= i)
PackFields(def, p) == Trimmed(def, [i \in DOMAIN def |-> PackField(def[i], p[i])])

PackField(f, x) ==
    CASE f.kind \in W!IntKind -> W!Num(W!ToInt(x, f.kind) * W!Unit)
      [] f.kind = "fixed" -> W!Num(W!ToFixed(x, f.decimals) * W!Unit)
      [] f.kind = "float32" -> W!Fround(x)
      [] f.kind \in {"float64", "string", "bool"} -> x
      [] f.kind = "enum" -> W!Num((x.n - 1) * W!Unit)
      [] f.kind = "array" -> Arr([i \in DOMAIN x.e |-> PackField(f.of, x.e[i])])
      [] f.kind = "map" ->
            Map([i \in DOMAIN x.e |-> [k |-> x.e[i].k, v |-> PackField(f.of, x.e[i].v)]])
      [] f.kind = "optional" -> IF x = Absent THEN Absent ELSE PackField(f.of, x)
      [] f.kind = "nested" -> Arr(PackFields(f.def, x.e))

\* A number on this wire that must be an integer of a kind.
WireInt(x, kind) == x.t = "num" /\ x.q % W!Unit = 0 /\ W!IsIntOf(W!IntOf(x), kind)
AnyBad(s) == \E i \in DOMAIN s : s[i] = Bad

RECURSIVE UnpackField(_, _)
\* Past the end of the array, only an optional may be missing.
Unless(bad, x) == IF bad THEN Bad ELSE x
FieldsOf(out) == Unless(AnyBad(out), Msg(out))
UnpackFields(def, s) ==
    IF Len(s) > Len(def) THEN Bad
    ELSE FieldsOf([i \in DOMAIN def |-> UnpackField(def[i], IF i <= Len(s) THEN s[i] ELSE Absent)])
ElementsOf(out) == Unless(AnyBad(out), Arr(out))
EntriesOf(out) == Unless(\E i \in DOMAIN out : out[i].v = Bad, Map(out))

UnpackField(f, x) ==
    CASE f.kind = "optional" -> IF x = Absent THEN Absent ELSE UnpackField(f.of, x)
      [] x = Absent /\ f.kind # "optional" -> Bad
      [] x # Absent /\ f.kind \in W!IntKind -> IF WireInt(x, f.kind) THEN x ELSE Bad
      [] x # Absent /\ f.kind = "fixed" ->
            IF WireInt(x, "int32") THEN W!FromFixed(W!IntOf(x), f.decimals) ELSE Bad
      [] x # Absent /\ f.kind = "float32" ->
            IF x.t \in {"str", "bool", "arr", "map"} THEN Bad ELSE W!Fround(x)
      [] x # Absent /\ f.kind = "float64" ->
            IF x.t \in {"str", "bool", "arr", "map"} THEN Bad ELSE x
      [] x # Absent /\ f.kind = "string" -> IF x.t = "str" THEN x ELSE Bad
      [] x # Absent /\ f.kind = "bool" -> IF x.t = "bool" THEN x ELSE Bad
      [] x # Absent /\ f.kind = "enum" ->
            IF WireInt(x, "uint32") /\ W!IntOf(x) < f.size THEN Case(W!IntOf(x) + 1) ELSE Bad
      [] x # Absent /\ f.kind = "array" ->
            IF x.t # "arr" THEN Bad ELSE ElementsOf([i \in DOMAIN x.e |-> UnpackField(f.of, x.e[i])])
      [] x # Absent /\ f.kind = "map" ->
            IF x.t # "map" THEN Bad
            ELSE EntriesOf([i \in DOMAIN x.e |-> [k |-> x.e[i].k, v |-> UnpackField(f.of, x.e[i].v)]])
      [] x # Absent /\ f.kind = "nested" -> IF x.t = "arr" THEN UnpackFields(f.def, x.e) ELSE Bad

-----------------------------------------------------------------------------
(* MessagePack bodies (the library's format, as far as these messages use it). *)

\* wireStrings: every string and key as the protocol holds it; of two keys that become
\* the same, the later entry stays.
RECURSIVE WireStrings(_)
Put(entries, k, v) ==
    IF HasKey(entries, k)
    THEN [i \in DOMAIN entries |-> IF entries[i].k = k THEN [k |-> k, v |-> v] ELSE entries[i]]
    ELSE Append(entries, [k |-> k, v |-> v])
WireStrings(x) ==
    CASE x.t = "str" -> W!Str(W!WireString(x.s))
      [] x.t = "arr" -> Arr([i \in DOMAIN x.e |-> WireStrings(x.e[i])])
      [] x.t = "map" ->
            Map(FoldLeft(LAMBDA m, y : Put(m, W!WireString(y.k), WireStrings(y.v)), <<>>, x.e))
      [] OTHER -> x

\* The bytes: fixints and their wider forms, short strings, arrays and maps.  A zero
\* loses its sign; a number that is no integer, or no number, is a float.
RECURSIVE Pack(_)
PackInt(n) == CASE n \in 0..127 -> <<n>>
                [] n \in -32..-1 -> <<256 + n>>
                [] n \in 128..255 -> <<204, n>>
                [] n >= 256 -> <<205, n \div 256, n % 256>>
                [] OTHER -> <<209, ((n + 65536) \div 256) % 256, (n + 65536) % 256>>
PackText(b) == IF Len(b) < 32 THEN <<160 + Len(b)>> \o b ELSE <<217, Len(b)>> \o b
Eight(q) == <<64, 0, 0, 0, 0, 0, (q + 32768) \div 256, (q + 32768) % 256>>
Pack(x) ==
    CASE x.t = "num" -> IF x.q % W!Unit = 0 THEN PackInt(W!IntOf(x)) ELSE <<203>> \o Eight(x.q)
      [] x.t = "-zero" -> <<0>>
      [] x.t \in {"nan", "+inf", "-inf"} -> <<203, 127, 240, 0, 0, 0, 0, 0, 0>>
      [] x.t = "str" -> PackText(W!Utf8(x.s))
      [] x.t = "bool" -> <<IF x.b THEN 195 ELSE 194>>
      [] x.t = "absent" -> <<192>>
      [] x.t = "arr" -> FoldLeft(LAMBDA b, y : b \o Pack(y), <<144 + Len(x.e)>>, x.e)
      [] x.t = "map" -> FoldLeft(LAMBDA b, y : b \o PackText(W!Utf8(y.k)) \o Pack(y.v),
                                 <<128 + Len(x.e)>>, x.e)

\* How far a value's head reaches past itself, and how many values it announces.
ReadLength(b, at, size) ==
    FoldLeft(LAMBDA v, i : v * 256 + (IF at + i <= Len(b) THEN b[at + i] ELSE 0), 0,
             [i \in 1..size |-> i - 1])
Skipped(b, head, at) ==
    CASE head \in 196..198 -> LET n == 2 ^ (head - 196) IN n + ReadLength(b, at, n)
      [] head \in 199..201 -> LET n == 2 ^ (head - 199) IN n + 1 + ReadLength(b, at, n)
      [] head \in {204, 208} -> 1
      [] head \in {205, 209} -> 2
      [] head \in {202, 206, 210} -> 4
      [] head \in {203, 207, 211} -> 8
      [] head \in 212..216 -> 1 + 2 ^ (head - 212)
      [] head \in {220, 222} -> 2
      [] head \in {221, 223} -> 4
      [] OTHER -> 0
Announced(b, head, at) ==
    CASE head \in 128..143 -> 2 * (head - 128)
      [] head \in 144..159 -> head - 144
      [] head \in {220, 221} -> ReadLength(b, at, IF head = 220 THEN 2 ELSE 4)
      [] head \in {222, 223} -> 2 * ReadLength(b, at, IF head = 222 THEN 2 ELSE 4)
      [] OTHER -> 0
TextAt(b, head, at) ==
    CASE head \in 160..191 -> [from |-> at, len |-> head - 160]
      [] head \in 217..219 -> LET n == 2 ^ (head - 217)
                              IN [from |-> at + n, len |-> ReadLength(b, at, n)]
      [] OTHER -> [from |-> at, len |-> -1]

\* stringsAreUtf8: every string is checked, and what cannot be walked is left to the decoder.
RECURSIVE Walk(_, _, _)
Past(b, at, head, pending) ==
    Walk(b, at + Skipped(b, head, at), pending - 1 + Announced(b, head, at))
PastText(b, text, end, pending) ==
    end - 1 > Len(b) \/ (W!IsUtf8(SubSeq(b, text.from, end - 1)) /\ Walk(b, end, pending - 1))
WalkFrom(b, at, head, text, pending) ==
    IF text.len < 0 THEN Past(b, at, head, pending)
    ELSE PastText(b, text, text.from + text.len, pending)
Walk(b, at, pending) ==
    pending = 0 \/ at > Len(b) \/ WalkFrom(b, at + 1, b[at], TextAt(b, b[at], at + 1), pending)
StringsAreUtf8(b) == Walk(b, 1, 1)

\* -0 travels as 0.
RECURSIVE Unsigned(_)
Unsigned(x) ==
    CASE x.t = "-zero" -> W!Num(0)
      [] x.t = "arr" -> Arr([i \in DOMAIN x.e |-> Unsigned(x.e[i])])
      [] x.t = "msg" -> Msg([i \in DOMAIN x.e |-> Unsigned(x.e[i])])
      [] x.t = "map" -> Map([i \in DOMAIN x.e |-> [k |-> x.e[i].k, v |-> Unsigned(x.e[i].v)]])
      [] OTHER -> x

\* encodeMessage and decodeMessage of the messagepack codec; a body with a string that is
\* not valid UTF-8 is refused before it is decoded.
Positional(def, p) == WireStrings(Arr(PackFields(def, p)))
Unpacked(def, wire) ==
    IF ~StringsAreUtf8(Pack(wire)) THEN Bad ELSE UnpackFields(def, Unsigned(wire).e)

-----------------------------------------------------------------------------
(* The messages of a room, one at a time. *)

Pending == [t |-> "pending"]
MessageInit == message \in Samples /\ received = Pending

\* A message is sent and decoded, in a room of either codec.
Deliver ==
    /\ received = Pending
    /\ received' = [schema |-> DecodeMessage(message.def, EncodeMessage(message.def, message.payload)),
                    pack |-> Unpacked(message.def, Positional(message.def, message.payload))]
    /\ UNCHANGED message

MessageNext == Deliver

\* The whole of a message is a value of its own kind.
Whole(def) == Nested(def)

\* y is x as a type of whole steps holds it: within `short` of x, toward zero for an
\* integer, away from zero in the middle for a fixed point, or the end of the range.
Between(x, y) == W!Magnitude(y) <= W!Magnitude(x) /\ (x < 0) = (y < 0)
Saturated(x, y, least, most, Close(_, _)) ==
    CASE x.t = "num" /\ x.q <= least -> y = least
      [] x.t = "num" /\ x.q >= most -> y = most
      [] x.t = "num" /\ least < x.q /\ x.q < most -> Close(x.q, y)
      [] x.t = "+inf" -> y = most
      [] x.t = "-inf" -> y = least
      [] OTHER -> y = 0
InSteps(x, y, step, kind, Close(_, _)) ==
    /\ y.t = "num" /\ y.q % step = 0
    /\ W!IsIntOf(y.q \div step, kind)
    /\ Saturated(x, y.q, W!IntRange(kind).min * step, W!IntRange(kind).max * step, Close)
Truncated(x, y) == W!Magnitude(x - y) < W!Unit /\ (y = 0 \/ Between(x, y))
Rounded(x, y, step) ==
    \/ 2 * W!Magnitude(x - y) < step
    \/ 2 * W!Magnitude(x - y) = step /\ W!Magnitude(y) > W!Magnitude(x)

\* What a receiver holds of a value, as PROTOCOL.md and the codec's interface promise it.
RECURSIVE Holds(_, _, _)
Holds(f, x, y) ==
    CASE f.kind \in W!IntKind -> InSteps(x, y, W!Unit, f.kind, Truncated)
      [] f.kind = "fixed" ->
            InSteps(x, y, W!Step(f.decimals), "int32", LAMBDA a, b : Rounded(a, b, W!Step(f.decimals)))
      [] f.kind = "float32" -> y = W!Fround(x)
      [] f.kind \in {"float64", "bool", "enum"} -> y = x
      [] f.kind = "string" ->
            /\ y.t = "str" /\ Len(y.s) = Len(x.s)
            /\ \A i \in DOMAIN x.s : y.s[i] = x.s[i] \/ (y.s[i] = W!Replacement /\ x.s[i] # 97)
            /\ \A i \in DOMAIN y.s : y.s[i] # 0 /\ ~W!IsSurrogate(y.s[i])
      [] f.kind = "array" ->
            y.t = "arr" /\ Len(y.e) = Len(x.e) /\ \A i \in DOMAIN x.e : Holds(f.of, x.e[i], y.e[i])
      [] f.kind = "map" ->
            /\ y.t = "map" /\ Len(y.e) = Len(x.e)
            /\ \A i \in DOMAIN x.e : /\ Holds(Scalar("string"), W!Str(x.e[i].k), W!Str(y.e[i].k))
                                     /\ Holds(f.of, x.e[i].v, y.e[i].v)
      [] f.kind = "optional" -> IF x = Absent THEN y = Absent ELSE Holds(f.of, x, y)
      [] f.kind = "nested" ->
            y.t = "msg" /\ Len(y.e) = Len(f.def) /\ \A i \in DOMAIN f.def : Holds(f.def[i], x.e[i], y.e[i])

\* The bodies like this one in which one string is not UTF-8.
RECURSIVE Corrupted(_)
Corrupted(x) ==
    CASE x.t = "str" -> {W!Str(Append(x.s, 255))}
      [] x.t = "arr" -> UNION {{Arr([x.e EXCEPT ![i] = y]) : y \in Corrupted(x.e[i])} : i \in DOMAIN x.e}
      [] x.t = "map" ->
            UNION {{Map([x.e EXCEPT ![i].v = y]) : y \in Corrupted(x.e[i].v)}
                   \cup {Map([x.e EXCEPT ![i].k = Append(@, 255)])} : i \in DOMAIN x.e}
      [] OTHER -> {}

\* A receiver holds of every field what its type promises of the value sent, under either
\* codec, and the schema codec's count checks never refuse what its encoder wrote.
RoundTrip ==
    ValidMessage(message.def) /\ received # Pending =>
        /\ Holds(Whole(message.def), Msg(message.payload), received.schema)
        /\ Holds(Whole(message.def), Unsigned(Msg(message.payload)), received.pack)

\* Nothing but an exact encoding reaches a handler: no message cut short, none with a byte
\* more, none with an unused flag set, and none with a string that is not UTF-8, wherever
\* in the body it is.
NoOther(def, bytes) ==
    /\ \A n \in 0..Len(bytes) - 1 : DecodeMessage(def, SubSeq(bytes, 1, n)) = Bad
    /\ \A b \in {0, 1} : DecodeMessage(def, Append(bytes, b)) = Bad
    /\ \A bit \in Bits(def)..8 * FlagBytes(def) - 1 :
           DecodeMessage(def, [bytes EXCEPT ![bit \div 8 + 1] = @ + 2 ^ (bit % 8)]) = Bad
Exact ==
    ValidMessage(message.def) /\ received = Pending =>
        /\ NoOther(message.def, EncodeMessage(message.def, message.payload))
        /\ \A wrong \in Corrupted(Positional(message.def, message.payload)) :
               Unpacked(message.def, wrong) = Bad

MessagesSound == RoundTrip /\ Exact
=============================================================================
