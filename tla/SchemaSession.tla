----------------------------- MODULE SchemaSession -----------------------------
(***************************************************************************)
(* A session of the schema codec: the class and target tables of one state  *)
(* stream, and the tag-free bytes of its ops                                 *)
(* (packages/serializer/src/schema-codec.ts, the class table of               *)
(* state-codec.ts, the type grammar of packages/types/src/wire.ts).           *)
(*                                                                            *)
(* An op's bytes carry no types: an encoder and a decoder read them off their  *)
(* own tables, which every DEFINE and every reference in the stream extends.   *)
(* Ops are the WireOp tuples, with DEFINE holding a class's name and types;    *)
(* an index is a number, as a key is.                                          *)
(***************************************************************************)
EXTENDS Integers, Sequences, SequencesExt

CONSTANTS Base, Short, Word,
          Escape,   \* F_ESCAPE: the field index from which a header does not hold it
          MaxRef    \* bound: the largest refId

W == INSTANCE Wire

-----------------------------------------------------------------------------
(* Field types, and the names they have in a DEFINE. *)

Of(type)        == [kind |-> "scalar", type |-> type]
Nested          == [kind |-> "schema"]
Array(type)     == [kind |-> "array", type |-> type]
Set(type)       == [kind |-> "set", type |-> type]
SchemaMap(key)  == [kind |-> "schemaMap", key |-> key]

IsCollectionField(type) == type.kind \notin {"scalar", "schema"}
IsArray(type) == type.kind = "array"

\* A type's name is a letter; parseFieldType knows these, and no other.
Grammar == <<Of("int8"), Of("uint8"), Of("string"), Of("bool"), Of("float32"), Nested,
             Array("string"), Set("uint8"), SchemaMap("uint8")>>
TypeName(type)        == <<64 + SelectInSeq(Grammar, LAMBDA t : t = type)>>
ParseFieldType(name)  == Grammar[name[1] - 64]
IsTypeName(name)      == Len(name) = 1 /\ name[1] - 64 \in DOMAIN Grammar

-----------------------------------------------------------------------------
(* The tables. *)

Unknown           == [kind |-> "unknown"]
Instance(types)   == [kind |-> "instance", types |-> types]
Collection(type)  == [kind |-> "collection", type |-> type]
Fresh == [classes |-> <<>>, targets |-> [ref \in 0..MaxRef |-> Unknown]]

\* Collections take the refs after their instance, in field order.
Collections(types) == SelectSeq(types, IsCollectionField)

\* A ref is bound again each time an instance is sent under it.
Bind(tables, ref, types) ==
    [tables EXCEPT !.targets =
        [r \in 0..MaxRef |->
            CASE r = ref -> Instance(types)
              [] r \in ref + 1..ref + Len(Collections(types)) -> Collection(Collections(types)[r - ref])
              [] OTHER -> @[r]]]

\* The class must be known, and the block must not run over the last refId.
CanBind(tables, id, ref) ==
    /\ id + 1 \in DOMAIN tables.classes
    /\ ref + Len(Collections(tables.classes[id + 1].types)) < Word
BindRef(tables, id, ref) == Bind(tables, ref, tables.classes[id + 1].types)

\* A new class takes the next id; an old one may be restated, but not differently.  The
\* root is ref 0, of class 0.
CanDefine(tables, id, class) ==
    \/ id = Len(tables.classes)
    \/ id + 1 \in DOMAIN tables.classes /\ tables.classes[id + 1] = class
Define(tables, id, class) ==
    IF id < Len(tables.classes) THEN tables
    ELSE LET more == [tables EXCEPT !.classes = Append(@, class)]
         IN IF id = 0 THEN Bind(more, 0, class.types) ELSE more

-----------------------------------------------------------------------------
(* The encoder: the bytes so far, the tables, and the ref the last op ended on. *)

Ref(id, ref) == [t |-> "ref", id |-> id, ref |-> ref]
At(n) == W!Num(n * W!Unit)

Put(s, bytes) == [s EXCEPT !.out = @ \o bytes]
Fails(s) == [s EXCEPT !.ok = FALSE]

WriteScalar(s, type, x) ==
    IF W!FitsScalar(type, x) THEN Put(s, W!WriteScalar(type, x)) ELSE Fails(s)

\* The next op is about what this one places, unless it names another.
EncodeRef(s, x) ==
    IF x.t # "ref" \/ ~CanBind(s.tables, x.id, x.ref) THEN Fails(s)
    ELSE [Put(s, W!Varint(x.id) \o W!Varint(x.ref))
             EXCEPT !.tables = BindRef(@, x.id, x.ref), !.last = x.ref]

EncodeValue(s, type, x) ==
    CASE type.kind = "schema" -> EncodeRef(s, x)
      [] type.kind = "scalar" -> WriteScalar(s, type.type, x)
      [] OTHER -> Fails(s)
EncodeElement(s, type, x) ==
    IF type.kind = "schemaMap" THEN EncodeRef(s, x) ELSE WriteScalar(s, type.type, x)

\* A map's key has its own type, an array's is an index, and a set is its own keys.
KeyType(type) == CASE IsArray(type) -> "uint32"
                   [] type.kind = "set" -> type.type
                   [] type.kind = "schemaMap" -> type.key

\* How many parts an op on a collection has.
Arity(code, type) ==
    CASE code = 3 -> 2
      [] code = 2 \/ (code = 1 /\ type.kind = "set") -> 3
      [] OTHER -> 4
EncodePayload(s, op, type) ==
    CASE Len(op) # Arity(op[1], type) \/ (op[1] = 0 /\ ~IsArray(type)) -> Fails(s)
      [] Len(op) = 2 /\ op[1] = 3 -> s
      [] Len(op) = 3 /\ Arity(op[1], type) = 3 -> WriteScalar(s, KeyType(type), op[3])
      [] OTHER -> EncodeElement(WriteScalar(s, KeyType(type), op[3]), type, op[4])

\* A field's name is its class's: names are compared, and never looked up.
ClassBytes(class) ==
    FoldLeft(LAMBDA b, t : b \o W!StringBytes(class.name) \o W!StringBytes(TypeName(t)),
             W!StringBytes(class.name) \o W!Varint(Len(class.types)), class.types)
EncodeDefine(s, id, class) ==
    IF ~CanDefine(s.tables, id, class) THEN Fails(s)
    ELSE [Put(s, <<128>> \o W!Varint(id) \o ClassBytes(class)) EXCEPT !.tables = Define(@, id, class)]

\* A SET on an instance carries its field index in the header; one that does not fit
\* follows it.
Header(op, last, field, f) ==
    <<op[1] * 32 + (IF op[2] = last THEN 16 ELSE 0) + f>>
    \o (IF op[2] = last THEN <<>> ELSE W!Varint(op[2]))
    \o (IF f = Escape THEN W!Varint(field - Escape) ELSE <<>>)
Begin(s, op, field) ==
    [Put(s, Header(op, s.last, field, IF field < Escape THEN field ELSE Escape)) EXCEPT !.last = op[2]]

EncodeField(s, op, types, field) ==
    IF op[1] # 0 \/ field + 1 \notin DOMAIN types THEN Fails(s)
    ELSE EncodeValue(Begin(s, op, field), types[field + 1], op[4])
EncodeOn(s, op, target) ==
    IF target.kind = "instance" THEN EncodeField(s, op, target.types, W!IntOf(op[3]))
    ELSE EncodePayload(Begin(s, op, 0), op, target.type)

EncodeOp(s, op) ==
    CASE ~s.ok -> s
      [] s.ok /\ op[1] = 4 -> EncodeDefine(s, op[2], op[3])
      [] s.ok /\ op[1] # 4 /\ s.tables.targets[op[2]] = Unknown -> Fails(s)
      [] OTHER -> EncodeOn(s, op, s.tables.targets[op[2]])

\* One frame.  A failure undoes everything it did to the tables.
Rollback(s, begin) == IF s.ok THEN s ELSE [s EXCEPT !.tables = begin, !.out = <<>>]
EncodeOps(tables, ops) ==
    Rollback(FoldLeft(EncodeOp, [tables |-> tables, last |-> 0, out |-> <<>>, ok |-> TRUE], ops),
             tables)

-----------------------------------------------------------------------------
(* The decoder: what is left to read, the tables, and the last ref. *)

Refuse(s) == [s EXCEPT !.r = W!Failing]

\* Values that are read with the reader they leave, and the tables they extend.
Taken(tables, x) == [tables |-> tables, v |-> x.v, r |-> x.r]
RefRead(tables, id, ref) ==
    IF ref.r.err \/ ref.v > MaxRef \/ ~CanBind(tables, id, ref.v)
    THEN Taken(tables, W!Read(At(0), W!Failing))
    ELSE Taken(BindRef(tables, id, ref.v), W!Read(Ref(id, ref.v), ref.r))
IdRead(tables, id) == RefRead(tables, id.v, W!ReadVarint(id.r))
ReadRef(tables, r) == IdRead(tables, W!ReadVarint(r))
ReadValue(tables, type, r) ==
    CASE type.kind = "schema" -> ReadRef(tables, r)
      [] type.kind = "scalar" -> Taken(tables, W!ReadScalar(r, type.type))
      [] OTHER -> Taken(tables, W!Read(At(0), W!Failing))
ReadElement(tables, type, r) ==
    IF type.kind = "schemaMap" THEN ReadRef(tables, r)
    ELSE Taken(tables, W!ReadScalar(r, type.type))
ReadKey(type, r) == W!ReadScalar(r, KeyType(type))

\* The op is read; the next one may be about the ref it carried.
Settle(s, op, tables, x, ref) ==
    [s EXCEPT !.ops = Append(@, op), !.tables = tables, !.r = x.r,
              !.last = IF x.v.t = "ref" THEN x.v.ref ELSE ref]

Decoded(s, op, ref, x) == Settle(s, op, x.tables, x, ref)
DecodeValue(s, ref, n, x) == Decoded(s, <<0, ref, At(n), x.v>>, ref, x)
DecodeField(s, ref, types, n) ==
    IF n.r.err \/ n.v + 1 \notin DOMAIN types THEN Refuse(s)
    ELSE DecodeValue(s, ref, n.v, ReadValue(s.tables, types[n.v + 1], n.r))
FieldIndex(f, n) == IF f = Escape THEN W!Read(Escape + n.v, n.r) ELSE n

\* What an op on a collection says before its element: a key, an index, a set's element.
DecodeElement(s, op, ref, x) == Decoded(s, Append(op, x.v), ref, x)
DecodeAtKey(s, code, ref, type, k) ==
    IF code = 2 THEN Settle(s, <<2, ref, k.v>>, s.tables, k, ref)
    ELSE DecodeElement(s, <<code, ref, k.v>>, ref, ReadElement(s.tables, type, k.r))
DecodeIn(s, code, ref, type, r) ==
    CASE code = 0 /\ ~IsArray(type) -> Refuse(s)
      [] code = 1 /\ type.kind = "set" ->
            DecodeElement(s, <<1, ref>>, ref, ReadElement(s.tables, type, r))
      [] code = 3 -> Settle(s, <<3, ref>>, s.tables, W!Read(At(0), r), ref)
      [] OTHER -> DecodeAtKey(s, code, ref, type, ReadKey(type, r))

DecodeOn(s, code, f, ref, target, r) ==
    CASE target.kind = "instance" ->
            IF code # 0 THEN Refuse(s)
            ELSE DecodeField(s, ref, target.types,
                             FieldIndex(f, IF f = Escape THEN W!ReadVarint(r) ELSE W!Read(f, r)))
      [] target.kind = "collection" -> IF f # 0 THEN Refuse(s) ELSE DecodeIn(s, code, ref, target.type, r)

\* A class: its types' names must be in the grammar, and it must fit the table.
DecodeType(types, name) ==
    IF name.r.err \/ ~IsTypeName(name.v) THEN W!Read(types, W!Failing)
    ELSE W!Read(Append(types, ParseFieldType(name.v)), name.r)
DecodeTypes(count) ==
    FoldLeft(LAMBDA a, i : DecodeType(a.v, W!ReadString(W!ReadString(a.r).r)),
             W!Read(<<>>, count.r), [i \in 1..count.v |-> i])
DefineTyped(s, id, class, r) ==
    IF r.err \/ ~CanDefine(s.tables, id, class) THEN Refuse(s)
    ELSE [s EXCEPT !.ops = Append(@, <<4, id, class>>), !.r = r, !.tables = Define(@, id, class)]
DefineNamed(s, id, name, types) ==
    DefineTyped(s, id, [name |-> name, types |-> types.v], types.r)
DefineHead(s, id, name) == DefineNamed(s, id, name.v, DecodeTypes(W!ReadCount(name.r)))
DefineId(s, id) == DefineHead(s, id.v, W!ReadString(id.r))
DecodeDefine(s, r) == DefineId(s, W!ReadVarint(r))

DecodeTarget(s, code, f, ref) ==
    IF ref.r.err \/ ref.v > MaxRef \/ s.tables.targets[ref.v] = Unknown THEN Refuse(s)
    ELSE DecodeOn(s, code, f, ref.v, s.tables.targets[ref.v], ref.r)
DecodeBits(s, code, same, f, r) ==
    CASE code = 4 -> IF same \/ f # 0 THEN Refuse(s) ELSE DecodeDefine(s, r)
      [] code < 4 -> DecodeTarget(s, code, f, IF same THEN W!Read(s.last, r) ELSE W!ReadVarint(r))
      [] OTHER -> Refuse(s)
DecodeHeader(s, h) == DecodeBits(s, h.v \div 32, (h.v \div 16) % 2 = 1, h.v % 16, h.r)

RECURSIVE DecodeFrom(_)
DecodeFrom(s) == IF s.r.err \/ s.r.in = <<>> THEN s ELSE DecodeFrom(DecodeHeader(s, W!U8(s.r)))

\* One frame: its ops, or nothing and the tables as they were.
DecodeEnds(s, begin) ==
    IF s.r.err THEN [ok |-> FALSE, ops |-> <<>>, tables |-> begin]
    ELSE [ok |-> TRUE, ops |-> s.ops, tables |-> s.tables]
DecodeOps(tables, bytes) ==
    DecodeEnds(DecodeFrom([r |-> W!Reader(bytes), tables |-> tables, last |-> 0, ops |-> <<>>]), tables)
=============================================================================
