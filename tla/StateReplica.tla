------------------------------- MODULE StateReplica -------------------------------
(***************************************************************************)
(* The receiver's side of state references: the table that says which local *)
(* object a reference names, how many places hold each object, and what     *)
(* each operation of a frame does to them (packages/state/src/decoder.ts    *)
(* and the receiving half of collections.ts).                               *)
(*                                                                          *)
(* A local object is a number.  An object made for the bag comes with the    *)
(* object of its nested field, which it keeps for good: the receiver binds   *)
(* that one to whatever reference the field names.                           *)
(***************************************************************************)
EXTENDS Integers, Sequences, FiniteSets, SequencesExt

CONSTANTS Key, Zero

NoObject == -1
RootRow == "row"
RootStash == "stash"

\* What a reference names: an object, a collection of the root, or an object's pool.
Object(o) == [kind |-> "object", obj |-> o]
PoolOf(o) == [kind |-> "pool", obj |-> o]
RootHas(c) == [kind |-> c, obj |-> NoObject]

\* A replica bound to its root's class by the DEFINE of the first frame.
Blank ==
    [refs |-> [r \in {1, 2} |-> IF r = 1 THEN RootHas(RootRow) ELSE RootHas(RootStash)],
     refOf |-> <<>>, class |-> <<>>, holders |-> <<>>,
     val |-> <<>>, pool |-> <<>>, nested |-> <<>>,
     row |-> <<>>, stash |-> [k \in Key |-> NoObject],
     released |-> <<>>, error |-> FALSE]

Named(r, ref)  == ref \in DOMAIN r.refs
Kind(r, ref)   == IF Named(r, ref) THEN r.refs[ref].kind ELSE "unknown"
With(f, x, y)  == [z \in DOMAIN f \cup {x} |-> IF z = x THEN y ELSE f[z]]
Without(f, S)  == [z \in DOMAIN f \ S |-> f[z]]
Failed(r)      == [r EXCEPT !.error = TRUE]

\* An object made by `new`: none that anything still refers to, with its nested one.
Unused(r) == 1..Cardinality(DOMAIN r.val) + 2 \ DOMAIN r.val
Made(r, o, class, n) ==
    LET u == [r EXCEPT !.val = With(@, o, Zero), !.pool = With(@, o, <<>>)]
    IN IF class = "Item" THEN u
       ELSE [u EXCEPT !.val = With(@, n, Zero), !.pool = With(@, n, <<>>), !.nested = With(@, o, n)]

Retain(r, o) == [r EXCEPT !.holders[o] = @ + 1]

ReleaseOne(r, o) ==
    LET n == r.holders[o] - 1
    IN [r EXCEPT !.holders[o] = n, !.released = IF n <= 0 THEN Append(@, o) ELSE @]

BlockOf(ref, class) == IF class = "Bag" THEN {ref, ref + 1} ELSE {ref}

Unregister(r, ref, class) == [r EXCEPT !.refs = Without(@, BlockOf(ref, class))]

\* A nested object bound to a new reference: the old block is forgotten.
Rebind(r, o) ==
    LET u == [Unregister(r, r.refOf[o], r.class[o]) EXCEPT !.holders[o] = 0]
    IN FoldLeft(ReleaseOne, u, u.pool[o])

\* _bind: the object starts from zero under its reference, its pool under the next.
Bind(r, o, class, ref) ==
    LET u == IF o \in DOMAIN r.refOf /\ r.refOf[o] # ref THEN Rebind(r, o) ELSE r
        named == With(u.refs, ref, Object(o))
    IN [u EXCEPT !.refs = IF class = "Bag" THEN With(named, ref + 1, PoolOf(o)) ELSE named,
                 !.refOf = With(@, o, ref),
                 !.class = With(@, o, class),
                 !.holders = IF o \in DOMAIN @ THEN @ ELSE With(@, o, 0),
                 !.val[o] = Zero,
                 !.pool[o] = <<>>]

\* _decode: the object a reference names, made and bound if it is new here.
Decoded(r, op) ==
    IF Named(r, op.to) THEN [r |-> r, obj |-> r.refs[op.to].obj, ok |-> Kind(r, op.to) = "object"]
    ELSE LET o == Min(Unused(r))
             n == Min(Unused(r) \ {o})
         IN [r |-> Bind(Made(r, o, op.class, n), o, op.class, op.to), obj |-> o, ok |-> TRUE]

BindNested(r, o, op) ==
    IF o \in DOMAIN r.refOf /\ r.refOf[o] = op.to THEN r
    ELSE Retain(Bind(r, o, op.class, op.to), o)
SetNested(r, op) ==
    IF Kind(r, op.ref) = "object" THEN BindNested(r, r.nested[r.refs[op.ref].obj], op) ELSE Failed(r)

SetPrimitive(r, op) == [r EXCEPT !.val[r.refs[op.ref].obj] = op.val]

Replace(r, op) ==
    LET d == Decoded(r, op)
        old == d.r.row[op.key]
    IN IF ~d.ok \/ op.key \notin DOMAIN d.r.row THEN Failed(r)
       ELSE Retain(ReleaseOne([d.r EXCEPT !.row[op.key] = d.obj], old), d.obj)

Upsert(d, key) ==
    LET old == d.r.stash[key]
        u == [d.r EXCEPT !.stash[key] = d.obj]
        v == IF old = NoObject THEN u ELSE ReleaseOne(u, old)
    IN IF old = d.obj THEN d.r ELSE Retain(v, d.obj)

Insert(d, n) ==
    IF n > Len(d.r.row) + 1 THEN Failed(d.r)
    ELSE Retain([d.r EXCEPT !.row = InsertAt(@, n, d.obj)], d.obj)

AddToPool(d, ref) ==
    LET p == d.r.refs[ref].obj
    IN IF Contains(d.r.pool[p], d.obj) THEN d.r
       ELSE Retain([d.r EXCEPT !.pool[p] = Append(@, d.obj)], d.obj)

Add(r, op) ==
    LET d == Decoded(r, op)
    IN CASE ~d.ok -> Failed(r)
         [] d.ok /\ Kind(r, op.ref) = "stash" -> Upsert(d, op.key)
         [] d.ok /\ Kind(r, op.ref) = "row" -> Insert(d, op.key)
         [] d.ok /\ Kind(r, op.ref) = "pool" -> AddToPool(d, op.ref)
         [] OTHER -> Failed(r)

RemoveFromPool(r, op) ==
    LET p == r.refs[op.ref].obj
        o == IF Kind(r, op.key) = "object" THEN r.refs[op.key].obj ELSE NoObject
    IN IF ~Contains(r.pool[p], o) THEN r
       ELSE ReleaseOne([r EXCEPT !.pool[p] = Remove(@, o)], o)

RemoveOp(r, op) ==
    CASE Kind(r, op.ref) = "stash" ->
            IF r.stash[op.key] = NoObject THEN r
            ELSE ReleaseOne([r EXCEPT !.stash[op.key] = NoObject], r.stash[op.key])
      [] Kind(r, op.ref) = "row" ->
            IF op.key \notin DOMAIN r.row THEN Failed(r)
            ELSE ReleaseOne([r EXCEPT !.row = RemoveAt(@, op.key)], r.row[op.key])
      [] Kind(r, op.ref) = "pool" -> RemoveFromPool(r, op)
      [] OTHER -> Failed(r)

ReleaseAll(r, os) == FoldLeft(ReleaseOne, r, os)

ClearOp(r, op) ==
    CASE Kind(r, op.ref) = "stash" ->
            ReleaseAll([r EXCEPT !.stash = [k \in Key |-> NoObject]],
                       SelectSeq(FoldLeft(LAMBDA s, k : Append(s, r.stash[k]), <<>>, SetToSeq(Key)),
                                 LAMBDA o : o # NoObject))
      [] Kind(r, op.ref) = "row" -> ReleaseAll([r EXCEPT !.row = <<>>], r.row)
      [] Kind(r, op.ref) = "pool" ->
            LET p == r.refs[op.ref].obj IN ReleaseAll([r EXCEPT !.pool[p] = <<>>], r.pool[p])
      [] OTHER -> Failed(r)

\* One operation; after one that failed, nothing more of the frame is applied.
ApplyOp(r, op) ==
    CASE r.error -> r
      [] ~r.error /\ op.op = "nest" -> SetNested(r, op)
      [] ~r.error /\ op.op = "value" ->
            IF Kind(r, op.ref) = "object" THEN SetPrimitive(r, op) ELSE Failed(r)
      [] ~r.error /\ op.op = "replace" ->
            IF Kind(r, op.ref) = "row" THEN Replace(r, op) ELSE Failed(r)
      [] ~r.error /\ op.op = "add" -> IF Named(r, op.ref) THEN Add(r, op) ELSE Failed(r)
      [] ~r.error /\ op.op = "remove" -> RemoveOp(r, op)
      [] ~r.error /\ op.op = "clear" -> ClearOp(r, op)

Forgets(r, o) ==
    [Unregister(r, r.refOf[o], r.class[o]) EXCEPT !.refOf = Without(@, {o}),
                                                 !.class = Without(@, {o}),
                                                 !.holders = Without(@, {o})]

\* _drop: an object nothing holds is forgotten, and lets go of what it holds.
DropItem(r, o) ==
    IF o \notin DOMAIN r.refOf THEN r ELSE Forgets(r, o)

Drop(r, o) ==
    IF o \notin DOMAIN r.refOf THEN r
    ELSE FoldLeft(LAMBDA u, x :
                    IF x \notin DOMAIN u.holders THEN u
                    ELSE LET v == [u EXCEPT !.holders[x] = @ - 1]
                         IN IF v.holders[x] <= 0 THEN DropItem(v, x) ELSE v,
                  Forgets(r, o),
                  r.pool[o] \o (IF o \in DOMAIN r.nested THEN <<r.nested[o]>> ELSE <<>>))

\* collect(): at the end of the frame, what lost its last holder and found no other.
Collect(r) ==
    LET u == FoldLeft(LAMBDA w, o : IF o \in DOMAIN w.holders /\ w.holders[o] > 0 THEN w
                                    ELSE Drop(w, o),
                      r, r.released)
        live == DOMAIN u.refOf \cup ToSet(u.row)
                \cup {u.stash[k] : k \in {k \in Key : u.stash[k] # NoObject}}
        bags == live \cap DOMAIN u.nested
        seen == live \cup UNION {ToSet(u.pool[o]) : o \in live} \cup {u.nested[o] : o \in bags}
    IN [u EXCEPT !.released = <<>>,
                 !.val = [o \in seen |-> u.val[o]],
                 !.pool = [o \in seen |-> u.pool[o]],
                 !.nested = [o \in bags |-> u.nested[o]]]

ApplyDelta(r, ops) == Collect(FoldLeft(ApplyOp, r, ops))
=============================================================================
