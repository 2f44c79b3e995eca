-------------------------------- MODULE StateTree --------------------------------
(***************************************************************************)
(* The server's side of state references: a tree of schema instances, the  *)
(* change records its mutators keep, the operations a tick is turned into   *)
(* and the commit that ends it (packages/state/src: schema.ts,              *)
(* collections.ts, change-tree.ts, encoder.ts).                             *)
(*                                                                          *)
(* The root has two collections, the array `row` and the map `stash`, which *)
(* hold items and the bag.  An item has one primitive; the bag has a nested  *)
(* item `held` and a set `pool` of items.  A tree is a record, and what the  *)
(* code does to the objects is a function of it.                             *)
(***************************************************************************)
EXTENDS Integers, Sequences, FiniteSets, SequencesExt

CONSTANTS Item,      \* the instances without collections
          Bag,       \* the one instance with a nested field and a collection
          KeyOrder,  \* the keys of the map, in the order it is iterated
          Zero       \* the value receivers start a primitive at

Root == "root"
Nil == "none"
Inst == Item \cup {Bag}
StashKey == ToSet(KeyOrder)
Coll == {"row", "stash", "pool"}

ClassOf(i) == IF i = Bag THEN "Bag" ELSE "Item"
OwnerOf(c) == IF c = "pool" THEN Bag ELSE Root
SizeOf(class) == CASE class = "Item" -> 1 [] class = "Bag" -> 2 [] class = "Root" -> 3

\* The object that holds an instance, by the field it hangs from.
ParentOf(t, i) == CASE t.at[i] = Nil -> Nil
                    [] t.at[i] = "held" -> Bag
                    [] OTHER -> OwnerOf(t.at[i])

OnWire(t, i)   == i # Nil /\ t.wire[i] # -1
Tracking(t, c) == OnWire(t, OwnerOf(c))
RefOf(t, c)    == CASE c = "row" -> t.wire[Root] + 1
                    [] c = "stash" -> t.wire[Root] + 2
                    [] c = "pool" -> t.wire[Bag] + 1
Elements(t, c) == CASE c = "row" -> t.row
                    [] c = "pool" -> t.pool
                    [] c = "stash" -> SelectSeq([n \in DOMAIN KeyOrder |-> t.stash[KeyOrder[n]]],
                                                LAMBDA i : i # Nil)

AddOnce(s, e) == IF Contains(s, e) THEN s ELSE Append(s, e)

-----------------------------------------------------------------------------
(* Links between instances, and the dirtiness that climbs along them. *)

\* _propagate: a child is noted under each parent once, and the parent under its own.
Raise(t, p, i) ==
    IF Contains(t.kids[p], i) THEN t
    ELSE [t EXCEPT !.kids[p] = Append(@, i),
                   !.kids[Root] = IF p = Bag /\ Contains(t.parents[Bag], Root)
                                  THEN AddOnce(@, Bag) ELSE @]
Propagate(t, i) ==
    IF i = Root THEN t ELSE FoldLeft(LAMBDA u, p : Raise(u, p, i), t, t.parents[i])

IsDirty(t, i) ==
    \/ i \in t.changed
    \/ i \in {Root, Bag} /\ (t.dirty[i] # <<>> \/ t.kids[i] # <<>>)

PropagateDirt(t, i) == IF IsDirty(t, i) THEN Propagate(t, i) ELSE t

Lost(kids, i, p, old, new) == IF Contains(old, p) /\ ~Contains(new, p) THEN Remove(kids, i) ELSE kids

SetParents(t, i, parents) ==
    IF t.parents[i] = parents THEN t
    ELSE PropagateDirt([t EXCEPT !.parents[i] = parents,
                                 !.kids[Root] = Lost(@, i, Root, t.parents[i], parents),
                                 !.kids[Bag] = Lost(@, i, Bag, t.parents[i], parents)], i)

LinkTrees(t, i) ==
    SetParents(t, i, FoldLeft(LAMBDA ps, h : AddOnce(ps, OwnerOf(h.in)),
                          IF t.at[i] = "held" THEN <<Bag>> ELSE <<>>, t.holders[i]))

Link(t, i, field) == LinkTrees([t EXCEPT !.at[i] = field], i)

HolderAt(t, i, c) == SelectInSeq(t.holders[i], LAMBDA h : h.in = c)

Counted(holders, c, n) ==
    IF n = 0 THEN Append(holders, [in |-> c, n |-> 1]) ELSE [holders EXCEPT ![n].n = @ + 1]

\* A collection becomes the parent unless the parent is on the wire and it is not.
AttachTo(t, i, field) ==
    LinkTrees(IF field = "held" THEN [t EXCEPT !.at[i] = field]
              ELSE [t EXCEPT !.holders[i] = Counted(@, field, HolderAt(t, i, field)),
                             !.at[i] = IF OnWire(t, ParentOf(t, i)) /\ ~OnWire(t, OwnerOf(field))
                                       THEN @ ELSE field], i)

\* A holder on the wire if there is one, else the fallback.
Holding(t, i, fallback) ==
    LET n == SelectInSeq(t.holders[i], LAMBDA h : OnWire(t, OwnerOf(h.in)))
    IN IF n = 0 THEN fallback ELSE t.holders[i][n].in

\* _relink: another holder on the wire if the parent is not.
Relink(t, i) == IF OnWire(t, ParentOf(t, i)) THEN t ELSE Link(t, i, Holding(t, i, t.at[i]))

\* _relink(true): the parent let go, any holder left will do.
Orphaned(t, i) ==
    Link(t, i, Holding(t, i, IF t.holders[i] = <<>> THEN Nil ELSE t.holders[i][1].in))

Dropped(t, i, n, c) ==
    IF t.at[i] = c THEN Orphaned([t EXCEPT !.holders[i] = RemoveAt(@, n)], i)
    ELSE LinkTrees([t EXCEPT !.holders[i] = RemoveAt(@, n)], i)

DetachFrom(t, i, c) ==
    LET n == HolderAt(t, i, c)
    IN IF n # 0 /\ t.holders[i][n].n > 1 THEN [t EXCEPT !.holders[i][n].n = @ - 1]
       ELSE Dropped(t, i, n, c)

PreferHolder(t, i, c) ==
    IF OnWire(t, ParentOf(t, i)) \/ HolderAt(t, i, c) = 0 THEN t ELSE Link(t, i, c)

HeldBy(t, i, owner) ==
    ParentOf(t, i) = owner \/ \E n \in DOMAIN t.holders[i] : OwnerOf(t.holders[i][n].in) = owner

-----------------------------------------------------------------------------
(* Identities on the wire: given out in blocks, taken back at the commit. *)

ClearRecords(t, c) ==
    [t EXCEPT !.removed[c] = <<>>,
              !.log = IF c = "row" THEN <<>> ELSE @,
              !.touched[c] = <<>>,
              !.cleared[c] = FALSE]

ClearNode(t, i) ==
    IF i \in Item THEN [t EXCEPT !.changed = @ \ {i}]
    ELSE [t EXCEPT !.changed = @ \ {i}, !.dirty[i] = <<>>, !.kids[i] = <<>>]

UnsendItem(u, i) ==
    IF u.t.wire[i] = -1 THEN u
    ELSE [t |-> ClearNode([u.t EXCEPT !.wire[i] = -1], i),
          blocks |-> Append(u.blocks, <<ClassOf(i), u.t.wire[i]>>)]

\* What the bag held or let go of this tick goes with it, unless somebody else on the
\* wire holds it.
UnsendOrphan(u, i) == IF OnWire(u.t, ParentOf(u.t, i)) THEN u ELSE UnsendItem(u, i)
UnsendElement(u, i) == UnsendOrphan([u EXCEPT !.t = Relink(@, i)], i)

\* The bag's own block, those it gave up this tick, its nested item, and its elements.
UnsendHeld(u) == IF u.t.at[u.t.held] = "held" THEN UnsendItem(u, u.t.held) ELSE u
UnsendBag(u) ==
    [FoldLeft(UnsendElement,
              UnsendHeld([t |-> ClearRecords([u.t EXCEPT !.wire[Bag] = -1, !.unsent = <<>>], "pool"),
                          blocks |-> Append(u.blocks, <<"Bag", u.t.wire[Bag]>>) \o u.t.unsent]),
              u.t.pool \o u.t.removed["pool"]) EXCEPT !.t = ClearNode(@, Bag)]

Unsend(u, i) == IF i = Bag /\ u.t.wire[i] # -1 THEN UnsendBag(u) ELSE UnsendItem(u, i)

Unsending(t) == [t |-> t, blocks |-> <<>>]

\* The freed block before a new one, last freed first.
Allocate(t, i, class) ==
    LET free == IF class = "Root" THEN <<>> ELSE t.free[class]
    IN IF free # <<>>
       THEN [t EXCEPT !.wire[i] = Last(free), !.free[class] = Front(@)]
       ELSE [t EXCEPT !.wire[i] = t.next, !.next = @ + SizeOf(class)]

Release(t, blocks) ==
    FoldLeft(LAMBDA u, b : [u EXCEPT !.free[b[1]] = Append(@, b[2])], t, blocks)

-----------------------------------------------------------------------------
(* What game code does to the tree. *)

MarkDirty(t, c) ==
    IF ~Tracking(t, c) THEN t
    ELSE Propagate([t EXCEPT !.dirty[OwnerOf(c)] = AddOnce(@, c)], OwnerOf(c))

Unlink(t, i, c) ==
    [DetachFrom(t, i, c) EXCEPT !.removed[c] = IF Tracking(t, c) THEN Append(@, i) ELSE @]

\* A collection takes an instance that no nested field holds and that does not contain it.
Accepts(t, c, i) == t.at[i] # "held" /\ (c = "pool" => i # Bag)

\* A nested field takes an instance that nothing holds.
Attachable(t, i) == t.at[i] = Nil

SetValue(t, i, v) ==
    IF OnWire(t, i) THEN Propagate([t EXCEPT !.val[i] = v, !.changed = @ \cup {i}], i)
    ELSE [t EXCEPT !.val[i] = v]

Log(t, op) ==
    IF Tracking(t, "row") THEN MarkDirty([t EXCEPT !.log = Append(@, op)], "row") ELSE t

RowInsert(t, n, i) ==
    Log(AttachTo([t EXCEPT !.row = InsertAt(@, n, i)], i, "row"),
        [op |-> "insert", at |-> n, inst |-> i])

RowRemove(t, n) ==
    Log(Unlink([t EXCEPT !.row = RemoveAt(@, n)], t.row[n], "row"), [op |-> "remove", at |-> n])

RowSet(t, n, i) ==
    Log(AttachTo(Unlink([t EXCEPT !.row[n] = i], t.row[n], "row"), i, "row"),
        [op |-> "replace", at |-> n, inst |-> i])

RowClear(t) ==
    MarkDirty([FoldLeft(LAMBDA u, i : Unlink(u, i, "row"), [t EXCEPT !.row = <<>>], t.row)
                 EXCEPT !.log = IF Tracking(t, "row") THEN <<[op |-> "clear"]>> ELSE @], "row")

RowReverse(t) ==
    FoldLeft(LAMBDA u, n : IF t.row[n] = u.row[n] THEN u
                           ELSE Log(u, [op |-> "replace", at |-> n, inst |-> u.row[n]]),
             [t EXCEPT !.row = Reverse(@)], [n \in DOMAIN t.row |-> n])

\* A key's record is of the moment it is first touched in the tick.
RecordKey(t, k) ==
    IF t.cleared["stash"] \/ ~Tracking(t, "stash")
       \/ \E n \in DOMAIN t.touched["stash"] : t.touched["stash"][n].key = k
    THEN t
    ELSE [t EXCEPT !.touched["stash"] =
            Append(@, [key |-> k, prev |-> t.stash[k],
                       ref |-> IF t.stash[k] = Nil THEN -1 ELSE t.wire[t.stash[k]]])]

UnlinkOld(t, old, c) == IF old = Nil THEN t ELSE Unlink(t, old, c)

StashSet(t, k, i) ==
    MarkDirty(AttachTo(UnlinkOld([RecordKey(t, k) EXCEPT !.stash[k] = i], t.stash[k], "stash"),
                       i, "stash"), "stash")

StashDelete(t, k) ==
    MarkDirty(Unlink([RecordKey(t, k) EXCEPT !.stash[k] = Nil], t.stash[k], "stash"), "stash")

\* clear() of a map or a set: the records of the tick so far no longer matter.
Cleared(t, c) ==
    IF Tracking(t, c) THEN [t EXCEPT !.cleared[c] = TRUE, !.touched[c] = <<>>] ELSE t

StashClear(t) ==
    MarkDirty(FoldLeft(LAMBDA u, i : Unlink(u, i, "stash"),
                       [Cleared(t, "stash") EXCEPT !.stash = [k \in StashKey |-> Nil]],
                       Elements(t, "stash")),
              "stash")

RecordElement(t, i) ==
    IF t.cleared["pool"] \/ ~Tracking(t, "pool")
       \/ \E n \in DOMAIN t.touched["pool"] : t.touched["pool"][n].inst = i
    THEN t
    ELSE [t EXCEPT !.touched["pool"] =
            Append(@, [inst |-> i, had |-> Contains(t.pool, i), ref |-> t.wire[i]])]

PoolAdd(t, i) ==
    MarkDirty(AttachTo([RecordElement(t, i) EXCEPT !.pool = Append(@, i)], i, "pool"), "pool")

PoolDelete(t, i) ==
    MarkDirty(Unlink([RecordElement(t, i) EXCEPT !.pool = Remove(@, i)], i, "pool"), "pool")

PoolClear(t) ==
    MarkDirty(FoldLeft(LAMBDA u, i : Unlink(u, i, "pool"), [Cleared(t, "pool") EXCEPT !.pool = <<>>],
                       t.pool),
              "pool")

\* replaceNested: the old instance and the new one both lose their identities.
GiveUp(u) == Propagate([u.t EXCEPT !.unsent = @ \o u.blocks, !.changed = @ \cup {Bag}], Bag)
Replaced(t, old, new) ==
    IF OnWire(t, Bag) THEN GiveUp(Unsend(Unsend(Unsending(t), old), new)) ELSE t

Assign(t, i) == AttachTo(Replaced(Orphaned([t EXCEPT !.held = i], t.held), t.held, i), i, "held")

-----------------------------------------------------------------------------
(* The operations a tick, or a snapshot, is turned into. *)

Emitting(t) == [t |-> t, ops |-> <<>>, visited |-> {}]
Emit(e, op) == [e EXCEPT !.ops = Append(@, op)]

Ref(e, i, class) ==
    IF OnWire(e.t, i) THEN e
    ELSE [e EXCEPT !.t = Allocate(@, i, class), !.visited = @ \cup {i}]

Place(op, ref, key, t, i) ==
    [op |-> op, ref |-> ref, key |-> key, class |-> ClassOf(i), to |-> t.wire[i]]
Value(t, i) == [op |-> "value", ref |-> t.wire[i], val |-> t.val[i]]

ItemContent(e, i) == IF e.t.val[i] = Zero THEN e ELSE Emit(e, Value(e.t, i))

Unseen(e, i) == OnWire(e.t, i) /\ i \notin e.visited
ItemVisit(e, i) ==
    IF ~Unseen(e, i) THEN e
    ELSE [e EXCEPT !.visited = @ \cup {i},
                   !.ops = IF i \in e.t.changed THEN Append(@, Value(e.t, i)) ELSE @]

\* A reference is followed by the content of the instance if it is new (or, in a full
\* resend, always), and otherwise by its changes.
ItemPlaced(e, i, full) == IF full THEN ItemContent(e, i) ELSE ItemVisit(e, i)
Placed(r, op, ref, key, i) == Emit(r, Place(op, ref, key, r.t, i))
AttachItem(e, op, ref, key, i, deep) ==
    ItemPlaced(Placed(Ref(e, i, "Item"), op, ref, key, i), i, ~OnWire(e.t, i) \/ deep)

Preferring(f, i, c) == [f EXCEPT !.t = PreferHolder(@, i, c)]

\* Each element follows this holder if its parent is not on the wire.
PoolContent(e, deep) ==
    FoldLeft(LAMBDA f, i : AttachItem(Preferring(f, i, "pool"), "add", RefOf(f.t, "pool"), Nil, i, deep),
         e, e.t.pool)

Gone(e, ref, key) == Emit(e, [op |-> "remove", ref |-> ref, key |-> key])

\* An element touched in the tick: `sent` is the identity receivers know it by.
PoolTouchedAs(e, i, here, had, sent) ==
    IF here /\ (~had \/ e.t.wire[i] # sent)
    THEN AttachItem(IF had /\ sent # -1 THEN Gone(e, RefOf(e.t, "pool"), sent) ELSE e,
                    "add", RefOf(e.t, "pool"), Nil, i, FALSE)
    ELSE IF ~here /\ had /\ sent # -1 THEN Gone(e, RefOf(e.t, "pool"), sent) ELSE e
PoolTouched(e, r) ==
    PoolTouchedAs(e, r.inst, Contains(e.t.pool, r.inst), r.had,
                  IF r.ref # -1 THEN r.ref ELSE e.t.wire[r.inst])

PoolOps(e) ==
    IF e.t.cleared["pool"]
    THEN PoolContent(Emit(e, [op |-> "clear", ref |-> RefOf(e.t, "pool")]), FALSE)
    ELSE FoldLeft(PoolTouched, e, e.t.touched["pool"])

\* A nested field that is sent by the identity the instance already has.
Nested_Known(e, i, deep) == AttachItem(e, "nest", e.t.wire[Bag], Nil, i, deep)

\* Outside a full resend, an instance that an earlier operation placed is sent anew.
SentAnew(e, u) == [e EXCEPT !.t = [u.t EXCEPT !.dropped = @ \o u.blocks]]
Nested(e, i, deep) ==
    AttachItem(IF deep \/ ~OnWire(e.t, i) THEN e ELSE SentAnew(e, UnsendItem(Unsending(e.t), i)),
               "nest", e.t.wire[Bag], Nil, i, deep)

\* A dirty child that the instance no longer holds is not its to visit.
VisitField(e) == IF Bag \in e.t.changed THEN Nested(e, e.t.held, FALSE) ELSE e
VisitKids(e) ==
    FoldLeft(LAMBDA f, x : IF HeldBy(f.t, x, Bag) THEN ItemVisit(f, x) ELSE f, e, e.t.kids[Bag])
VisitBag(e) ==
    IF Unseen(e, Bag) THEN VisitKids(PoolOps(VisitField([e EXCEPT !.visited = @ \cup {Bag}]))) ELSE e
Visit(e, i) == IF i = Bag THEN VisitBag(e) ELSE ItemVisit(e, i)

BagPlaced(e, full, deep) ==
    IF full THEN PoolContent(Nested(e, e.t.held, deep), deep) ELSE VisitBag(e)
AttachBag(e, op, ref, key, deep) ==
    BagPlaced(Placed(Ref(e, Bag, "Bag"), op, ref, key, Bag), ~OnWire(e.t, Bag) \/ deep, deep)
Attach(e, op, ref, key, i, deep) ==
    IF i = Bag THEN AttachBag(e, op, ref, key, deep) ELSE AttachItem(e, op, ref, key, i, deep)

RowContent(e, deep) ==
    FoldLeft(LAMBDA f, n : Attach(Preferring(f, f.t.row[n], "row"), "add", RefOf(f.t, "row"), n,
                              f.t.row[n], deep),
         e, [n \in DOMAIN e.t.row |-> n])

StashContent(e, deep) ==
    FoldLeft(LAMBDA f, k : IF f.t.stash[k] = Nil THEN f
                       ELSE Attach(Preferring(f, f.t.stash[k], "stash"), "add",
                                   RefOf(f.t, "stash"), k, f.t.stash[k], deep),
         e, KeyOrder)

RowOp(e, o) ==
    CASE o.op = "remove" -> Gone(e, RefOf(e.t, "row"), o.at)
      [] o.op = "clear" -> Emit(e, [op |-> "clear", ref |-> RefOf(e.t, "row")])
      [] OTHER -> Attach(e, IF o.op = "insert" THEN "add" ELSE "replace", RefOf(e.t, "row"),
                         o.at, o.inst, FALSE)
RowOps(e) == FoldLeft(RowOp, e, e.t.log)

\* A key that has its old element back is sent only if receivers know it by another identity.
StashTouchedAs(e, r, i) ==
    CASE i = Nil /\ r.prev # Nil -> Gone(e, RefOf(e.t, "stash"), r.key)
      [] i # Nil /\ (r.prev # i \/ e.t.wire[i] # r.ref) ->
            Attach(e, "add", RefOf(e.t, "stash"), r.key, i, FALSE)
      [] OTHER -> e
StashTouched(e, r) == StashTouchedAs(e, r, e.t.stash[r.key])

StashOps(e) ==
    IF e.t.cleared["stash"]
    THEN StashContent(Emit(e, [op |-> "clear", ref |-> RefOf(e.t, "stash")]), FALSE)
    ELSE FoldLeft(StashTouched, e, e.t.touched["stash"])

\* generateDeltas: the root's dirty collections, then its dirty children.
DirtyCollections(e) ==
    FoldLeft(LAMBDA f, c : IF c = "row" THEN RowOps(f) ELSE StashOps(f), e, e.t.dirty[Root])
DirtyChildren(e) ==
    FoldLeft(LAMBDA f, i : IF HeldBy(f.t, i, Root) THEN Visit(f, i) ELSE f, e, e.t.kids[Root])
Deltas(t) == DirtyChildren(DirtyCollections(Emitting(t)))

\* encodeSnapshot: the content of every instance, whether it was sent before or not.
SnapshotOf(e) == StashContent(RowContent(e, TRUE), TRUE)
Snapshot(t) == SnapshotOf(Ref(Emitting(t), Root, "Root"))

\* clearChangeTrees: the blocks given up go free, and what no holder on the wire holds
\* any more is forgotten.
Freed(u) == Release(u.t, u.blocks)
ForgetOrphan(t, i) ==
    IF OnWire(t, ParentOf(t, i)) THEN t ELSE Freed(Unsend(Unsending(t), i))
Forget(t, i) == IF t.wire[i] = -1 THEN t ELSE ForgetOrphan(Relink(t, i), i)

CommitCollection(t, c) == ClearRecords(FoldLeft(Forget, t, t.removed[c]), c)
CommitCollections(t, p) == FoldLeft(CommitCollection, t, t.dirty[p])

CommitKids(t) == ClearNode(FoldLeft(ClearNode, t, t.kids[Bag]), Bag)
CommitBag(t) == CommitKids(CommitCollections([Release(t, t.unsent) EXCEPT !.unsent = <<>>], Bag))
CommitNode(t, i) == IF i = Bag THEN CommitBag(t) ELSE ClearNode(t, i)

CommitRoot(t) == ClearNode(FoldLeft(CommitNode, t, t.kids[Root]), Root)
CommitDropped(t) == [Release(t, t.dropped) EXCEPT !.dropped = <<>>]
Commit(t) == CommitDropped(CommitRoot(CommitCollections(t, Root)))
=============================================================================
