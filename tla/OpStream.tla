-------------------------------- MODULE OpStream --------------------------------
(***************************************************************************)
(* The op stream of a room, byte by byte: what the encoder selects for each   *)
(* client (packages/state/src/encoder.ts), encoded through the room's one      *)
(* codec session, framed, and decoded through the session of each client       *)
(* (packages/core/src/room.ts, packages/client-js/src/room.ts).                *)
(*                                                                            *)
(* The root has two maps of instances of two classes, the second behind a      *)
(* filter, a number and a nested instance.  Blocks of references are used       *)
(* again, each by its class.                                                    *)
(* Maps hand out their keys in one order; an instance is never placed twice     *)
(* (StateRefs has that).                                                        *)
(***************************************************************************)
EXTENDS Integers, Sequences, FiniteSets, SequencesExt

CONSTANTS Base, Short, Word, Escape, MaxRef,
          Seats,       \* clients, in the order of the room's map
          MapKeys,     \* keys of the maps, in order
          Used,        \* the keys used in each map; not all need be a uint8
          Placed,      \* classes an instance may have
          MaxTouches   \* bound on changes

VARIABLES
    root,       \* the root's number and the nested instance's flag, and whether each changed
    items,      \* the maps
    before,     \* what a touched key held: the key's record in the map
    context,    \* the EncodeContext: class table, free blocks of each class, next ref;
                \* and the blocks that the commit will free
    allowed,    \* clients the filter admits
    visible,    \* clients it admitted when it was last evaluated for them
    joined,     \* clients in the room
    synced,     \* _synced
    server,     \* tables of the room's session
    session,    \* tables of each client's
    behind,     \* clients a patch could not be encoded for since their snapshot
    exact,      \* clients whose last frame decoded to the ops it was made of
    badKey,    \* a key that is no uint8 was used
    touches

opVars == <<root, items, before, context, allowed, visible, joined, synced, server, session,
            behind, exact, badKey, touches>>

S == INSTANCE SchemaSession
W == INSTANCE Wire

Home == {"open", "vault"}
Keys == ToSet(MapKeys)
Seat == ToSet(Seats)
Nothing == [class |-> "none", ref |-> -1]
NewItem(class) ==
    [class |-> class, ref |-> -1, val |-> 1, elem |-> 0, changed |-> FALSE, was |-> 0]

TypesOf(class) ==
    CASE class = "Root" -> <<S!SchemaMap("uint8"), S!SchemaMap("uint8"), S!Of("uint8"), S!Nested>>
      [] class = "Lamp" -> <<S!Of("bool"), S!Of("float32")>>
      [] class = "Unit" -> <<S!Of("int8"), S!Array("string")>>
      [] class = "Wall" -> <<S!Of("string"), S!Set("uint8")>>
NameOf(class) == CASE class = "Root" -> <<97>> [] class = "Lamp" -> <<98>>
                   [] class = "Unit" -> <<99>> [] class = "Wall" -> <<100>>
ClassOf(class) == [name |-> NameOf(class), types |-> TypesOf(class)]

MapRef(home) == IF home = "open" THEN 1 ELSE 2
LampRef == 3

-----------------------------------------------------------------------------
(* Emitting ops, each under a guard. *)

Emit(e, op, guard) == [e EXCEPT !.out = Append(@, [op |-> op, guard |-> guard])]

\* A class is defined for everyone the first time an instance of it is sent; a snapshot
\* begins with all of them instead.
IdOf(table, class) == SelectInSeq(table, LAMBDA c : c = class) - 1
DefineOp(class, id) == <<4, id, ClassOf(class)>>

\* A definition that only those get who see the filtered map.
KnowClass_Guarded(e, class) ==
    IF IdOf(e.table, class) >= 0 THEN e
    ELSE [e EXCEPT !.table = Append(@, class),
                   !.out = IF e.inline
                           THEN Append(@, [op |-> DefineOp(class, Len(e.table)), guard |-> "normal"])
                           ELSE @]

KnowClass(e, class) ==
    IF IdOf(e.table, class) >= 0 THEN e
    ELSE [e EXCEPT !.table = Append(@, class),
                   !.out = IF e.inline
                           THEN Append(@, [op |-> DefineOp(class, Len(e.table)), guard |-> "open"])
                           ELSE @]

\* The refs of an instance and its collection, taken from a freed block of its class first.
Allocate(e, home, k, class) ==
    IF e.free[class] = <<>>
    THEN [e EXCEPT !.items[home][k].ref = e.next, !.next = @ + 2]
    ELSE [e EXCEPT !.items[home][k].ref = Last(e.free[class]), !.free[class] = Front(@)]
Give(e, home, k) ==
    IF e.items[home][k].ref >= 0 THEN e ELSE Allocate(e, home, k, e.items[home][k].class)

Value(class, val) == IF class = "Unit" THEN W!Num(-W!Unit * val) ELSE W!Str([i \in 1..val |-> 97])
Text(n) == W!Str([i \in 1..n |-> 98])
ElementAdded(item) ==
    IF item.class = "Unit" THEN <<1, item.ref + 1, S!At(0), Text(item.elem)>>
    ELSE <<1, item.ref + 1, S!At(item.elem)>>
ElementRemoved(item) ==
    <<2, item.ref + 1, S!At(IF item.class = "Unit" THEN 0 ELSE item.was)>>

ValueSet(e, item, guard) == Emit(e, <<0, item.ref, S!At(0), Value(item.class, item.val)>>, guard)
ElementContent(e, item, guard) ==
    IF item.elem = 0 THEN e ELSE Emit(e, ElementAdded(item), guard)
ItemContent(e, item, guard) ==
    ElementContent(IF item.val = 0 THEN e ELSE ValueSet(e, item, guard), item, guard)

\* An instance that is placed: its reference, then, if it is new or the reader is, all it has.
Placing(e, home, k, item, guard) ==
    ItemContent(Emit(e, <<1, MapRef(home), S!At(k), S!Ref(IdOf(e.table, item.class), item.ref)>>, guard),
                item, guard)
Known(e, home, k, guard) == Placing(e, home, k, e.items[home][k], guard)
Attach(e, home, k, guard) ==
    Known(Give(KnowClass(e, e.items[home][k].class), home, k), home, k, guard)

MapContent(e, home, guard) ==
    FoldLeft(LAMBDA x, k : IF x.items[home][k] = Nothing THEN x ELSE Attach(x, home, k, guard),
             e, MapKeys)

\* The changes of a map: what a touched key holds now, and what it held before.
MapOps(e, home, guard) ==
    FoldLeft(LAMBDA x, k :
                CASE before[home][k] = "untouched" -> x
                  [] before[home][k] # "untouched" /\ x.items[home][k] # Nothing -> Attach(x, home, k, guard)
                  [] before[home][k] = "held" /\ x.items[home][k] = Nothing ->
                        Emit(x, <<2, MapRef(home), S!At(k)>>, guard)
                  [] OTHER -> x,
             e, MapKeys)

\* The changes of one instance: its value, its array or its set.
ElementOps(item) ==
    CASE item.was = item.elem -> <<>>
      [] item.was = 0 /\ item.elem # 0 -> <<ElementAdded(item)>>
      [] item.was # 0 /\ item.elem = 0 -> <<ElementRemoved(item)>>
      [] item.was # 0 /\ item.elem \notin {0, item.was} ->
            IF item.class = "Unit" THEN <<<<0, item.ref + 1, S!At(0), Text(item.elem)>>>>
            ELSE <<ElementRemoved(item), ElementAdded(item)>>
ItemOps(e, item, guard) ==
    FoldLeft(LAMBDA x, op : Emit(x, op, guard),
             IF item.changed THEN ValueSet(e, item, guard) ELSE e, ElementOps(item))
Visits(e, home, guard) ==
    FoldLeft(LAMBDA x, k : IF x.items[home][k] = Nothing \/ before[home][k] # "untouched" THEN x
                           ELSE ItemOps(x, x.items[home][k], guard),
             e, MapKeys)

TickSet(e) == Emit(e, <<0, 0, S!At(2), S!At(root.tick)>>, "open")
LitSet(e) == Emit(e, <<0, LampRef, S!At(0), W!Bool(root.lit)>>, "open")

\* Changes in the order of the tree: the root's own fields, its maps, its children; then what
\* the filter now shows or hides.
Flipped(S1, S2) == \E c \in synced : c \in S1 /\ c \notin S2
Shown(e) == IF Flipped(allowed, visible) THEN MapContent(e, "vault", "reveal") ELSE e
Hidden(e) == IF Flipped(visible, allowed) THEN Emit(e, <<3, MapRef("vault")>>, "hide") ELSE e
Ticked(e) == IF root.tickChanged THEN TickSet(e) ELSE e
Lit(e) == IF root.litChanged THEN LitSet(e) ELSE e
VisitRoot(e) ==
    Visits(Visits(Lit(MapOps(MapOps(Ticked(e), "open", "open"), "vault", "normal")), "open", "open"),
           "vault", "normal")

Emitter(inline) == [out |-> <<>>, inline |-> inline, items |-> items, table |-> context.table,
                    free |-> context.free, next |-> context.next]
Deltas == Hidden(Shown(VisitRoot(Emitter(TRUE))))

\* Everything, the nested instance included; its ref follows the root's the first time.
LampContent(e) ==
    Emit(e, <<0, 0, S!At(3), S!Ref(IdOf(e.table, "Lamp"), LampRef)>>, "open")
LitContent(e) == IF root.lit THEN LitSet(e) ELSE e
TickContent(e) == IF root.tick = 0 THEN e ELSE TickSet(e)
RootContent(e) ==
    LitContent(LampContent(TickContent(MapContent(MapContent(e, "open", "open"), "vault", "full"))))
Snapshot(e) == RootContent(KnowClass(KnowClass(e, "Root"), "Lamp"))

Passes(guard, c) ==
    CASE guard = "open" -> TRUE
      [] guard = "full" -> c \in allowed
      [] guard = "normal" -> c \in visible /\ c \in allowed
      [] guard = "reveal" -> c \notin visible /\ c \in allowed
      [] guard = "hide" -> c \in visible /\ c \notin allowed
OpsOf(kept) == [i \in DOMAIN kept |-> kept[i].op]
Select(out, c) == OpsOf(SelectSeq(out, LAMBDA x : Passes(x.guard, c)))

-----------------------------------------------------------------------------
(* Sending: one session encodes for everyone, each client decodes with its own. *)

Headers == [type \in {2, 3} |-> 1]
RoomRef(c) == 8 * SelectInSeq(Seats, LAMBDA d : d = c)
\* The body of a frame that names the room; a client has no other.
BodyFor(c, frame) == IF frame.header = <<RoomRef(c)>> THEN frame.body ELSE <<255>>
Received(type, c, bytes) ==
    BodyFor(c, W!DecodeFrame(W!EncodeFrame(type, <<RoomRef(c)>>, bytes), Headers))

\* Clients that are shown the same share one body; encoding the same ops again is the same
\* bytes, and leaves the same tables.
Delivered(t, c, ops, got) ==
    [t EXCEPT !.session[c] = got.tables,
              !.exact = IF got.ok /\ got.ops = ops THEN @ \cup {c} ELSE @ \ {c}]
Encoded(t, tables) == [t EXCEPT !.server = tables]
Patch(t, c, ops, body) ==
    IF ~body.ok THEN [t EXCEPT !.behind = @ \cup {c}]
    ELSE Delivered(Encoded(t, body.tables), c, ops,
                   S!DecodeOps(t.session[c], Received(3, c, body.out)))
SendPatch(t, c, ops) == IF ops = <<>> THEN t ELSE Patch(t, c, ops, S!EncodeOps(t.server, ops))

\* A snapshot starts a new session at its client; one that cannot be encoded is tried again.
Opened(t, c, ops, body) ==
    IF ~body.ok THEN t
    ELSE Delivered([Encoded(t, body.tables) EXCEPT !.synced = @ \cup {c}, !.behind = @ \ {c}], c, ops,
                   S!DecodeOps(S!Fresh, Received(2, c, body.out)))
SendSnapshot(t, c, ops) == Opened(t, c, ops, S!EncodeOps(t.server, ops))

Patched(out) ==
    FoldLeft(LAMBDA t, c : IF c \in synced THEN SendPatch(t, c, Select(out, c)) ELSE t,
             [server |-> server, session |-> session, synced |-> synced, behind |-> behind,
              exact |-> exact], Seats)
Defines(table) == [i \in DOMAIN table |-> DefineOp(table[i], i - 1)]
Joined(t, e) ==
    FoldLeft(LAMBDA x, c : IF c \in joined \ synced
                           THEN SendSnapshot(x, c, Defines(e.table) \o Select(e.out, c)) ELSE x,
             t, Seats)

\* The commit: nothing is changed any more, and the blocks of what left are free.
Clean(item) == IF item = Nothing THEN item ELSE [item EXCEPT !.changed = FALSE, !.was = item.elem]
Committed(e) == [home \in Home |-> [k \in Keys |-> Clean(e.items[home][k])]]

-----------------------------------------------------------------------------

OpInit ==
    /\ root = [tick |-> 0, lit |-> FALSE, tickChanged |-> FALSE, litChanged |-> FALSE]
    /\ \E home \in SUBSET Home :
        items = [h \in Home |-> [k \in Keys |->
                    IF h \in home /\ k = Head(MapKeys) THEN NewItem("Unit") ELSE Nothing]]
    /\ before = [home \in Home |-> [k \in Keys |-> "untouched"]]
    /\ context = [table |-> <<>>, free |-> [class \in Placed |-> <<>>], left |-> <<>>,
                   next |-> LampRef + 1]
    /\ allowed = {Head(Seats)} /\ visible = {}
    /\ joined = {Head(Seats)} /\ synced = {}
    /\ server = S!Fresh
    /\ session = [c \in Seat |-> S!Fresh]
    /\ behind = {} /\ exact = {} /\ badKey = FALSE /\ touches = 0

Touching == touches < MaxTouches /\ touches' = touches + 1
Stream == <<context, allowed, visible, joined, synced, server, session, behind, exact, badKey>>

\* What leaves a map is forgotten at the commit, if it was ever sent.
Leaves(home, k) ==
    [context EXCEPT !.left = IF items[home][k].ref < 0 THEN @ ELSE Append(@, items[home][k])]
Record(home, k) ==
    IF before[home][k] # "untouched" THEN before
    ELSE [before EXCEPT ![home][k] = IF items[home][k] = Nothing THEN "free" ELSE "held"]

\* A map's set: a new instance, perhaps in the place of another.
Place(home, k, class) ==
    /\ Touching
    /\ items' = [items EXCEPT ![home][k] = NewItem(class)]
    /\ before' = Record(home, k)
    /\ context' = Leaves(home, k)
    /\ badKey' = (badKey \/ k > 255)
    /\ UNCHANGED <<root, allowed, visible, joined, synced, server, session, behind, exact>>

Delete(home, k) ==
    /\ Touching
    /\ items[home][k] # Nothing
    /\ items' = [items EXCEPT ![home][k] = Nothing]
    /\ before' = Record(home, k)
    /\ context' = Leaves(home, k)
    /\ UNCHANGED <<root, allowed, visible, joined, synced, server, session, behind, exact, badKey>>

WriteItem(home, k) ==
    /\ Touching
    /\ items[home][k] # Nothing
    /\ items' = [items EXCEPT ![home][k].val = 1 - @, ![home][k].changed = TRUE]
    /\ UNCHANGED <<root, before, Stream>>

\* An array's or a set's one element, once a tick: added, replaced, removed.
WriteElement(home, k) ==
    /\ Touching
    /\ items[home][k] # Nothing
    /\ items[home][k].was = items[home][k].elem
    /\ items' = [items EXCEPT ![home][k].elem = (@ + 1) % 3]
    /\ UNCHANGED <<root, before, Stream>>

WriteRoot ==
    /\ Touching
    /\ \/ root' = [root EXCEPT !.tick = 1 - @, !.tickChanged = TRUE]
       \/ root' = [root EXCEPT !.lit = ~@, !.litChanged = TRUE]
    /\ UNCHANGED <<items, before, Stream>>

\* The filter answers differently for a client.
Flip(c) ==
    /\ Touching
    /\ allowed' = IF c \in allowed THEN allowed \ {c} ELSE allowed \cup {c}
    /\ UNCHANGED <<root, items, before, context, visible, joined, synced, server, session, behind,
                   exact, badKey>>

Join(c) ==
    /\ c \notin joined
    /\ joined' = joined \cup {c}
    /\ UNCHANGED <<root, items, before, context, allowed, visible, synced, server, session, behind,
                   exact, badKey, touches>>

\* Its queue was full: it will get a snapshot.
Pause(c) ==
    /\ Touching
    /\ c \in synced
    /\ synced' = synced \ {c}
    /\ UNCHANGED <<root, items, before, context, allowed, visible, joined, server, session, behind,
                   exact, badKey>>

\* A sync boundary: patches, the commit, snapshots.  Before the first snapshot there is nothing
\* to patch, and nothing has a ref.
Freed(class) == [i \in DOMAIN context.left |->
                    IF context.left[i].class = class THEN <<context.left[i].ref>> ELSE <<>>]
Committing(e) == [e EXCEPT !.items = Committed(e), !.out = <<>>, !.inline = FALSE,
                           !.free = [class \in Placed |-> @[class] \o FlattenSeq(Freed(class))]]
Told(e) == IF joined \ synced = {} THEN e ELSE Snapshot(e)
Sending(t) ==
    /\ server' = t.server /\ session' = t.session /\ synced' = t.synced
    /\ behind' = t.behind /\ exact' = t.exact
Emitted(e) ==
    /\ items' = e.items
    /\ context' = [table |-> e.table, free |-> e.free, left |-> <<>>, next |-> e.next]
Boundary(delta, told) == Sending(Joined(Patched(delta.out), told)) /\ Emitted(told)
Sync ==
    /\ \E delta \in {IF context.table = <<>> THEN Emitter(TRUE) ELSE Deltas} :
       \E told \in {Told(Committing(delta))} : Boundary(delta, told)
    /\ visible' = (visible \ joined) \cup (allowed \cap joined)
    /\ root' = [root EXCEPT !.tickChanged = FALSE, !.litChanged = FALSE]
    /\ before' = [home \in Home |-> [k \in Keys |-> "untouched"]]
    /\ UNCHANGED <<allowed, joined, badKey, touches>>

OpNext ==
    \/ \E home \in Home : \E k \in Used[home] :
        \/ \E class \in Placed : Place(home, k, class)
        \/ Delete(home, k)
        \/ WriteItem(home, k)
        \/ WriteElement(home, k)
    \/ WriteRoot
    \/ \E c \in Seat : Flip(c) \/ Join(c) \/ Pause(c)
    \/ Sync

-----------------------------------------------------------------------------

\* A client whose frames could all be encoded is handed the very ops that were selected for
\* it, though its session has seen other ops than the room's; and what a ref that it holds
\* denotes is the same on both sides.
InStep == synced \ behind
Holds(c, home) == home = "open" \/ c \in visible
RefsHeld(c) ==
    {items[home][k].ref : home \in {h \in Home : Holds(c, h)}, k \in Keys} \ {-1}
StreamExact ==
    \A c \in InStep :
        /\ c \in exact
        /\ session[c].classes = SubSeq(server.classes, 1, Len(session[c].classes))
        /\ \A ref \in {0, LampRef} \cup (UNION {{r, r + 1} : r \in RefsHeld(c)}) :
               session[c].targets[ref] = server.targets[ref]

\* Without a key that its type cannot hold, every patch can be encoded.
EncodeIsTotal == badKey \/ behind = {}

StreamSound == StreamExact /\ EncodeIsTotal
=============================================================================
