----------------------------- MODULE MCStateSync -----------------------------
(* StateSync with two keys and three values, two of which look the same to *)
(* receivers; and StateRefs, checked on its own in the same run: `part`     *)
(* says which of them moves.                                                *)
EXTENDS StateSync, TLC

CONSTANTS c1, k1, k2, a1, a2, b,
          Item, Bag, KeyOrder, Zero, Number, MaxRow, MaxChanges, x, z

VARIABLES part, tree, copy, pending, changes

MCVal   == {a1, a2, b}
MCWire  == (a1 :> a1) @@ (a2 :> a1) @@ (b :> b)
MCFresh == {(k1 :> a1) @@ (k2 :> Absent)}

Refs == INSTANCE StateRefs WITH Val <- Number, replica <- copy
refs == <<tree, copy, pending, changes>>
Keys == <<"k", "l">>

\* The items are alike, so it does not matter which is in the bag and which is placed first.
StateInit ==
    /\ part \in {"sync", "refs"}
    /\ Init
    /\ IF part = "refs" THEN root = "none" /\ Refs!RefsInit /\ tree.held = x /\ tree.at[z] = Refs!T!Nil
       ELSE tree = {} /\ copy = {} /\ pending = FALSE /\ changes = 0

StateNext ==
    \/ part = "sync" /\ Next /\ UNCHANGED <<part, refs>>
    \/ part = "refs" /\ Refs!RefsNext /\ UNCHANGED <<part, vars>>
    \/ part = "refs" /\ changes = MaxChanges /\ UNCHANGED <<part, vars, refs>>

StateSpec == StateInit /\ [][StateNext]_<<part, vars, refs>>

\* After every sync the replica of a client, and that of one that joins then, has the tree
\* of the room, and every reference given out is in use or free (encoder.ts, decoder.ts).
RefsSound == part = "refs" => Refs!RefsSound
=============================================================================
