-------------------------------- MODULE StateRefs --------------------------------
(***************************************************************************)
(* A room's state and one client's replica of it, kept alike by references: *)
(* game code changes the tree, a sync turns the changes into a frame, the    *)
(* client applies it, and the commit frees what the tick gave up.            *)
(***************************************************************************)
EXTENDS Integers, Sequences, FiniteSets, SequencesExt

CONSTANTS Item, Bag, KeyOrder, Zero, Val,
          MaxRow,      \* elements of the array
          MaxChanges   \* changes, over all ticks

VARIABLES tree,     \* the server's instances and their change records
          replica,  \* the client's objects and its table of references
          pending,  \* changes made since the last sync
          changes   \* changes so far

refsVars == <<tree, replica, pending, changes>>

T == INSTANCE StateTree
R == INSTANCE StateReplica WITH Key <- ToSet(KeyOrder)

Blank(held) ==
    [val |-> [i \in T!Inst |-> Zero], row |-> <<>>, stash |-> [k \in T!StashKey |-> T!Nil],
     pool |-> <<>>, held |-> held,
     wire |-> [i \in T!Inst \cup {T!Root} |-> -1],
     holders |-> [i \in T!Inst |-> <<>>],
     at |-> [i \in T!Inst |-> IF i = held THEN "held" ELSE T!Nil],
     parents |-> [i \in T!Inst |-> IF i = held THEN <<Bag>> ELSE <<>>],
     changed |-> {}, dirty |-> [p \in {T!Root, Bag} |-> <<>>],
     kids |-> [p \in {T!Root, Bag} |-> <<>>],
     log |-> <<>>, touched |-> [c \in T!Coll |-> <<>>], cleared |-> [c \in T!Coll |-> FALSE],
     removed |-> [c \in T!Coll |-> <<>>],
     unsent |-> <<>>, dropped |-> <<>>, free |-> [c \in {"Item", "Bag"} |-> <<>>], next |-> 0]

\* The trees a room's onCreate may leave: the bag under a key, and an item in the array,
\* under the other key, or in the bag.
Created(t, i, at) ==
    CASE at = "row" -> T!RowInsert(t, 1, i)
      [] at = "stash" -> T!StashSet(t, KeyOrder[2], i)
      [] at = "pool" -> T!PoolAdd(t, i)

Opened(s) ==
    /\ tree = s.t
    /\ replica = R!ApplyDelta(R!Blank, s.ops)
    /\ pending = FALSE /\ changes = 0

RefsInit ==
    \E held \in Item : \E i \in Item \ {held} : \E at \in T!Coll :
        Opened(T!Snapshot(Created(T!StashSet(Blank(held), KeyOrder[1], Bag), i, at)))

Change(t) ==
    /\ changes < MaxChanges
    /\ changes' = changes + 1
    /\ pending' = TRUE
    /\ tree' = t
    /\ UNCHANGED replica

SetValue(i, v)  == tree.val[i] # v /\ Change(T!SetValue(tree, i, v))
RowInsert(n, i) == /\ Len(tree.row) < MaxRow /\ ~Contains(tree.row, i) /\ T!Accepts(tree, "row", i)
                   /\ Change(T!RowInsert(tree, n, i))
RowRemove(n)    == Change(T!RowRemove(tree, n))
RowSet(n, i)    == /\ ~Contains(tree.row, i) /\ T!Accepts(tree, "row", i)
                   /\ Change(T!RowSet(tree, n, i))
RowClear        == tree.row # <<>> /\ Change(T!RowClear(tree))
RowReverse      == Len(tree.row) > 1 /\ Change(T!RowReverse(tree))
StashSet(k, i)  == /\ tree.stash[k] # i /\ T!Accepts(tree, "stash", i)
                   /\ Change(T!StashSet(tree, k, i))
StashDelete(k)  == tree.stash[k] # T!Nil /\ Change(T!StashDelete(tree, k))
StashClear      == T!Elements(tree, "stash") # <<>> /\ Change(T!StashClear(tree))
PoolAdd(i)      == /\ ~Contains(tree.pool, i) /\ T!Accepts(tree, "pool", i)
                   /\ Change(T!PoolAdd(tree, i))
PoolDelete(i)   == Contains(tree.pool, i) /\ Change(T!PoolDelete(tree, i))
PoolClear       == tree.pool # <<>> /\ Change(T!PoolClear(tree))
Assign(i)       == T!Attachable(tree, i) /\ Change(T!Assign(tree, i))

\* The client applies the frame, and the commit ends the tick.
Send(e) ==
    /\ replica' = R!ApplyDelta(replica, e.ops)
    /\ tree' = T!Commit(e.t)
    /\ pending' = FALSE
    /\ UNCHANGED changes

\* One tick: generateDeltas, the frame applied by the client, clearChangeTrees.
Sync == pending /\ Send(T!Deltas(tree))

RefsNext ==
    \/ \E i \in Item, v \in Val : SetValue(i, v)
    \/ \E i \in T!Inst : \E n \in 1..Len(tree.row) + 1 : RowInsert(n, i)
    \/ \E n \in 1..Len(tree.row) : RowRemove(n) \/ \E i \in T!Inst : RowSet(n, i)
    \/ RowClear \/ RowReverse
    \/ \E k \in T!StashKey : StashDelete(k) \/ \E i \in T!Inst : StashSet(k, i)
    \/ StashClear
    \/ \E i \in Item : PoolAdd(i) \/ PoolDelete(i) \/ Assign(i)
    \/ PoolClear
    \/ Sync

-----------------------------------------------------------------------------
\* The instances the tree holds, and the references they are known by.
Reached ==
    LET top == ToSet(tree.row) \cup ToSet(T!Elements(tree, "stash"))
    IN top \cup (IF Bag \in top THEN {tree.held} \cup ToSet(tree.pool) ELSE {})
Block(i) == IF i = Bag THEN {tree.wire[i], tree.wire[i] + 1} ELSE {tree.wire[i]}
Settled == ~pending

\* The same tree, told by references: a receiver's objects against the instances.
Alike(r) ==
    LET At(o) == IF o \in DOMAIN r.refOf THEN r.refOf[o] ELSE -1
    IN /\ ~r.error
       /\ [n \in DOMAIN r.row |-> At(r.row[n])] = [n \in DOMAIN tree.row |-> tree.wire[tree.row[n]]]
       /\ \A k \in T!StashKey :
            IF tree.stash[k] = T!Nil THEN r.stash[k] = R!NoObject
            ELSE r.stash[k] # R!NoObject /\ At(r.stash[k]) = tree.wire[tree.stash[k]]
       /\ \A i \in Reached :
            /\ R!Kind(r, tree.wire[i]) = "object"
            /\ LET o == r.refs[tree.wire[i]].obj
               IN IF i = Bag
                  THEN /\ At(r.nested[o]) = tree.wire[tree.held]
                       /\ {At(x) : x \in ToSet(r.pool[o])} = {tree.wire[x] : x \in ToSet(tree.pool)}
                  ELSE r.val[o] = tree.val[i]

\* After every sync the replica has the tree's shape, values and shared instances,
\* whatever was moved, shared, replaced or put back within the tick.
ReplicaAgrees == Settled => Alike(replica)

\* Every reference ever given out names one instance of the tree or is free to be given
\* again, and none does both: nothing in the tree was forgotten, and nothing leaks.
BlocksAccounted ==
    Settled =>
        LET used == {0, 1, 2} \cup UNION {Block(i) : i \in Reached}
            free == ToSet(tree.free["Item"])
                    \cup UNION {{b, b + 1} : b \in ToSet(tree.free["Bag"])}
            blocks == Len(tree.free["Item"]) + 2 * Len(tree.free["Bag"])
            taken == Cardinality(Reached) + (IF Bag \in Reached THEN 1 ELSE 0)
        IN /\ used \cup free = 0..tree.next - 1
           /\ 3 + taken + blocks = tree.next
           /\ \A i \in T!Inst \ Reached : tree.wire[i] = -1

\* A client that joins now gets by its snapshot what the others got by patches: the same
\* references, and nothing the others still keep of instances that are gone.
JoinerAgrees ==
    Settled =>
        LET s == T!Snapshot(tree)
            joiner == R!ApplyDelta(R!Blank, s.ops)
        IN /\ s.t.wire = tree.wire /\ s.t.next = tree.next
           /\ Alike(joiner)
           /\ DOMAIN joiner.refs = DOMAIN replica.refs
           /\ \A o \in DOMAIN replica.holders :
                \E p \in DOMAIN joiner.refOf :
                    /\ joiner.refOf[p] = replica.refOf[o]
                    /\ joiner.holders[p] = replica.holders[o]

\* The three together.
RefsSound == ReplicaAgrees /\ BlocksAccounted /\ JoinerAgrees
=============================================================================
