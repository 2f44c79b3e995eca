------------------------------ MODULE StateStore ------------------------------
\* A room's saved state: saveState and loadState (packages/core/src/room.ts), the
\* plain form of a schema tree (packages/state/src/plain.ts) and the stores that
\* keep it as JSON (packages/store/src), across crashes and restarts of the server
\* with another version of the state's class.
\*
\* A state tree is [num, units]: its number fields, and an array of elements of a
\* class or a subclass.  A number may be NaN, which JSON has no form for.

EXTENDS Integers, Sequences, SequencesExt

CONSTANTS Content,      \* Content[v]: states the room sets in version v
          Fields,       \* Fields[v]: the number fields of the class in version v
          Classes,      \* Classes[v]: the element classes registered in version v
          Durable,      \* the store outlives the process (RedisStore)
          MaxSaves,     \* bound on saves
          MaxMoment     \* bound on the clock

VARIABLES moment,
          up,           \* the version that is running, 0 while the server is down
          tree,         \* Room.state
          calls,        \* store.set calls on their way to the store, oldest first
          entry,        \* what the store has under stateKey()
          saves,        \* the tree and the ttl of every saveState, in order
          acked,        \* the newest save whose promise resolved ok
          loaded        \* the last loadState: what it returned, of which save

storeVars == <<moment, up, tree, calls, entry, saves, acked, loaded>>

Zero == "0"             \* the value of an initializer
NaN == "NaN"
Null == "null"
Base == "Unit"          \* the element class the array is declared with
Sub == "Tank"           \* its subclass

Version == DOMAIN Fields
Initial(v) == [num |-> [f \in Fields[v] |-> Zero], units |-> <<>>]
NoEntry == [save |-> 0]
Never == 0              \* no ttl

StoreInit ==
    /\ moment = 1
    /\ up = 1
    /\ tree = Initial(1)
    /\ calls = <<>>
    /\ entry = NoEntry
    /\ saves = <<>>
    /\ acked = 0
    /\ loaded = [result |-> "nothing", save |-> 0]

----------------------------------------------------------------------------

\* toPlain and toJson: the fields by name, the elements with their class's name,
\* and NaN as null.
JsonNumber(n) == IF n = NaN THEN Null ELSE n
ToPlain(t) ==
    [num |-> [f \in DOMAIN t.num |-> JsonNumber(t.num[f])],
     units |-> [i \in DOMAIN t.units |-> [class |-> t.units[i].class,
                                      hp |-> JsonNumber(t.units[i].hp)]]]

\* instantiate: the class of that name if it is registered, else the declared one.
Instantiate(p, v) == [class |-> IF p.class \in Classes[v] THEN p.class ELSE Base, hp |-> p.hp]

\* fill and fillCollection refuse a value of the wrong type.
Refused(p, v) ==
    \/ \E f \in Fields[v] \cap DOMAIN p.num : p.num[f] = Null
    \/ \E i \in DOMAIN p.units : p.units[i].hp = Null

\* fromPlain: fields the data lacks keep their initializer's value, fields the
\* class lacks are ignored.
FromPlain(p, v) ==
    [num |-> [f \in Fields[v] |-> IF f \in DOMAIN p.num THEN p.num[f] ELSE Zero],
     units |-> [i \in DOMAIN p.units |-> Instantiate(p.units[i], v)]]

\* SETEX and SET at Redis, _now() + ttl * 1000 in memory.
ExpiresAt(ttl) == IF ttl = Never THEN Never ELSE moment + ttl

\* MemoryStore._live and Redis expiry.
Live(e) == e # NoEntry /\ (e.expiresAt = Never \/ e.expiresAt > moment)

----------------------------------------------------------------------------

\* The room changes its state.
RoomChanges ==
    /\ up # 0
    /\ tree' \in Content[up] \ {tree}
    /\ UNCHANGED <<moment, up, calls, entry, saves, acked, loaded>>

\* saveState, and the application's own store.set of toPlain(state) with a ttl: the
\* plain copy is taken at the call.
SaveState ==
    \E ttl \in {Never, 1} :
        /\ up # 0
        /\ Len(saves) < MaxSaves
        /\ saves' = Append(saves, [tree |-> tree, ttl |-> ttl, at |-> 0])
        /\ calls' = Append(calls, [plain |-> ToPlain(tree), save |-> Len(saves) + 1, ttl |-> ttl])
        /\ UNCHANGED <<moment, up, tree, entry, acked, loaded>>

\* The copy is taken when the store runs the command.
StoreSet_Late ==
    \E ok \in BOOLEAN :
        /\ calls # <<>>
        /\ LET c == Head(calls)
           IN /\ entry' = IF ok THEN [plain |-> ToPlain(tree), save |-> c.save,
                                      expiresAt |-> ExpiresAt(c.ttl)]
                          ELSE entry
              /\ saves' = IF ok THEN [saves EXCEPT ![c.save].at = moment] ELSE saves
              /\ acked' = IF ok THEN c.save ELSE acked
        /\ calls' = Tail(calls)
        /\ UNCHANGED <<moment, up, tree, loaded>>

\* The store runs the oldest command: MemoryStore.set, or SET and SETEX at Redis,
\* which may fail.
StoreSet ==
    \E ok \in BOOLEAN :
        /\ calls # <<>>
        /\ LET c == Head(calls)
           IN /\ entry' = IF ok THEN [plain |-> c.plain, save |-> c.save,
                                      expiresAt |-> ExpiresAt(c.ttl)]
                          ELSE entry
              /\ saves' = IF ok THEN [saves EXCEPT ![c.save].at = moment] ELSE saves
              /\ acked' = IF ok /\ up # 0 THEN c.save ELSE acked
        /\ calls' = Tail(calls)
        /\ UNCHANGED <<moment, up, tree, loaded>>

\* The process dies.  Commands it had sent may still reach Redis.
Crash ==
    \E n \in 0..Len(calls) :
        /\ up # 0
        /\ up' = 0
        /\ calls' = IF Durable THEN SubSeq(calls, 1, n) ELSE <<>>
        /\ entry' = IF Durable THEN entry ELSE NoEntry
        /\ acked' = IF Durable THEN acked ELSE 0
        /\ UNCHANGED <<moment, tree, saves, loaded>>

\* A server starts, with this or the next version of the class, and a room with the
\* same stateKey() loads its state in onCreate.
RestartAndLoad ==
    \E v \in Version :
        /\ up = 0
        /\ calls = <<>>
        /\ up' = v
        /\ LET result == IF ~Live(entry) THEN "nothing"
                         ELSE IF Refused(entry.plain, v) THEN "refused"
                         ELSE "ok"
           IN /\ loaded' = [result |-> result, save |-> IF result = "nothing" THEN 0 ELSE entry.save]
              /\ tree' = IF result = "ok" THEN FromPlain(entry.plain, v) ELSE Initial(v)
        /\ UNCHANGED <<moment, calls, entry, saves, acked>>

\* Time passes: an entry reaches its ttl.
Ages ==
    /\ moment < MaxMoment
    /\ moment' = moment + 1
    /\ UNCHANGED <<up, tree, calls, entry, saves, acked, loaded>>

StoreNext ==
    \/ RoomChanges
    \/ SaveState
    \/ StoreSet
    \/ Crash
    \/ RestartAndLoad
    \/ Ages

----------------------------------------------------------------------------

\* What version v makes of a saved tree: its own fields, saved or fresh, and every
\* element, as the declared class where its own is gone.
Restored(t, v) ==
    [num |-> [f \in Fields[v] |-> IF f \in DOMAIN t.num THEN t.num[f] ELSE Zero],
     units |-> [i \in DOMAIN t.units |->
                    [class |-> IF t.units[i].class \in Classes[v] THEN t.units[i].class ELSE Base,
                     hp |-> t.units[i].hp]]]

\* The step that loads: a restarted room has the state of one save whole, as it was
\* when it was saved, no older than the last one the store acknowledged; it has
\* none only if nothing was acknowledged or that save expired; and a save is
\* refused only for a NaN that the new class still has a field for.
LoadsASave ==
    [][up = 0 /\ up' # 0 =>
        CASE loaded'.result = "ok" ->
                /\ loaded'.save >= acked
                /\ tree' = Restored(saves[loaded'.save].tree, up')
          [] loaded'.result = "refused" ->
                LET t == saves[loaded'.save].tree
                IN \/ \E f \in Fields[up'] \cap DOMAIN t.num : t.num[f] = NaN
                   \/ \E i \in DOMAIN t.units : t.units[i].hp = NaN
          [] loaded'.result = "nothing" ->
                \/ acked = 0
                \/ \E s \in acked..Len(saves) :
                    saves[s].ttl # Never /\ saves[s].at # 0 /\ saves[s].at + saves[s].ttl <= moment
      ]_storeVars
==============================================================================
