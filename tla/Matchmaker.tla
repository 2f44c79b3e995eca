------------------------------ MODULE Matchmaker ------------------------------
\* Server-side matchmaking (packages/core/src/matchmaker.ts) on the processes of a
\* cluster: createRoom, joinOrCreate, reserve, reserveById and joinRoom calls that
\* look here, take the pool's creation lock, look on the peers, choose a process for
\* a new room and take a seat, while processes drain and rooms fill and close.
\*
\* A pool is a room type alone, the type with `where` values, or with a key.  The
\* lock is the one module ClusterLocks describes and broadcasts are those of module
\* Discovery; here neither fails.

EXTENDS Integers, FiniteSets

CONSTANTS Proc,         \* processes
          Defines,      \* processes that define the room type
          Private,      \* pools whose rooms onCreate makes private
          Kind,         \* <<operation, pool, whether a selector is given>>
          First,        \* <<pool, seats taken>> of a room that may exist already
          MaxCalls,     \* bound on calls
          MaxClients,   \* Room.maxClients
          MaxChurn      \* bound on drains, disposals and seats that become free

VARIABLES rooms,        \* rooms[i]: the i-th room, by age
          creating,     \* creating[p][pool]: MatchMaker._creating, the call that creates
          lock,         \* lock[pool]: the cluster-wide creation lock
          draining,     \* processes that drain
          churn,
          call,         \* call[c]: the call's arguments and where it stands
          behind        \* calls with a room placed on their process after they looked there

matchVars == <<rooms, creating, lock, draining, churn, call, behind>>

Pool == {"type", "where", "key"}
Call == 1..MaxCalls       \* calls, in the order they are made
NoCall == 0
MaxRooms == MaxCalls + 1
NoRoom == [at |-> "none", key |-> FALSE, meta |-> FALSE, private |-> FALSE, seats |-> 0,
           onCreate |-> "none", life |-> "none"]
Idle == [at |-> "none", op |-> "none", place |-> "type", selector |-> FALSE, pc |-> "idle",
         room |-> 0, all |-> <<>>, refused |-> {}, own |-> FALSE, out |-> "none"]

----------------------------------------------------------------------------
(* Rooms. *)

Room == 1..MaxRooms
Existing == {r \in Room : rooms[r].life \in {"open", "closing"}}
RoomsOf(p) == {r \in Existing : rooms[r].at = p}
Oldest(S) == CHOOSE r \in S : \A s \in S : r <= s
NextRoom == Cardinality({r \in Room : rooms[r].life # "none"}) + 1

\* _hasFreeSeat.
HasFreeSeat(r) == rooms[r].life = "open" /\ rooms[r].seats < MaxClients

\* isAvailable.
IsAvailable(r) == ~rooms[r].private /\ HasFreeSeat(r)

\* _findKeyed: draining does not hide a keyed room.
FindKeyed(p) == {r \in RoomsOf(p) : rooms[r].key /\ rooms[r].life = "open"}

\* _findAvailable: with `where`, private rooms count and metadata must match.
FindAvailable(p, where) ==
    IF p \in draining THEN {}
    ELSE {r \in RoomsOf(p) : IF where THEN HasFreeSeat(r) /\ rooms[r].meta ELSE IsAvailable(r)}

\* What a look of that pool finds on process p.
Find(p, pool) == IF pool = "key" THEN FindKeyed(p) ELSE FindAvailable(p, pool = "where")

\* RoomManager._create and Room._create up to onCreate: the room is found from now on,
\* and carries the key and the metadata it was created for.
Created(p, pool) ==
    [at |-> p, key |-> pool = "key", meta |-> pool = "where", private |-> pool \in Private,
     seats |-> 0, onCreate |-> "running", life |-> "open"]

MatchInit ==
    /\ \E first \in {NoRoom} \cup {[Created(p, f[1]) EXCEPT !.onCreate = "ok", !.seats = f[2]] :
                                       p \in Defines, f \in First} :
           rooms = [r \in Room |-> IF r = 1 THEN first ELSE NoRoom]
    /\ creating = [p \in Proc |-> [pool \in Pool |-> NoCall]]
    /\ lock = [pool \in Pool |-> NoCall]
    /\ draining = {}
    /\ churn = 0
    /\ call = [c \in Call |-> Idle]
    /\ behind = {}

----------------------------------------------------------------------------
(* Claims on creating a pool's room. *)

\* CreationClaim.release: harmless twice.
Release(c) ==
    LET p == call[c].at
        pool == call[c].place
    IN /\ creating' = IF creating[p][pool] = c THEN [creating EXCEPT ![p][pool] = NoCall] ELSE creating
       /\ lock' = IF lock[pool] = c THEN [lock EXCEPT ![pool] = NoCall] ELSE lock

\* The call ends with that answer; `finally` releases its claim.
Ends(c, out) ==
    /\ call' = [call EXCEPT ![c] = [Idle EXCEPT !.pc = "done", !.out = out]]
    /\ Release(c)
    /\ UNCHANGED <<rooms, draining, churn, behind>>

Goes(c, pc) ==
    /\ call' = [call EXCEPT ![c].pc = pc]
    /\ UNCHANGED <<rooms, creating, lock, draining, churn, behind>>

\* _nameOf, resolvePlacement, poolOf, and the checks of the arguments.
Calls(c) ==
    \E p \in Proc, k \in Kind :
        /\ call[c].pc = "idle"
        /\ c > 1 => call[c - 1].pc # "idle"
        /\ call' = [call EXCEPT ![c] = [Idle EXCEPT !.at = p, !.op = k[1], !.place = k[2], !.selector = k[3],
                                        !.pc = "look", !.room = IF k[1] = "reserveById" THEN 1 ELSE 0]]
        /\ UNCHANGED <<rooms, creating, lock, draining, churn, behind>>

FindsOrCreates(c) == call[c].op \in {"joinOrCreate", "reserve"}

\* createRoom: only a keyed room is created under a claim, after any creation of it here.
LookCreate(c) ==
    /\ call[c].pc = "look"
    /\ call[c].op = "createRoom"
    /\ \/ /\ call[c].place # "key"
          /\ Goes(c, "placing")
       \/ /\ call[c].place = "key"
          /\ creating[call[c].at]["key"] = NoCall
          /\ creating' = [creating EXCEPT ![call[c].at]["key"] = c]
          /\ call' = [call EXCEPT ![c].pc = "lock"]
          /\ UNCHANGED <<rooms, lock, draining, churn, behind>>

\* The head of the loop of _findOrCreate without its wait for a creation.
LookFind_NoWait(c) ==
    LET p == call[c].at
        pool == call[c].place
        local == IF p \in Defines THEN Find(p, pool) ELSE {}
    IN /\ call[c].pc = "look"
       /\ FindsOrCreates(c)
       /\ \/ /\ local # {}
             /\ call' = [call EXCEPT ![c].pc = "ready", ![c].room = Oldest(local)]
             /\ UNCHANGED creating
          \/ /\ local = {}
             /\ creating' = [creating EXCEPT ![p][pool] = c]
             /\ call' = [call EXCEPT ![c].pc = "lock"]
       /\ UNCHANGED <<rooms, lock, draining, churn, behind>>

\* The head of the loop of _findOrCreate: waits while a call here creates a room of
\* the pool, takes a room that is here, or else claims the creation (_claimCreation).
LookFind(c) ==
    LET p == call[c].at
        pool == call[c].place
        local == IF p \in Defines THEN Find(p, pool) ELSE {}
    IN /\ call[c].pc = "look"
       /\ FindsOrCreates(c)
       /\ creating[p][pool] = NoCall
       /\ \/ /\ local # {}
             /\ call' = [call EXCEPT ![c].pc = "ready", ![c].room = Oldest(local)]
             /\ UNCHANGED creating
          \/ /\ local = {}
             /\ creating' = [creating EXCEPT ![p][pool] = c]
             /\ call' = [call EXCEPT ![c].pc = "lock"]
       /\ UNCHANGED <<rooms, lock, draining, churn, behind>>

\* joinRoom looks here and then on the peers, and creates nothing.
LookJoin(c) ==
    LET p == call[c].at
        local == IF p \in Defines THEN Find(p, call[c].place) ELSE {}
    IN /\ call[c].pc = "look"
       /\ call[c].op = "joinRoom"
       /\ call' = [call EXCEPT ![c].pc = IF local # {} THEN "ready" ELSE "find",
                               ![c].room = IF local # {} THEN Oldest(local) ELSE 0]
       /\ UNCHANGED <<rooms, creating, lock, draining, churn, behind>>

\* joinById: here, or where locate finds it.
LookById(c) ==
    LET r == call[c].room
    IN /\ call[c].pc = "look"
       /\ call[c].op = "reserveById"
       /\ IF r \notin Existing THEN Ends(c, "ROOM_NOT_FOUND")
          ELSE Goes(c, IF rooms[r].at = call[c].at THEN "ready" ELSE "proxy")

\* claim.granted.  createRoom then looks here again (_lookupKeyed); _findOrCreate does not.
Granted(c) ==
    LET pool == call[c].place
    IN /\ call[c].pc = "lock"
       /\ lock[pool] = NoCall
       /\ IF call[c].op = "createRoom" /\ FindKeyed(call[c].at) # {}
          THEN Ends(c, "ROOM_EXISTS")
          ELSE /\ lock' = [lock EXCEPT ![pool] = c]
               /\ call' = [call EXCEPT ![c].pc = "find"]
               /\ UNCHANGED <<rooms, creating, draining, churn, behind>>

\* cluster.findAvailable and its answer.  A call that finds a room lets the others
\* look too, unless it is a createRoom.
Finds(c) ==
    /\ call[c].pc = "find"
    /\ \E q \in Proc \ {call[c].at} :
        LET there == Find(q, call[c].place)
        IN /\ there # {}
           /\ call' = [call EXCEPT ![c].pc = "proxy", ![c].room = Oldest(there)]
           /\ IF call[c].op = "createRoom" THEN UNCHANGED <<creating, lock>> ELSE Release(c)
           /\ UNCHANGED <<rooms, draining, churn, behind>>

FindsNone(c) ==
    /\ call[c].pc = "find"
    /\ \A q \in Proc \ {call[c].at} : Find(q, call[c].place) = {}
    /\ IF call[c].op = "createRoom" THEN Goes(c, "placing")
       ELSE IF call[c].at \notin Defines THEN Ends(c, "ROOM_TYPE_NOT_DEFINED")
       ELSE IF call[c].op = "joinRoom" THEN Ends(c, "ROOM_NOT_FOUND")
       ELSE Goes(c, "placing")

\* _proxyFor: the `info` operation on the room's process.
Proxies(c) ==
    /\ call[c].pc = "proxy"
    /\ IF call[c].room \in Existing
       THEN IF call[c].op = "createRoom" THEN Ends(c, "ROOM_EXISTS")
            ELSE IF call[c].op \in {"joinRoom", "joinOrCreate"} THEN Ends(c, "ok")
            ELSE Goes(c, "take")
       ELSE IF call[c].op = "createRoom" THEN Goes(c, "placing")
            ELSE IF FindsOrCreates(c) THEN Goes(c, "look")
            ELSE Ends(c, "ROOM_NOT_FOUND")

----------------------------------------------------------------------------
(* Placing a new room. *)

\* A room is created on p for call c; `behind` notes the calls of p that looked for
\* one of this pool and will not look here again.
Creates(c, p) ==
    /\ NextRoom \in Room
    /\ rooms' = [rooms EXCEPT ![NextRoom] = Created(p, call[c].place)]
    /\ call' = [call EXCEPT ![c].pc = "made", ![c].room = NextRoom, ![c].own = TRUE,
                            ![c].all = <<>>, ![c].refused = {}]
    /\ behind' = behind \cup {d \in Call \ {c} : /\ call[d].at = p
                                                /\ call[d].place = call[c].place
                                                /\ FindsOrCreates(d)
                                                /\ call[d].pc \in {"lock", "find", "placing"}}
    /\ UNCHANGED <<creating, lock, draining, churn>>

CreatesHere(c) ==
    IF call[c].at \in Defines THEN Creates(c, call[c].at) ELSE Ends(c, "ROOM_TYPE_NOT_DEFINED")

\* _createPlaced: here, unless a selector decides or this process churn.
Placing(c) ==
    /\ call[c].pc = "placing"
    /\ IF call[c].selector \/ call[c].at \in draining THEN Goes(c, "survey") ELSE CreatesHere(c)

\* cluster.processes: what every process says of itself.
Surveys(c) ==
    /\ call[c].pc = "survey"
    /\ call' = [call EXCEPT ![c].pc = "choose", ![c].refused = {},
                            ![c].all = [p \in Proc \ draining |-> Cardinality(RoomsOf(p))]]
    /\ UNCHANGED <<rooms, creating, lock, draining, churn, behind>>

Offered(c) == DOMAIN call[c].all \ call[c].refused

\* leastLoaded (ties are broken by seats, which are left out: any of them).
LeastLoaded(c) == {p \in Offered(c) : \A q \in Offered(c) : call[c].all[p] <= call[c].all[q]}

Refuses(c, p) == call' = [call EXCEPT ![c].pc = "choose", ![c].refused = @ \cup {p}]

\* The loop of _place: a selector may throw or pick something else (_runSelector).
Chooses(c) ==
    /\ call[c].pc = "choose"
    /\ IF Offered(c) = {} THEN Ends(c, "SERVER_SHUTTING_DOWN")
       ELSE \/ /\ call[c].selector
               /\ Ends(c, "INVALID_OPTIONS")
            \/ \E p \in IF call[c].selector THEN Offered(c) ELSE LeastLoaded(c) :
                 IF p = call[c].at /\ p \notin draining THEN CreatesHere(c)
                 ELSE /\ IF p = call[c].at THEN Refuses(c, p)
                         ELSE call' = [call EXCEPT ![c].pc = "create", ![c].room = p]
                      /\ UNCHANGED <<rooms, creating, lock, draining, churn, behind>>

\* _clusterCreateRoom on the chosen process, and its answer: a process that refuses
\* is struck off.
CreatesThere(c) ==
    LET p == call[c].room
        typeless == p \notin Defines
    IN /\ call[c].pc = "create"
       /\ IF p \in draining \/ (typeless /\ ~call[c].selector)
          THEN Refuses(c, p) /\ UNCHANGED <<rooms, creating, lock, draining, churn, behind>>
          ELSE IF typeless THEN Ends(c, "ROOM_TYPE_NOT_DEFINED")
          ELSE Creates(c, p)

----------------------------------------------------------------------------
(* Taking a seat. *)

\* _reserveIn: a keyed room, or one named by id, answers by joinById's rules.
ReserveIn(r, byId) ==
    IF byId /\ rooms[r].life # "open" THEN "ROOM_NOT_FOUND"
    ELSE IF HasFreeSeat(r) THEN "ok" ELSE "ROOM_FULL"

\* The seat is held and the call ends, or it ends, or looks again.
Takes(c, again) ==
    LET r == call[c].room
        took == ReserveIn(r, call[c].op = "reserveById" \/ call[c].place = "key")
    IN IF took = "ok"
       THEN /\ rooms' = [rooms EXCEPT ![r].seats = @ + 1]
            /\ call' = [call EXCEPT ![c] = [Idle EXCEPT !.pc = "done", !.out = "ok"]]
            /\ Release(c)
            /\ UNCHANGED <<draining, churn, behind>>
       ELSE IF took = "ROOM_FULL" /\ again THEN Goes(c, "look") ELSE Ends(c, took)

\* A room of a pool is one of several: a call that found it full looks again.
LooksAgain(c) == FindsOrCreates(c) /\ call[c].place # "key" /\ ~call[c].own

\* _whenReady on a room of this process, and the seat.
IsReady(c) ==
    LET r == call[c].room
    IN /\ call[c].pc = "ready"
       /\ rooms[r].onCreate # "running"
       /\ IF rooms[r].onCreate = "failed"
          THEN IF FindsOrCreates(c) THEN Goes(c, "look") ELSE Ends(c, "ROOM_CREATE_FAILED")
          ELSE IF call[c].op \in {"reserve", "reserveById"} THEN Takes(c, LooksAgain(c))
          ELSE Ends(c, "ok")

\* The room created for this call is ready: its seat is taken before the claim ends.
IsMade(c) ==
    LET r == call[c].room
    IN /\ call[c].pc = "made"
       /\ rooms[r].onCreate # "running"
       /\ IF rooms[r].onCreate = "failed" THEN Ends(c, "ROOM_CREATE_FAILED")
          ELSE IF call[c].op # "reserve" THEN Ends(c, "ok")
          ELSE IF rooms[r].at = call[c].at THEN Takes(c, FALSE)
          ELSE Goes(c, "take")

\* cluster.reserve arrives (_clusterReserve): a draining process refuses matchmaking.
AsksForSeat(c) ==
    LET r == call[c].room
        byId == call[c].op = "reserveById" \/ call[c].place = "key"
    IN /\ call[c].pc = "take"
       /\ IF r \notin Existing THEN Ends(c, "ROOM_NOT_FOUND")
          ELSE IF rooms[r].at \in draining /\ ~byId
          THEN IF LooksAgain(c) THEN Goes(c, "look") ELSE Ends(c, "SERVER_SHUTTING_DOWN")
          ELSE Goes(c, "seat")

\* The rest of _clusterReserve, once the room is ready.
GetsSeat(c) ==
    LET r == call[c].room
    IN /\ call[c].pc = "seat"
       /\ rooms[r].onCreate # "running"
       /\ IF rooms[r].onCreate = "failed" THEN Ends(c, "ROOM_CREATE_FAILED")
          ELSE Takes(c, LooksAgain(c))

----------------------------------------------------------------------------
(* Rooms and processes. *)

\* onCreate ends; a room whose onCreate failed is disposed.
CreateEnds(r) ==
    \E ok \in BOOLEAN :
        /\ rooms[r].onCreate = "running"
        /\ rooms' = [rooms EXCEPT ![r].onCreate = IF ok THEN "ok" ELSE "failed",
                                  ![r].life = IF ~ok /\ @ = "open" THEN "closing" ELSE @]
        /\ UNCHANGED <<creating, lock, draining, churn, call, behind>>

Churns == churn < MaxChurn /\ churn' = churn + 1

\* Room.dispose.
Disposes(r) ==
    /\ Churns
    /\ rooms[r].life = "open"
    /\ rooms' = [rooms EXCEPT ![r].life = "closing"]
    /\ UNCHANGED <<creating, lock, draining, call, behind>>

\* The disposal ends (RoomManager._removed).
Removed(r) ==
    /\ rooms[r].life = "closing"
    /\ rooms' = [rooms EXCEPT ![r].life = "gone"]
    /\ UNCHANGED <<creating, lock, draining, churn, call, behind>>

\* A seat becomes free.
Frees(r) ==
    /\ Churns
    /\ rooms[r].life = "open"
    /\ rooms[r].seats > 0
    /\ rooms' = [rooms EXCEPT ![r].seats = @ - 1]
    /\ UNCHANGED <<creating, lock, draining, call, behind>>

\* drain and cancelDrain.
Drains(p) ==
    /\ Churns
    /\ draining' = IF p \in draining THEN draining \ {p} ELSE draining \cup {p}
    /\ UNCHANGED <<rooms, creating, lock, call, behind>>

Steps(c) ==
    \/ LookCreate(c) \/ LookFind(c) \/ LookJoin(c) \/ LookById(c)
    \/ Granted(c) \/ Finds(c) \/ FindsNone(c) \/ Proxies(c)
    \/ Placing(c) \/ Surveys(c) \/ Chooses(c) \/ CreatesThere(c)
    \/ IsReady(c) \/ IsMade(c) \/ AsksForSeat(c) \/ GetsSeat(c)

MatchNext ==
    \/ \E c \in Call : Calls(c) \/ Steps(c)
    \/ \E r \in Room : CreateEnds(r) \/ Disposes(r) \/ Removed(r) \/ Frees(r)
    \/ \E p \in Proc : Drains(p)

----------------------------------------------------------------------------

\* docs/guides/matchmaking.md: at most one room of the type has a given key, across
\* the cluster (createRoom, _findOrCreate and _lookupKeyed).
KeyedOnce ==
    \A r, s \in Room : rooms[r].key /\ rooms[s].key /\ rooms[r].life = "open" /\ rooms[s].life = "open"
                          => r = s

\* The same of the calls whose process got no room from another one after they looked.
KeyedOnceUnlessPlaced == behind = {} => KeyedOnce

\* A claim and the lock end with their call: each is held by a call that will release it.
ClaimsHeld ==
    /\ \A p \in Proc, pool \in Pool : LET c == creating[p][pool] IN
           c # NoCall => call[c].at = p /\ call[c].place = pool /\ call[c].pc \notin {"idle", "look", "ready", "done"}
    /\ \A pool \in Pool : LET c == lock[pool] IN
           c # NoCall => creating[call[c].at][pool] = c /\ call[c].pc # "lock"

\* Nobody waits for what will not come: some pending call, or the room it waits for, can move.
NobodyStuck ==
    (\E c \in Call : call[c].pc \notin {"idle", "done"})
        => \/ \E c \in Call : call[c].pc \notin {"idle", "done"} /\ ENABLED Steps(c)
           \/ \E r \in Room : rooms[r].onCreate = "running"

\* A draining process gets no new room, whichever process chose it and when it looked.
NotWhileDraining ==
    [][\A r \in Room : rooms[r].life = "none" /\ rooms'[r].life = "open" => rooms'[r].at \notin draining]_matchVars

\* Matchmaking keeps one room per key, no claim outlives its call, no call is stuck and
\* nothing is placed on a process that drains.
MatchSound == [](KeyedOnceUnlessPlaced /\ ClaimsHeld /\ NobodyStuck) /\ NotWhileDraining
=============================================================================
