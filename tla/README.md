# Bungohan in TLA+

Bungohan is a TypeScript framework for multiplayer servers: rooms with shared
state, clients that join, drop and come back, and clusters of server processes
that share rooms over a backplane. This directory holds TLA+ models of it, the
TLC configurations that check them on small instances, and proofs, checked by
TLAPS, for every instance.

- [Inventory](#inventory): the system and the module of each part
- [A room](#a-room): `RoomSeats`, `RoomMessages`, `SimulationLoop`, `StateStore`
- [A process](#a-process): `Gateway`, `ServerLifecycle`, `Matchmaker`, `AppEvents`
- [A cluster](#a-cluster): `ClusterLocks`, `Discovery`, `ClusterJoin`,
  `RoomProxy`, `Backplane`
- [State](#state): `StateSync`, `ReplicaStream`, `StateTree`, `StateReplica`,
  `StateRefs`, `Wire`, `MessageTypes`, `MessageCodec`, `SchemaSession`, `OpStream`
- [The client](#the-client): `SeatServer`, `ClientSdk`, `RoomInbox`, `RoomHooks`,
  `PolledClient`, `SocketThreads`
- [Runs](#runs), [what the models found](#what-the-models-found),
  [proofs](#proofs), [limits](#limits), [plan](#plan)

## Running

    tlc -config MCRoomSeats.cfg MCRoomSeats     # one run; PROJECT.json lists all
    tlapm RoomSeatsProofs.tla                   # the proofs about RoomSeats; *Proofs.tla are all

The longest proofs, `ClusterJoinProofs`, take about six minutes from nothing.

## Inventory

| Component | State | Operations | Interacts with | What is hard | Module |
|---|---|---|---|---|---|
| Room: seats (`core/src/room.ts`, `client.ts`) | seats, tokens, hold timers, reservations, pause, disposal, queued frames | join steps, reconnect, connection lost, kick, leave, dispose, broadcast | server, manager, user hooks | every hook is awaited, anything may happen in between | `RoomSeats` |
| Room: messages (`room.ts`) | handler tables, serial queue | onMessage, dispatch, serial | server, user code | handlers that end others, tasks queued while one is awaited | `RoomMessages` |
| Loops and limits (`loop.ts`, `limits.ts`) | accumulator, buckets | tick, catch up, take | room, server | long stalls, boundaries | `SimulationLoop`, `Gateway` |
| Saved states (`room.ts`, `state/src/plain.ts`, `store`) | keys with expiry | save, load | store, user code | crashes, another version of the class | `StateStore` |
| Server: joins (`server.ts`) | connections, routes | JOIN, RECONNECT, LEAVE, disconnect, shed | room, matchmaker, cluster | a connection closes or asks again while a join runs | `RoomSeats`, `Gateway` |
| Server: life (`server.ts`, `http.ts`) | running, draining, shutting down, waiters | start, stop, drain, signals | every part | a drain while rooms are created, a signal during a stop | `ServerLifecycle` |
| Application events (`server.ts`) | subscribers | publish, subscribe | node | order, handlers that come and go | `AppEvents` |
| Room manager (`room-manager.ts`) | rooms by id | create, fail, dispose | server, room | creation that fails while clients wait | `RoomSeats` |
| Matchmaker (`matchmaker.ts`) | reservations, pools being created | reserve, consume, find-or-create, placement | manager, cluster | one room per pool and key | `Matchmaker`, `RoomSeats` |
| Cluster locks (`cluster/locks.ts`) | holder and queue of each pool | acquire, release, expiry, process lost | node, matchmaker | leases that end under their holder | `ClusterLocks` |
| Cluster node (`cluster/node.ts`, `requests.ts`, `registry.ts`) | peers, pending requests | heartbeats, directed and broadcast requests | backplane, every process | false suspicions, late answers, newcomers | `Discovery`, `ClusterLocks` |
| Cluster joins (`server.ts`, `cluster/remote.ts`) | routes at the edge, seats at the owner | forward join, relay frames, edge or owner lost | node, room | a seat on one side only | `ClusterJoin` |
| Room proxies (`cluster/proxy.ts`) | cached description | lock, kick, presence, broadcast, refresh | node, room | answers that are older than the cache | `RoomProxy` |
| Backplane (`backplane`) | callbacks, subscriptions | subscribe, unsubscribe | node | subscribing while unsubscribing | `Backplane` |
| State sync (`room.ts`, `state/src`) | change records, references, what each client has | snapshot, patch, backpressure, replaced state | room, codecs, client SDK | a patch that does not fit the replica | `StateSync`, `StateRefs` |
| Codecs (`serializer`, `types`) | class and target tables of a session | encode, decode | everything on the wire | both ends derive the same tables; boundaries | `Wire`, `MessageCodec`, `OpStream` |
| Client SDK (`client-js/src`) | connection, rooms, tokens, pending joins, held frames | join, reconnect, resync, leave | server | time-outs and late answers | `ClientSdk`, `RoomInbox` |
| C# client (`clients/csharp/Bungohan.Protocol/Net`) | connection, rooms, tokens, seats to resume, outbox | join, resume, leave, Poll; Send and Close of a socket | server, the game's loop | reports that are older than the socket, four threads on one socket | `PolledClient`, `SocketThreads` |
| React bindings (`client-js/src/react`) | result and snapshot of a component | useRoom, useRoomState | client SDK, React | joins that end after their effect | `RoomHooks` |
| HTTP, metrics, logger, codegen, testing, Godot client, apps | | | | I/O, text or ports | none |

The most important behaviour is that of a seat: it is what the capacity, the
hooks `onJoin` and `onLeave`, reconnection and disposal are about, and almost
every handler of the server changes it.

In all modules but `SocketThreads` a process is one thread (JavaScript's, or the one a
game polls its client on), so an action is one stretch
of code between two awaits: from an event (a frame, a closed connection, a
timer, a call by user code) or the settling of an awaited promise up to the
next await, with every call it makes. A user hook is two actions, its start
and its completion, with everything else in between.


## A room

**`RoomSeats`**: one room and the join, reconnection and disconnection handlers
of its server.

- *Seats.* A member of `Client` is one `Client` object, seated at most once.
  `status`, `conn`, `token` and `by` are its fields; `tokens` and `timers` are
  `_tokens` and `_reconnectTimers`; `rsv` is its reservation.
- *Joins.* `pc` says which await a join stands at: `ready` (the room's
  `onCreate`), `auth`, `join` (the hooks), then `complete`. Between the check of
  a hook's outcome and `_completeJoin` only promise continuations run, so
  transport events and timers cannot fall into that *gap*; the guard `EventLoop`
  says so, and the choice `"gap"` in `ServerActs` lets calls of server code made
  from other continuations fall into it. `resumed` is the same gap of a
  RECONNECT.
- *Actions.* `CreateAndJoin`, `JoinExisting`, `ConsumeReservation`, `BotJoin`
  begin a join; `RoomReady`, `AuthPassed`/`AuthRefused`,
  `JoinReturned`/`JoinThrew`, `CompleteJoin`/`CompleteJoinClosed` go on with it.
  `Reconnect`, `CompleteReconnect` and `HoldExpires` are the life of a held seat,
  `Disconnect`, `Shed`, `Kick`, `ClientLeaves` and `LeaveReturned` the ways it
  ends. `Dispose`, `Stop`, `DisposeNext`, `DisposeReleased`, `DisposeReturned`
  are `_dispose`, which awaits one `onLeave` after the other and may be entered
  twice. `Reserve`, `ReservationExpires`, `ReservationOver` and
  `ConsumeForNothing` are the matchmaker's reservations.
- *Frames.* `wire[c]` has the frames sent to a seat with equal neighbours merged:
  the properties are about which comes first and last.

`HandshakeFirst`, `LeaveIsLast` and the seat properties are the promises a client
relies on; `SeatCapacity` and `RoomEnds` those of the room. `RoomEnds` does not
hold of rooms whose code kicks or disposes while hooks run
([below](#what-the-models-found)), hence its own run with neither.

**`RoomMessages`**: `onMessage` and its unsubscribe function, dispatch, `serial`
and the serial queue, a chain of promises. `due` records which registrations stood
when a message was dispatched, and `HandlersReached` compares it with who was
called: the unsubscribe function of an old registration, called again, must not
touch a newer Set of the same type. `SerialInOrder` and `NoneForgotten` are what the
chain of tails is for.

**`SimulationLoop`**: the accumulator of `loop.ts`, driven by the room's creation,
pauses, rate changes (also from inside `onTick`) and disposal. `TimeAccounted`
balances all time the loop ran: simulated, dropped, given up by a stop, or in hand.

**`StateStore`**: `saveState` and `loadState` through `toPlain`, JSON and a store
with expiry, across a crash and a restart with another version of the state's
class. Sets of one connection take effect in order; `acked` is the newest save whose
promise resolved. `LoadsASave` is about the step that loads.

## A process

**`Gateway`**: one socket, from the upgrade to its end, through the transport's
table, the server's `Connection`, `authenticate` and the three token buckets. Time
is counted in a unit in which refills are whole. `RatesBounded` compares every
stretch of admitted traffic with a full bucket plus what it gains meanwhile. What the
server sends in answer (JOIN_ERROR, ERROR, PONG) counts toward the queue limit like any
frame. A JOIN within its limit is routed, answered or waits for `authenticate`, each once,
except one whose body is no array: it is charged, gets no answer of its own, and
`_violation` closes the connection (`server.ts:1214`), so it is the last (`JoinsAdmittedOnce`).

**`ServerLifecycle`**: `start` with every part that may fail, `stop`, `drain`,
`cancelDrain` and signals, while rooms are created (with an `onAuth` in between) and
disposed. The application awaits `start` and `stop`; signals come at any time. A
restart while a signal's own stop is under way is exempt from `DrainAnswered`
(`Restarted`): the drain of the new run is forgotten
([below](#what-the-models-found)).

**`Matchmaker`**: server-side calls on the processes of a cluster, each as the steps
between its awaits: look here, take the pool's lock, ask the peers, survey, choose a
process, create there, take a seat. Lock and broadcasts are ideal here; `ClusterLocks`
and `Discovery` say what they really are. `behind` marks calls that another process
placed a room next to after they had looked; `MatchSound` exempts them and the run
`keyed_twice` shows why.

**`AppEvents`**: `publish` and `subscribe`, own delivery by microtask and remote
delivery by the backplane, with handlers that come and go. `cut` marks subscriptions
that lost their channel to a repeated call of another's unsubscribe function.

## A cluster

Channels between two processes deliver in order, as a Redis connection and the
memory backplane do; only messages the code itself provides for (a publication that
fails, a process that dies) are lost.

**`ClusterLocks`**: the `LockTable` of one pool at every process, `lock()` with its
three attempts, the messages `lock?`, `lock!`, `unlock` and `bye`, heartbeats and
sweeps, and the find-or-create that runs under the lock. `MaxFaults` bounds crashes,
stops, false suspicions and lost messages; time-outs may happen at any time.
`OneRoomPerPool` speaks of behaviours that are not `disturbed`: the lock is a lease,
and the code accepts a second room after it expires. Rooms do not fill.

**`Discovery`**: a process that starts into a running cluster and asks one peer, the
first that has a room, or all of them; the registry decides whom a broadcast waits
for. `NobodyMissed` leaves out newcomers and peers that were `dropped`.

**`ClusterJoin`**: an edge with the sockets and owners with the rooms. A join is
forwarded, seated through a `RemoteConnection`, answered, routed, relayed and ended
from either side; connections close, requests time out, processes die or are taken
for dead (`cut`). Exempt from the properties: seats of processes that took each other
for dead, and `Stray` ones, whose join was forwarded after its connection closed and
then timed out. `Late` and `MayTimeOut` say for which joins these two things may
happen. A join that creates a room is never in `MayTimeOut`, because `RoutesAndSeats` is
false then: `_createElsewhere` goes on to the next process while the first one seats the
client ([below](#what-the-models-found)). Nor does a join that creates, or that is in `Late`,
share its connection in the run `cluster`: the run `pruned_seat` shows what happens then.
The [proofs](#clusterjoinproofs) have both as hypotheses and nothing else.

**`RoomProxy`**: calls on a room of another process and the description cached here.
`drift` marks the fields the owner changed by itself, or a lost or overtaken call was
about; the rest must agree once nothing is on its way. `unsure` is the same for
presence.

**`Backplane`**: `RedisBackplane.subscribe`, `unsubscribe` and `close` on one channel.
A SUBSCRIBE and an UNSUBSCRIBE may each fail. `leftOn` remembers an UNSUBSCRIBE that did:
`UnsubscribeWins` then promises only that no callback is left, and not that Redis has
stopped delivering.
`Overlap` allows `subscribe` while an `unsubscribe` has not resolved; the run sets it
to `FALSE`, which is how the cluster node uses it ([below](#what-the-models-found)).

## State

**`StateSync`**: a state with one filtered map, its change record (`touched`,
`cleared`), and what each client has. `Sync` is all of `_syncOnce`: replacement of the
state, backpressure, selection by filter, snapshot or patch, commit. `Join`, `Shed`,
`Disconnect`, `Reconnect`, `Leave` and `Receive` move clients; `Set`, `Delete`,
`Clear`, `Replace`, `FlipFilter` are what game code does. Two of the values are equal
on the wire.

**`ReplicaStream`** is the abstract specification: a follower is sent the view it is
to have at every boundary and shows these views in order, with no snapshots, patches
or backpressure. `ImplementsStream` is the refinement, with the mapping at the end of
`StateSync`.

**`StateTree`**, **`StateReplica`**, **`StateRefs`**: identity. The root has an array
and a map, which hold items and a bag; the bag has a nested item and a set. `StateTree`
is the server's side: holders, parents, change records, blocks of references that are
given out, freed at the commit and used again. `StateReplica` is the receiver's table
and what every op does to it. `StateRefs` lets game code place, share, move, remove and
put back instances within and across ticks. `RefsSound` compares the tree, the replica
and the replica of a client that would join now.

**`Wire`**, **`MessageTypes`**, **`MessageCodec`**: contract messages, byte by byte.
Integer kinds, varints, strings, fixed numbers and frames are in `Wire`, with widths
scaled to what TLC can count: a varint byte holds `Base` = 8 values for 128, a uint16
and a uint32 end at `Short` = 1024 and `Word` = 16384; as in the code, five varint
bytes hold more than a uint32 and four hold less. Numbers are counted in twentieths,
so that truncation and rounding have something to do. `RoundTrip` says what the receiver may hold for a value sent, under
both codecs; `Exact` that no shortened, extended or altered body is accepted.

**`SchemaSession`**, **`OpStream`**: the schema codec is tag-free, so both ends derive
class and target tables from the stream. A room has one encoding session and each
client a decoding one, which sees only the frames that client was sent. `StreamExact`
says that they agree on every reference a client holds. `badKey` (a map key outside its
integer kind) makes a frame unencodable; clients it was meant for are `behind` until
their next snapshot and exempt until then.

## The client

**`SeatServer`**: the server as a client sees it, which both SDKs run against: it answers
joins, holds the seats of a connection it has seen close (sooner or later than the client
has) and rotates tokens. It is the part of `RoomSeats` a client can tell.

**`ClientSdk`**: connection, token provider, retries, joins with time-outs, resumes,
`leave`, `leaveAll`, `disconnect`. A method is an operator from the SDK's record to the
next one, as the methods call each other.
`"early"` in `UserActs` allows `leave` while a resume is unanswered, which strands the
seat ([below](#what-the-models-found)); the runs leave it out.

**`RoomInbox`**: the frames a room gets before the caller has it, held, released a turn
later, and the events kept for a first listener, up to `MaxUnclaimed`. `spoiled` marks
rooms that were left or whose application removed listeners: what happens to kept events
then is the application's doing.

**`RoomHooks`**: `useRoom` and `useRoomState` under StrictMode's double mount, changes
of room and unmounts. `late` marks a frame applied between a render and its
subscription, which a component without a selector does not show until the next one.

**`PolledClient`**: the C# client, `BungohanClient.cs` and the seat of `BungohanRoom.cs`.
The transport queues its reports (`OPEN`, frames, `CLOSE`) and `Poll` handles them later, so
a socket may have ended before the client takes it for open. `resuming` counts how often a
room is in the list `_resuming`; `twice` marks rooms that were in it more than once, which
`NoPolledStray` excepts ([below](#what-the-models-found)). Code that awaits a task runs
inside the method that completes it, as it does without a `SynchronizationContext`.

**`SocketThreads`**: `WebSocketClientTransport.cs`, the one place with real threads: the
game's (`Send`, `Close`), `RunAsync`, `SendLoopAsync` and the task of `Close`, interleaved
at every access to what they share. `NoLostWake` is about the order of `Enqueue` and
`Release`, `TornDown` about a teardown in which each waits for another: the sender has ended
before the socket, the semaphore and the cancellation are disposed of, and the task of
`Close`, which may come after that and throw, leaves nothing uncancelled.

## Runs

| Run | Instance | Checks |
|---|---|---|
| `seats` | 2 clients, 2 connections, 2 JOINs each, all hooks may fail, kicks, disposal, bots, reservations | `TypeOK`, `OneSeatPerConnection`, `JoinedSeatIsConnected`, `HoldHasTimer`, `TokensCurrent`, `OnLeaveAtMostOnce`, `ConnectedNeverPaused`, `HandshakeFirst` |
| `ordinary_rooms` | 3 clients for 2 seats, creator and reservations, `lock()` | `SeatCapacity`, `RoomEnds` |
| `seats_live` | 2 clients, fair | `SeatsResolve` |
| `locks` | 3 processes, 2 of them create, 2 faults | `TypeOK`, `OneRoomPerPool`, `LeasesSound` |
| `progress` | one at a time: 3 processes with 1 fault; a client with 1 room, 3 connections and 2 attempts; a process with 2 rooms that is started twice; the state of `sync` with 2 changes; fair | `LockResolves`, `ClientResolves`, `LifecycleSound`, `CatchesUp` |
| `sync` | 1 client, 2 keys, 3 values of which 2 are alike, 3 changes, pause at 1 frame; on its own, a tree of 3 items and a bag, 2 keys, 4 changes, array of at most 2 | `TypeOK`, `InStep`, `ImplementsStream`, `RefsSound` |
| `client` | one at a time: the TypeScript client with 2 rooms and 2 connections; the C# client with 1 room and 3 connections; its socket with 3 frames out and 2 in (`MCClients`) | `ClientsMatch`, `SocketSound` |
| `cluster` | 1 edge, 2 owners, 2 connections, 3 joins, 1 fault, fair | `TypeOK`, `RoutesAndSeats`, `Settles` |
| `pruned_seat` | 1 edge, 1 owner, 2 joins of one connection of which one creates, no fault | `SeatReachable` is violated |
| `process` | six parts, one at a time (`MCProcess`) | `GatewaySound`, `LoopSound`, `LoadsASave`, `MatchSound`, `RoomMessagesSound`, `AppEventsSound` |
| `links` | seven parts, one at a time (`MCLinks`) | `InboxSound`, `DiscoverySound`, `BackplaneSound`, `MessagesSound`, `StreamSound`, `ProxySound`, `HooksSound` |
| `keyed_twice` | the matchmaker, 2 calls on 2 processes | `KeyedOnce` is violated |

`MCProcess`, `MCLinks`, `MCClients`, `MCProgress` and `MCStateSync` check parts that share no state in one run: a
variable `part`, chosen initially, says which of them moves. Each property of these runs
is about one part, or one client's, and trivially keeps its initial value in the others.

*Bounds.* A second client is enough to compete for a seat, a token or a connection, and
a second JOIN of a connection to overlap the first; a third client makes two seats
scarce. A lock needs a coordinator, a holder and a waiter. A client that opens two
connections can lose one and resume on the other; three let a resume itself be lost. A socket with three
frames has one that is sent, one in the sender's hand and one in the queue. Three joins on two connections have one connection twice in an owner and a join that visits both
owners. Four changes suffice to place an instance, share it, remove it and put it back.
Two saves, two versions and a ttl of one make every order of save, crash, expiry and load.
Every bound is a constant of its module and appears in guards only.

*Deadlock* is checked in `sync` only, where a tree whose changes are used up is left to
stutter: elsewhere rooms close, connections end and bounds are reached, so the systems may
stop. `NobodyStuck`, `NoneForgotten` and the liveness properties say where that
would be wrong.

*Symmetry* is used in `seats`, `ordinary_rooms`, `process` and `keyed_twice`, over
values that the specifications treat alike, and never together with liveness; the action
properties of `process` are safety properties. In `sync` the tree starts with one choice of the
item in the bag and the item that is not placed, since the items are alike.

*Fairness.* Weak fairness is assumed only of what JavaScript or the code's own timers
guarantee:

- `RoomSeats`: continuations of settled promises run, timers fire, and user hooks settle
  (a hook that never returns blocks its join by design).
- `ClusterLocks`: both timers, the holder's find-or-create, delivery of messages.
- `StateSync`: the sync timer, delivery, and that a closing connection is reported closed.
- `ClientSdk`: the retry timer, the join timer, the token provider, and that an opening
  socket opens or closes. Nothing is assumed of the server.
- `ClusterJoin`: the request timer, delivery, the sweep of dead peers, and hooks of the
  owner that settle.
- `ServerLifecycle`: the drain timer of a signal, the steps of `_shutdown`, its exit timer.
  Hooks of rooms may never return.

## What the models found

Two contradict what the repository says of the code and are kept as runs.

- `keyed_twice`: two rooms get one key, because after the lock is granted `_findOrCreate` asks
  the peers and does not look on its own process again (`matchmaker.ts:690`), where another
  process may have placed the room meanwhile.
- `pruned_seat`: two joins of one connection are forwarded to one owner and share its
  `RemoteConnection`. One creates a room and is in its static `onAuth`; the other is refused,
  and `_pruneRemoteConnection` (`server.ts:2204`) forgets the `RemoteConnection`, which holds
  no seat yet. The first then takes its seat on an object the owner does not list any more,
  and when the socket closes `_closeRemoteConnection` finds nothing to hold or release. The
  attempt to prove `SeatReachable` found it: its induction step fails at that prune. A variant
  needs a join that is forwarded after its connection closed: when it ends, it prunes by id,
  and the id may name a newer `RemoteConnection` than its own.

The others are behaviours that bounded a property or an instance, each at its line in
`src/packages`:

*Rooms.*
- `_dispose` may be entered twice, and `onDispose` run twice (`core/src/room.ts:740`), or
  run before the `onLeave` of a client that left on its own has ended (`room.ts:1339`).
- A client kicked during `onJoin` gets no `onLeave` (`room.ts:1326`).
- A room that empties while a join by id is refused stays open (`room.ts:1114`), as does
  one whose reservation was consumed without a seat being taken (`matchmaker.ts:494`).
- A reservation consumed in the turn it expires overfills the room by one
  (`matchmaker.ts:488`).
- A resumed client may get frames before its JOIN_SUCCESS (`room.ts:1252`), and a
  JOIN_SUCCESS after a LEAVE (`server.ts:1289`).
- With only held seats left, the loops go on (`room.ts:1102`).
- `droppedSimulationMs` starts again when a rate change recreates the loop.
- `setPresence` from another process after the seat was released leaves a record until
  the room is disposed (`room.ts:751`).

*Processes.*
- A stopped server still creates a room whose `onAuth` was running: only `_draining` is
  checked again (`server.ts:1616`).
- A store built from `store.config` is closed by `stop()` and stays closed after a second
  `start()` (`server.ts:319`, `:534`).
- A restart while a signal's stop is under way forgets the drain of the new run.
- The unsubscribe function of `server.subscribe`, called again after its Set emptied, takes
  the channel of a newer Set (`server.ts:848`; `room.ts:1988` checks for it).
- `reserve` that creates a public room may be answered ROOM_FULL, because a client took the
  seat while `onCreate` ran.
- `saveState` of a tree with NaN or an infinity succeeds and `loadState` then fails;
  an instance held twice comes back as two.

*Clusters.*
- `lock()` hangs when it waits at its own coordinator and the process stops
  (`cluster/node.ts:439`).
- An `unlock` after the `bye` makes peers take a stopped process for alive until the next
  sweep (`node.ts:662`).
- A forwarded join that timed out at the edge may still be seated, and the edge drops the
  client's LEAVE (`server.ts:1100`). `_createElsewhere` takes the time-out for a refusal and
  tries the next process (`server.ts:2286`); when the first was only slow, its room stays,
  its late answer is dropped and its JOIN_SUCCESS still passes `_relayFrames`, which looks at
  no mapping: the client is joined on a roomRef that the edge does not route. With the
  creating join in `MayTimeOut`, TLC shows `ClientRouted` violated in seconds; the comment at
  `server.ts:2033` says "the edge has the mapping before the first frame".
- A join forwarded after its connection closed, and then timed out, leaves a seat.
- An owner that takes a live edge for dead ends its seats without telling the client, and,
  in the middle of a join, answers ok without a JOIN_SUCCESS (`server.ts:2206`).
- The answer to a refresh may overwrite a later `lock()` or `dispose()` in a proxy's cache;
  a refresh answered ROOM_NOT_FOUND leaves the proxy available.
- `RedisBackplane`: a `subscribe` that overlaps an `unsubscribe` may end up without
  delivery.
- `RedisBackplane.unsubscribe` forgets the channel before its UNSUBSCRIBE: when that fails
  (`redis.ts:181`), Redis delivers on, to no callback, and calling `unsubscribe` again answers
  ok without a command, as the map entry is gone (:173).

*State and codecs.*
- A map key outside its integer kind makes the whole frame unencodable; the patch is skipped
  and the clients stay `_synced` (`room.ts:1511`), and if the frame held a DEFINE, later
  frames with that class fail until a snapshot.
- A message map with two keys that are the same on the wire encodes under the schema codec
  and is refused by its receiver; MessagePack keeps one of them.
- `MessagePackStateSession` keeps the DEFINEs of a frame that failed.

*The client.*
- `leave()` or `leaveAll()` while a resume is unanswered leaves a seat behind
  (`client-js/src/room.ts:399`, `client.ts:1004`).
- If the connection drops after the server rotated the token and before the client has it,
  the held seat cannot be resumed.
- `disconnect()` in an `onDisconnect` listener is undone by the retry that follows.
- A newer live message may overtake one that was kept for its listener.
- In C#, `_resuming` is a list, and a resume whose connection is lost between its
  JOIN_SUCCESS and its snapshot is put into it by both loops of `Lost`
  (`BungohanClient.cs:564`). The next connection sends two JOINs that resume with one token, and the
  JOIN_ERROR of the second gives up the seat the first resumed; left meanwhile, the room stays
  in the list once (`Forget`, :694) and a seat is resumed that nobody uses.
  `csharp/README.md:106` says "an unexpected close resumes every seat with its stored token".
- In C#, an opening that `Poll` handles after the socket has ended again fails every resume
  at once, and their seats are given up, although another connection may follow.
- In C#, the task of `Close` calls `_cancel.Cancel()` outside its `try`
  (`WebSocketClientTransport.cs:103`), and may do so after `RunAsync` disposed of it (:177): the
  exception ends a task nobody awaits. Nothing is left undone, as `RunAsync` cancelled before.
- `useRoomState` without a selector misses a frame applied between render and subscription.

## Proofs

Eight modules hold proofs, one for each of eight components. They are about every value of
the constants: any clients, processes, keys, handlers and messages, any bound. What is
assumed of constants is an `ASSUME` of the component's module, which only gives types, or a
hypothesis of the theorem, named in these tables. Each rests on an inductive invariant: it
holds at first, every step keeps it, and it implies the property, or for `FilterHolds` and
the refinement, what each step may do.

### `RoomSeatsProofs`

| Theorem | Property |
|---|---|
| `TypeCorrect` | `TypeOK` |
| `ConnectionsHoldOneSeat` | `OneSeatPerConnection` |
| `NoGhostSeat` | `JoinedSeatIsConnected` |
| `HoldsAreTimed` | `HoldHasTimer` |
| `OnlyCurrentTokens` | `TokensCurrent` |
| `LeavesOnce` | `OnLeaveAtMostOnce` |
| `ConnectedRoomsRun` | `ConnectedNeverPaused` |
| `HandshakesComeFirst` | `HandshakeFirst` |
| `CapacityHolds` | `SeatCapacity`, for finitely many clients, when no reservation is consumed in the turn it expires |
| `RoomsEndInOrder` | `RoomEnds`, for an `OrdinaryRoom` |

None of these is inductive alone. `SeatInv` strengthens them with what the code relies on:
which join steps go with which status (`Lifecycle`), that a room that does not exist yet has
no seats (`NoRoomYet`), that a seat's connection is the one its join came from
(`SeatsBound`), and when a room is paused (`PausedRoom`). The 35 actions are first reduced
to 11 effects on a seat (`SeatEffect`), so that each part of the invariant is proved against
11 cases and not 35. `HandshakeFirst` needs besides that nothing is sent to a seat that is new or
joining, nothing to a bot, and that a seat that was resumed has had a token (`Greeted`).

`RoomEnds` does not hold of every room: [above](#what-the-models-found) are the ways a kick,
a disposal from outside or a refused join breaks it. `OrdinaryRoom` leaves those out (seats
come from the creator and from reservations, server code only locks) and is what the run
`ordinary_rooms` checks. `EndsInv` says for each phase of the room who can be in it
(`Beginning`, `Failing`, `JoinsStand`), that a room closes only when it is empty and once
(`Closing`), and that nobody has been in a room that is empty and open (`EmptyAtOnce`).

### `ClusterLocksProofs`

| Theorem | Property |
|---|---|
| `TypeCorrect` | `TypeOK` |
| `LeasesAreSound` | `LeasesSound` |
| `OneRoom` | `OneRoomPerPool` |

For every finite set of processes, every rendezvous hash and any number of calls and faults.
`LeasesSound` is about a lease that its holder, the table of its coordinator and the
messages between them describe; the invariant `Links` says how the three fit: a request
anybody knows of was made (`Known`) and, like its grant, sent once (`OnceEach`); while it is
on its way or in a queue nobody answered it and its call waits (`Unanswered`, `Queueing`); a
grant on its way to a call that waits is the holder's (`Answered`); who gives a lock back no
longer wants it (`Ended`); a lock that is held has a call that got it, a grant or an `unlock`
on its way (`NoOrphan`). Each action changes at most one table, removes some leases and adds at most one;
`ProcessStep` states that effect, and every part of `Links` is proved against it once.
`OneRoomPerPool` adds `Calm`: while nothing went wrong all processes know each other, so all
calls have one coordinator, and a room is created only where there is none. What `Without`,
a recursive function, leaves in a queue is proved by induction over its length, stated for
a set of naturals (`NatSetInduction`).

### `StateSyncProofs`

| Theorem | Property |
|---|---|
| `TypeCorrect` | `TypeOK` |
| `FilterIsKept` | `FilterHolds`: no client is told of what its filter hides |
| `StreamsAreOrdered` | `NoDesync` and `QueueBounded` |
| `StaysInStep` | `InStep`, when no key is unencodable (`BadKey = {}`) |
| `StreamIsImplemented` | `ImplementsStream`, when no key is unencodable |

With an unencodable key the skipped patch leaves the clients out of step, as
[above](#what-the-models-found); the first three theorems hold all the same. `SyncInv` has
the pauses and snapshots (`Begun`: a client in step has a session or its snapshot is on the
way). `StreamInv` adds that the change record is exactly what happened since the boundary
(`Changes`), that each frame on the way leads from the view before it to its own (`Chain`),
and that the last one leads to the boundary as the client may see it (`Reached`); the
operators that make frames are shown exact once, for any contents (`PatchExact`,
`SnapshotExact`). For the refinement `Sync` and `Shed` are steps of `Publish`, `Receive` of
`Show`, `Disconnect` and `Leave` of `Cut`, all others stutter.

### `ClusterJoinProofs`

| Theorem | Property |
|---|---|
| `TypeCorrect` | `TypeOK` |
| `RoutesLead` | `OneRoute` and `RouteLeads`: a join ends in one owner, and a route leads to a seat or its end is on the way |
| `ClientsRouted` | `ClientRouted`, when no join that creates may time out (`NoCreatingTimeOut`) |
| `SeatsListed` | `SeatReachable` and `SeatRouted`, when a join that creates or is late has its connection to itself (`Alone`) |
| `RoutesAndSeatsAgree` | `RoutesAndSeats`, all five, under both hypotheses |

For any owners, connections, crashes, false suspicions and time-outs, and any finite set of
joins. The two
hypotheses are the two ways the code breaks the property ([above](#what-the-models-found)):
`_createElsewhere` and `_pruneRemoteConnection`. The instance of the run `cluster` satisfies
both, with a join that creates and may be late, and another that times out.

A seat, its route and its client are described by three tables and by the messages on two
channels, and most of the argument is about the order of those messages. It goes:

1. *Queues.* Taking the first message off a queue, or putting a set of messages at its end,
   is stated once by what it keeps (`Popped`, `Grown`): which messages are in the queue,
   that one is in it at most once (`Once`), that one comes before another (`Before`).
2. *One join at one owner.* The state falls apart into pairs of a join and an owner.
   `StepParts` shows that every step is, for each pair, one of a few things that the edge,
   or that the owner, may do to it (`Part`), so that what follows is proved against these
   and not against the actions.
3. *Messages.* `PhasesSound`: a join is at an owner in one phase at a time (not sent,
   asked, trying, answered, ended), its reply precedes its JOIN_SUCCESS and that its LEAVE,
   and neither the JOIN nor its reply is sent twice. `EdgeSound` ties the phase to the request and the routes of the edge,
   `ClosedSound` what an owner lists to the connections it was told are closed. With
   `Leads`, that a route without a seat has its LEAVE on the way, this is the
   inductive invariant `ClusterSound`, which needs no hypothesis.
4. *Clients.* `ClientsSound`: a client that waits is answered only by the owner its join is
   at. This is where a creating join that timed out, and went on to another owner, breaks it.
5. *Seats.* `ListedSound`: the owner lists the `RemoteConnection` of every join it holds; a
   plain join is sent before the end of its connection is (`Ordered`), so that the end finds
   the seat. `FilledSound`: a seat that was filled is routed, or the edge will hear of it.

### The others

| Module | Theorem | Property |
|---|---|---|
| `SimulationLoopProofs` | `LoopIsSound` | `LoopSound`, for any step lengths and limit on catching up |
| `RoomMessagesProofs` | `MessagesAreSound` | `RoomMessagesSound` |
| `BackplaneProofs` | `SubscriptionsAreSound` | `BackplaneSound`, when `subscribe` waits for `unsubscribe` (`~Overlap`); commands may fail |
| `AppEventsProofs` | `EventsAreDelivered` | `AppEventsSound` |

- `LoopInv` adds that a running loop has a step and less than a step in hand, and that a
  ready room has a loop exactly at a positive rate; the arithmetic of whole and dropped steps
  is in lemmas about `\div`.
- `MessageInv` says that the table has the Set of the registrations that stand, and that each
  task waits for the one before it; that a waiting task is never forgotten follows by the
  least task that has not ended.
- `BackplaneInv` says that one command is in flight at most, which SUBSCRIBE the backplane
  counts on, and that Redis delivers exactly as long as one does or the last UNSUBSCRIBE
  failed. Without `~Overlap` it fails
  ([above](#what-the-models-found)).
- `EventInv` has for every publisher and process one lane, the wire or the microtasks:
  messages on a lane are in order, what a handler got is older than what is on its way
  (`GotFirst`), a handler that stands is in the Set of its channel, and what it is owed is on
  a lane or arrived.

### What is only model-checked

Liveness (`SeatsResolve`, `LockResolves`, `ClientResolves`, `CatchesUp`, `Settles`, and the
temporal part of `LifecycleSound`) needs fairness and `ENABLED`, which this prover does not
have. `Wire`, `MessageCodec`, `SchemaSession`, `OpStream`, `StateTree` and what builds on
them are recursive over data: what they compute for every input is out of its reach. The
rest (`GatewaySound`, `MatchSound`, `LoadsASave`, `DiscoverySound`, `ProxySound`, `InboxSound`,
`HooksSound`, `ClientsMatch`, `SocketSound` and the safety part of `LifecycleSound`) could be
proved and is not: the methods of the clients are operators from record to record, whose
invariants would have to be found method by method, and the others are checked on instances
that hold every kind of step. `RefsSound`, `MessagesSound` and `StreamSound` are about the
recursive modules.

## Limits

- One room, one pool, one key space, one channel per module: rooms, pools and channels do not
  share state in the code but for the process that holds them.
- Payloads, names, metadata and options are model values, or absent where nothing depends
  on them. Filters over metadata, sorting and listings of rooms are left out.
- Time is order: a timer may fire whenever it is armed, except in `Gateway`,
  `SimulationLoop` and `StateStore`, which count.
- Composition stops at pairs: the matchmaker's lock and broadcasts are ideal, `ClusterJoin`
  seats clients without the capacity of `RoomSeats`, `StateSync` has one map of values and
  `StateRefs` no filters.
- *Not modelled:* HTTP and metrics (read-only views and counters), code generation and
  scripts (build time), the testing harness, the Godot addon (a port of the client to GDScript), example
  applications. Of the C# client the decoders and the events kept for late handlers are left
  out: they are ports of what `OpStream`, `StateReplica` and `RoomInbox` model. The bytes of
  MessagePack and of Redis commands, and socket I/O, belong to libraries; they are modelled
  by how the code uses them.

## Plan

The parts named at the start are modelled and the properties that matter most of seats,
locks, synchronisation and joins across processes are proved. What would come next:

1. Proofs of `SeatsGivenBack` of `RoomHooks`, `ClaimsHeld` of `Matchmaker`, and `NoLostWake` of
   `SocketThreads`, whose invariants are short.
2. A composition of `ClusterJoin` with the capacity of `RoomSeats`, so that a forwarded join
   competes for the last seat.
3. The Godot client, against `SeatServer` as the other two clients are.
