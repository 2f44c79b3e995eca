----------------------------- MODULE RoomSeats -----------------------------
(***************************************************************************)
(* The seats of one room (packages/core/src/room.ts) and the join,         *)
(* reconnection and disconnection handlers of its server                   *)
(* (packages/core/src/server.ts).                                          *)
(*                                                                         *)
(* The program is one JavaScript thread.  An action is one run of code     *)
(* from an event, or from the point where an awaited promise settled, to   *)
(* the next await; user hooks (onCreate, onAuth, onJoin, onLeave,          *)
(* onDispose) are asynchronous, so starting one and its completion are     *)
(* two actions, and anything may happen in between.                        *)
(*                                                                         *)
(* A join ends in a "gap": after the hook's outcome was checked, only      *)
(* promise continuations (microtasks) run before _completeJoin.  Events    *)
(* of the transport and timers cannot fall into it; continuations of other *)
(* hooks can.                                                              *)
(***************************************************************************)
EXTENDS Naturals, Sequences, FiniteSets

CONSTANTS
    Client,             \* seats: each one is a Client object, seated at most once
    Conn,               \* transport connections, each opened at most once
    NoConn,             \* `_connection === undefined`
    MaxClients,         \* `maxClients`
    AutoDispose,        \* `autoDispose`
    AllowReconnection,  \* `allowReconnection && reconnectionTimeout > 0`
    MaxRequests,        \* bound: JOIN frames a connection sends
    JoinKinds,          \* how seats are taken in this instance (see Kinds)
    Fails,              \* which of them user code or a check may turn down; and
                        \* "onCreate", "consume", "late": see the actions
    ServerActs          \* what server code does: "kick", "dispose" (and stop), "lock",
                        \* and "gap": any of its calls in the gap of a join

Kinds == {"create", "join", "reservation", "server"}

ASSUME RoomSeatsAssumption ==
    /\ NoConn \notin Conn
    /\ MaxClients \in Nat \ {0}
    /\ MaxRequests \in Nat
    /\ JoinKinds \subseteq Kinds
    /\ Fails \subseteq Kinds \cup {"onCreate", "consume", "late"}
    /\ ServerActs \subseteq {"kick", "dispose", "lock", "gap"}
    /\ AutoDispose \in BOOLEAN /\ AllowReconnection \in BOOLEAN

VARIABLES
    phase,      \* of onCreate: "none", "creating", "ready" (`_ready`), "failed"
    disposing,  \* `_disposing !== undefined`
    dmain,      \* the `_dispose` call: "no", "releasing", "hook", "done"
    dnest,      \* a second `_dispose`, begun inside the first: "no", "hook", "done"
    todo,       \* clients the `_dispose` loop has still to release
    awaited,    \* the client whose `_release` that loop awaits (or none)
    disposals,  \* how many times onDispose was called
    shutdown,   \* the server's `_shuttingDown`
    locked,     \* `_locked`
    paused,     \* `_paused`
    rsv,        \* per client: its reservation "none", "held", "due", "over"
    status,     \* per client: "new", then `_status`
    conn,       \* per client: `_connection`
    by,         \* per client: `joinedBy` ("none" before)
    pc,         \* per client: where its join continues
    target,     \* per client: the connection its join came from
    token,      \* per client: `_reconnectionToken`, 0 if undefined
    tokens,     \* `_tokens`: pairs <<client, token>>
    issued,     \* per client: tokens issued so far
    timers,     \* `_reconnectTimers`: clients with an armed hold timer
    leaving,    \* clients whose onLeave is running
    entered,    \* clients whose onJoin completed
    leaves,     \* per client: calls of onLeave
    queued,     \* clients with frames in `_queue`
    wire,       \* per client: frames sent on its current roomRef
    link,       \* per connection: "fresh", "open" (`_open`), "closing", "closed"
    asked       \* per connection: JOIN frames it sent

disposeVars == <<disposing, dmain, dnest, todo, awaited, disposals>>
flagVars    == <<shutdown, locked>>
joinVars    == <<by, pc, target>>
tokenVars   == <<token, tokens, issued>>
hookVars    == <<leaving, entered, leaves>>
frameVars   == <<queued, wire>>
linkVars    == <<link, asked>>
vars == <<phase, disposeVars, flagVars, paused, rsv, status, conn, joinVars,
          tokenVars, timers, hookVars, frameVars, linkVars>>

-----------------------------------------------------------------------------
(* The room's tables.                                                      *)

Live == {"joining", "joined", "reconnecting"}

\* `clients`: the map holds exactly the seats with a live status.
Seated == {c \in Client : status[c] \in Live}
Held(r) == {c \in Client : r[c] = "held"}

SeatCount == Cardinality(Seated) + Cardinality(Held(rsv))

\* The room is still in the manager: `roomDisposed` has not run.
Registered == phase # "none" /\ dmain # "done" /\ dnest # "done"

\* Fault: reservations are not counted.
AcceptsNewSeat_Overbooks == ~disposing /\ ~locked /\ Cardinality(Seated) < MaxClients

AcceptsNewSeat == ~disposing /\ ~locked /\ SeatCount < MaxClients

\* Fault: only a finished join counts as a seat.
SeatedOn_JoinedOnly(k) == \E c \in Client : conn[c] = k /\ status[c] = "joined"

\* `_seatedIn`: the connection holds a seat here.
SeatedOn(k) == \E c \in Client : conn[c] = k

\* No join is in its gap, so the event loop may take the next event.
EventLoop == \A c \in Client : pc[c] \notin {"complete", "resumed"}
\* User code can run: at an event, or, with "gap", in a gap.
UserCode == "gap" \in ServerActs \/ EventLoop

\* A JOIN frame of connection k is served.  It may have waited (`_admitting`,
\* the static onAuth), so that k is closed by now.
Request(k) ==
    /\ link[k] # "fresh" /\ asked[k] < MaxRequests
    /\ asked' = [asked EXCEPT ![k] = @ + 1]
    /\ UNCHANGED link

\* Frames on one roomRef, equal neighbours merged.
Log(w, f) == IF w # <<>> /\ w[Len(w)] = f THEN w ELSE Append(w, f)

CanSend(c) == conn[c] # NoConn /\ link[conn[c]] = "open"

\* Fault: the connection is not looked at again.
TargetClosed_Ignored(c) == FALSE

\* `!connection._open`, for the connection c's join came from.
TargetClosed(c) == by[c] # "server" /\ link[target[c]] # "open"

\* Fault: frames go to a joining client at once.
DeliverAll_Unqueued(to) ==
    /\ wire' = [c \in Client |-> IF c \in to /\ CanSend(c) THEN Log(wire[c], "frame") ELSE wire[c]]
    /\ UNCHANGED queued

\* `_deliverAll`: to a joined client now, to a joining one through its queue.
DeliverAll(to) ==
    /\ wire' = [c \in Client |-> IF c \in to /\ status[c] = "joined" /\ CanSend(c)
                                 THEN Log(wire[c], "frame") ELSE wire[c]]
    /\ queued' = queued \cup {c \in to : status[c] = "joining" /\ conn[c] # NoConn}

\* Fault: a paused room stays paused.
PauseAfter_NeverResumes(st, cn) ==
    \/ paused
    \/ /\ ~disposing /\ phase = "ready"
       /\ \E c \in Client : st[c] = "reconnecting"
       /\ \A c \in Client : st[c] = "joined" => cn[c] = NoConn

\* `_updatePause`, over the statuses and connections the step leaves behind.
PauseAfter(st, cn) ==
    LET held      == {c \in Client : st[c] = "reconnecting"}
        connected == {c \in Client : st[c] \in {"joining", "joined"} /\ cn[c] # NoConn}
    IN  IF disposing \/ phase # "ready" THEN paused
        ELSE IF connected = {} /\ held # {} THEN TRUE
        ELSE IF connected # {} THEN FALSE
        ELSE paused

IsEmpty(st, rs) == (\A c \in Client : st[c] \notin Live) /\ Held(rs) = {}

\* `_checkEmpty`: an empty room starts disposing.  Nobody is left to release,
\* so `_dispose` runs straight into onDispose.
CheckEmpty(st, rs) ==
    /\ IF AutoDispose /\ phase = "ready" /\ ~disposing /\ IsEmpty(st, rs)
       THEN /\ disposing' = TRUE
            /\ dmain' = "hook"
            /\ disposals' = disposals + 1
       ELSE UNCHANGED <<disposing, dmain, disposals>>
    /\ UNCHANGED <<dnest, todo, awaited>>

\* Fault: the old token stays in the table.
Revoked_Never(S) == tokens

\* `_revokeToken` of the clients in S: the table without their tokens.
Revoked(S) == tokens \ {<<c, token[c]>> : c \in S}

\* Fault: the timer of an earlier disconnection keeps running.
Disarmed_Never(S) == timers

\* `clearTimeout` and `_reconnectTimers.delete` for the clients in S.
Disarmed(S) == timers \ S

\* `_reconnectTimers.set` for the clients in S.
Armed(S) == timers \cup S

-----------------------------------------------------------------------------
(* Taking and giving up seats.                                             *)

\* `_seat` and `_bind`, for a join of kind `kind` from connection k.
Seat(c, k, kind) ==
    /\ status' = [status EXCEPT ![c] = "joining"]
    /\ conn'   = [conn EXCEPT ![c] = k]
    /\ target' = [target EXCEPT ![c] = k]
    /\ by'     = [by EXCEPT ![c] = kind]
    /\ pc'     = [pc EXCEPT ![c] = IF kind = "server" THEN "auth" ELSE "ready"]

\* `_unseat`: a join failed.  Only a join the room was there for empties it.
Unseat(c) ==
    /\ pc' = [pc EXCEPT ![c] = "done"]
    /\ IF c \in Seated
       THEN /\ status' = [status EXCEPT ![c] = "left"]
            /\ conn' = [conn EXCEPT ![c] = NoConn]
            /\ queued' = queued \ {c}
            /\ IF by[c] \in {"create", "reservation"}
               THEN CheckEmpty(status', rsv)
               ELSE UNCHANGED disposeVars
       ELSE UNCHANGED <<status, conn, queued, disposeVars>>
    /\ UNCHANGED <<by, target, wire>>

\* `_release` up to its await: S leave for good and their onLeave starts.
\* `farewell` is true when a LEAVE frame is sent first.
ReleaseAll(S, farewell) ==
    /\ status'  = [c \in Client |-> IF c \in S THEN "left" ELSE status[c]]
    /\ conn'    = [c \in Client |-> IF c \in S THEN NoConn ELSE conn[c]]
    /\ token'   = [c \in Client |-> IF c \in S THEN 0 ELSE token[c]]
    /\ tokens'  = Revoked(S)
    /\ timers'  = Disarmed(S)
    /\ leaving' = leaving \cup S
    /\ leaves'  = [c \in Client |-> IF c \in S THEN leaves[c] + 1 ELSE leaves[c]]
    /\ wire'    = [c \in Client |-> IF c \in S /\ farewell /\ CanSend(c)
                                    THEN Log(wire[c], "leave") ELSE wire[c]]
    /\ UNCHANGED <<issued, entered, queued>>

\* `_release` of a seat still joining: no frame and no onLeave.
ReleaseJoining(c) ==
    /\ status' = [status EXCEPT ![c] = "left"]
    /\ conn'   = [conn EXCEPT ![c] = NoConn]
    /\ queued' = queued \ {c}
    /\ UNCHANGED <<tokenVars, timers, hookVars, wire>>

\* Fault: a status nobody else knows.
Activated_Misnamed(c) == [status EXCEPT ![c] = "active"]

\* `_activate`: the statuses after it.
Activated(c) == IF status[c] = "joining" THEN [status EXCEPT ![c] = "joined"] ELSE status

-----------------------------------------------------------------------------
(* Creating the room.                                                      *)

\* matchMaker.createRoom: a room nobody has joined.
CreateRoom ==
    /\ phase = "none" /\ ~shutdown /\ EventLoop
    /\ phase' = "creating"
    /\ UNCHANGED <<disposeVars, flagVars, paused, rsv, status, conn, joinVars,
                   tokenVars, timers, hookVars, frameVars, linkVars>>

\* A join that creates: the static onAuth passed, the room is registered and
\* the seat taken in one step.  The connection may have closed meanwhile.
CreateAndJoin(c, k) ==
    /\ phase = "none" /\ "create" \in JoinKinds
    /\ status[c] = "new" /\ Request(k)
    /\ phase' = "creating"
    /\ Seat(c, k, "create")
    /\ wire' = [wire EXCEPT ![c] = <<>>]
    /\ UNCHANGED <<disposeVars, flagVars, paused, rsv, tokenVars, timers,
                   hookVars, queued>>

\* `_dispose` begins, over the clients seated now, and runs until it awaits:
\* with nobody seated, into onDispose; otherwise through the first release.
\* `_disposing` is assigned only when that run is over, so a `_checkEmpty`
\* inside it still sees the room undisposed and begins a second `_dispose`.
DisposeBegin ==
    /\ disposing' = TRUE
    /\ \/ /\ Seated = {}
          /\ rsv' = [c \in Client |-> IF rsv[c] = "held" THEN "over" ELSE rsv[c]]
          /\ dmain' = "hook"
          /\ disposals' = disposals + 1
          /\ UNCHANGED <<dnest, todo, awaited, status, conn, tokenVars, timers,
                         hookVars, frameVars>>
       \/ \E c \in Seated :
          /\ dmain' = "releasing"
          /\ todo' = Seated \ {c}
          /\ rsv' = rsv
          /\ IF status[c] = "joining"
             THEN /\ ReleaseJoining(c)
                  /\ awaited' = {}
                  /\ IF AutoDispose /\ phase = "ready" /\ IsEmpty(status', rsv)
                     THEN dnest' = "hook" /\ disposals' = disposals + 1
                     ELSE UNCHANGED <<dnest, disposals>>
             ELSE /\ ReleaseAll({c}, TRUE)
                  /\ awaited' = {c}
                  /\ UNCHANGED <<dnest, disposals>>

\* onCreate finished.  A throw disposes the room.
RoomCreated ==
    /\ phase = "creating"
    /\ phase' = "ready"
    /\ UNCHANGED <<disposeVars, flagVars, paused, rsv, status, conn, joinVars,
                   tokenVars, timers, hookVars, frameVars, linkVars>>

RoomCreateFailed ==
    /\ phase = "creating" /\ "onCreate" \in Fails
    /\ phase' = "failed"
    /\ IF disposing
       THEN UNCHANGED <<disposeVars, rsv, status, conn, tokenVars, timers,
                        hookVars, frameVars>>
       ELSE DisposeBegin
    /\ UNCHANGED <<flagVars, paused, joinVars, linkVars>>

-----------------------------------------------------------------------------
(* Joining.                                                                *)

\* JOIN or JOIN_BY_ID into this room: looked up, checked and seated in one
\* step.  The frame may have waited for `authenticate`, so the connection
\* may be closed by now.
JoinExisting(c, k) ==
    /\ "join" \in JoinKinds /\ Registered /\ ~shutdown
    /\ status[c] = "new" /\ rsv[c] = "none" /\ Request(k)
    /\ ~SeatedOn(k) /\ AcceptsNewSeat
    /\ Seat(c, k, "join")
    /\ wire' = [wire EXCEPT ![c] = <<>>]
    /\ UNCHANGED <<phase, disposeVars, flagVars, paused, rsv, tokenVars, timers,
                   hookVars, queued>>

\* `Room.join`: a server-side client, with no connection.
BotJoin(c) ==
    /\ "server" \in JoinKinds /\ Registered /\ UserCode
    /\ status[c] = "new" /\ rsv[c] = "none" /\ AcceptsNewSeat
    /\ Seat(c, NoConn, "server")
    /\ UNCHANGED <<phase, disposeVars, flagVars, paused, rsv, tokenVars, timers,
                   hookVars, frameVars, linkVars>>

\* matchMaker.reserve / reserveById: a seat held for a future session.
Reserve(c) ==
    /\ "reservation" \in JoinKinds /\ Registered /\ phase = "ready" /\ UserCode
    /\ status[c] = "new" /\ rsv[c] = "none" /\ AcceptsNewSeat
    /\ rsv' = [rsv EXCEPT ![c] = "held"]
    /\ UNCHANGED <<phase, disposeVars, flagVars, paused, status, conn, joinVars,
                   tokenVars, timers, hookVars, frameVars, linkVars>>

\* The room's timer fires, at `expiresAt`; the room forgets the reservation,
\* the matchmaker keeps its entry and takes it for expired when now() is past
\* that instant.
ReservationExpires(c) ==
    /\ rsv[c] = "held" /\ EventLoop
    /\ rsv' = [rsv EXCEPT ![c] = "due"]
    /\ CheckEmpty(status, rsv')
    /\ UNCHANGED <<phase, flagVars, paused, status, conn, joinVars, tokenVars,
                   timers, hookVars, frameVars, linkVars>>

ReservationOver(c) ==
    /\ rsv[c] = "due"
    /\ rsv' = [rsv EXCEPT ![c] = "over"]
    /\ UNCHANGED <<phase, disposeVars, flagVars, paused, status, conn, joinVars,
                   tokenVars, timers, hookVars, frameVars, linkVars>>

\* CONSUME_RESERVATION: the reservation becomes a seat, whatever the lock and
\* the seats taken; "late" is one that arrives at `expiresAt`, after the timer.
ConsumeReservation(c, k) ==
    /\ rsv[c] = "held" \/ (rsv[c] = "due" /\ "late" \in Fails)
    /\ ~disposing /\ ~shutdown
    /\ status[c] = "new" /\ Request(k) /\ ~SeatedOn(k)
    /\ rsv' = [rsv EXCEPT ![c] = "over"]
    /\ Seat(c, k, "reservation")
    /\ wire' = [wire EXCEPT ![c] = <<>>]
    /\ UNCHANGED <<phase, disposeVars, flagVars, paused, tokenVars, timers,
                   hookVars, queued>>

\* A reservation consumed without a seat: by matchMaker.consumeReservation,
\* or by a JOIN that `_checkRoom` then turns down (contract hash, already in
\* the room), or that finds the room disposing.
ConsumeForNothing(c) ==
    /\ rsv[c] = "held" /\ ("consume" \in Fails \/ disposing)
    /\ rsv' = [rsv EXCEPT ![c] = "over"]
    /\ UNCHANGED <<phase, disposeVars, flagVars, paused, status, conn, joinVars,
                   tokenVars, timers, hookVars, frameVars, linkVars>>

\* The join goes on once the room is created: onJoin for the creator (whose
\* status is not looked at), onAuth for the others.
RoomReady(c) ==
    /\ pc[c] = "ready" /\ phase \in {"ready", "failed"}
    /\ IF phase = "failed"
       THEN Unseat(c)
       ELSE /\ pc' = [pc EXCEPT ![c] = IF by[c] = "create" THEN "join" ELSE "auth"]
            /\ UNCHANGED <<status, conn, by, target, frameVars, disposeVars>>
    /\ UNCHANGED <<phase, flagVars, paused, rsv, tokenVars, timers, hookVars, linkVars>>

\* onAuth refused or threw.
AuthRefused(c) ==
    /\ pc[c] = "auth" /\ by[c] \in Fails
    /\ Unseat(c)
    /\ UNCHANGED <<phase, flagVars, paused, rsv, tokenVars, timers, hookVars, linkVars>>

\* onAuth admitted.  A client's join is abandoned if its connection closed or
\* its seat was released meanwhile; a bot's join does not look.
AuthPassed(c) ==
    /\ pc[c] = "auth"
    /\ IF TargetClosed(c) \/ (by[c] # "server" /\ status[c] # "joining")
       THEN Unseat(c)
       ELSE /\ pc' = [pc EXCEPT ![c] = "join"]
            /\ UNCHANGED <<status, conn, by, target, frameVars, disposeVars>>
    /\ UNCHANGED <<phase, flagVars, paused, rsv, tokenVars, timers, hookVars, linkVars>>

\* onJoin threw.
JoinThrew(c) ==
    /\ pc[c] = "join" /\ by[c] \in Fails
    /\ Unseat(c)
    /\ UNCHANGED <<phase, flagVars, paused, rsv, tokenVars, timers, hookVars, linkVars>>

\* onJoin returned; if the seat is still there, the join is in its gap.
JoinReturned(c) ==
    /\ pc[c] = "join"
    /\ pc' = [pc EXCEPT ![c] = IF status[c] = "joining" THEN "complete" ELSE "done"]
    /\ entered' = entered \cup {c}
    /\ UNCHANGED <<phase, disposeVars, flagVars, paused, rsv, status, conn, by,
                   target, tokenVars, timers, leaving, leaves, frameVars, linkVars>>

\* `_issueToken`: the old token is revoked, and a new one made if seats of
\* this room can be held.
IssueToken(c) ==
    LET kept == Revoked({c})
    IN  IF AllowReconnection
        THEN /\ issued' = [issued EXCEPT ![c] = @ + 1]
             /\ token'  = [token EXCEPT ![c] = issued[c] + 1]
             /\ tokens' = kept \cup {<<c, issued[c] + 1>>}
        ELSE /\ token' = [token EXCEPT ![c] = 0]
             /\ tokens' = kept
             /\ UNCHANGED issued

\* `_completeJoin` on an open connection: JOIN_SUCCESS, then `_activate`,
\* which sends the queued frames and tells the others.
CompleteJoin(c) ==
    /\ pc[c] = "complete"
    /\ ~TargetClosed(c)
    /\ pc' = [pc EXCEPT ![c] = "done"]
    /\ IF by[c] = "server" THEN UNCHANGED tokenVars ELSE IssueToken(c)
    /\ status' = Activated(c)
    /\ paused' = IF status[c] = "joining" THEN PauseAfter(status', conn) ELSE paused
    /\ LET others == IF status[c] = "joining" THEN Seated \ {c} ELSE {}
           mine   == IF by[c] = "server" THEN wire[c] ELSE Log(wire[c], "success")
           flush  == c \in queued /\ CanSend(c)
       IN  /\ wire' = [d \in Client |->
                 CASE d = c -> IF flush THEN Log(mine, "frame") ELSE mine
                   [] d \in others /\ status[d] = "joined" /\ CanSend(d) -> Log(wire[d], "frame")
                   [] OTHER -> wire[d]]
           /\ queued' = (queued \ {c}) \cup
                  {d \in others : status[d] = "joining" /\ conn[d] # NoConn}
    /\ UNCHANGED <<phase, disposeVars, flagVars, rsv, conn, by, target, timers,
                   hookVars, linkVars>>

\* Fault: a join whose connection closed is undone like a failed one.
CompleteJoinClosed_Undone(c) ==
    /\ pc[c] = "complete" /\ TargetClosed(c)
    /\ Unseat(c)
    /\ UNCHANGED <<phase, flagVars, paused, rsv, tokenVars, timers, hookVars, linkVars>>

\* `_completeJoin` on a closed connection: the seat is activated, so that the
\* others and onLeave see a full life, and lost at once: it has no token yet.
CompleteJoinClosed(c) ==
    /\ pc[c] = "complete"
    /\ TargetClosed(c)
    /\ pc' = [pc EXCEPT ![c] = "done"]
    /\ LET S == IF status[c] = "joining" THEN {c} ELSE {}
           others == IF status[c] = "joining" THEN Seated \ {c} ELSE {}
       IN  /\ status'  = [d \in Client |-> IF d \in S THEN "left" ELSE status[d]]
           /\ conn'    = [d \in Client |-> IF d \in S THEN NoConn ELSE conn[d]]
           /\ paused'  = IF S # {} THEN PauseAfter(Activated(c), conn) ELSE paused
           /\ leaving' = leaving \cup S
           /\ leaves'  = [d \in Client |-> IF d \in S THEN leaves[d] + 1 ELSE leaves[d]]
           /\ wire' = [d \in Client |-> IF d \in others /\ status[d] = "joined" /\ CanSend(d)
                                        THEN Log(wire[d], "frame") ELSE wire[d]]
           /\ queued' = (queued \ {c}) \cup
                  {d \in others : status[d] = "joining" /\ conn[d] # NoConn}
    /\ UNCHANGED <<phase, disposeVars, flagVars, rsv, by, target, tokenVars,
                   timers, entered, linkVars>>

-----------------------------------------------------------------------------
(* Losing a connection and coming back.                                    *)

Open(k) ==
    /\ link[k] = "fresh" /\ ~shutdown /\ EventLoop
    /\ link' = [link EXCEPT ![k] = "open"]
    /\ UNCHANGED <<asked, phase, disposeVars, flagVars, paused, rsv, status, conn,
                   joinVars, tokenVars, timers, hookVars, frameVars>>

\* `_shed` and `_violation`: closed by the server, the transport will report it.
Shed(k) ==
    /\ link[k] = "open"
    /\ link' = [link EXCEPT ![k] = "closing"]
    /\ UNCHANGED <<asked, phase, disposeVars, flagVars, paused, rsv, status, conn,
                   joinVars, tokenVars, timers, hookVars, frameVars>>

\* The condition of `_connectionLost` for holding a joined seat.
Holds(c) == AllowReconnection /\ token[c] # 0 /\ ~shutdown /\ ~disposing

\* `_handleDisconnect` and, for every seat of the connection,
\* `_connectionLost`: a joining seat is only unbound, a joined one is held
\* with its timer, or released.
Disconnect(k) ==
    /\ link[k] \in {"open", "closing"} /\ EventLoop
    /\ link' = [link EXCEPT ![k] = "closed"]
    /\ LET lost == {c \in Client : conn[c] = k}
           held == {c \in lost : status[c] = "joined" /\ Holds(c)}
           gone == {c \in lost : status[c] = "joined" /\ ~Holds(c)}
       IN  /\ status' = [c \in Client |-> IF c \in held THEN "reconnecting"
                                          ELSE IF c \in gone THEN "left" ELSE status[c]]
           /\ conn' = [c \in Client |-> IF c \in lost THEN NoConn ELSE conn[c]]
           /\ timers' = Armed(held)
           /\ token' = [c \in Client |-> IF c \in gone THEN 0 ELSE token[c]]
           /\ tokens' = Revoked(gone)
           /\ leaving' = leaving \cup gone
           /\ leaves' = [c \in Client |-> IF c \in gone THEN leaves[c] + 1 ELSE leaves[c]]
           /\ paused' = IF held # {} THEN PauseAfter(status', conn') ELSE paused
    /\ UNCHANGED <<phase, disposeVars, flagVars, rsv, joinVars, issued, entered,
                   frameVars, asked>>

\* RECONNECT with token t: `_heldSeat` finds the seat, `_reconnect` binds it.
\* onResume runs in here when the room was paused, and may broadcast.
Reconnect(c, k, t) ==
    /\ Registered /\ ~shutdown
    /\ <<c, t>> \in tokens /\ status[c] = "reconnecting"
    /\ Request(k) /\ ~SeatedOn(k)
    /\ timers' = Disarmed({c})
    /\ status' = [status EXCEPT ![c] = "joined"]
    /\ conn'   = [conn EXCEPT ![c] = k]
    /\ target' = [target EXCEPT ![c] = k]
    /\ pc'     = [pc EXCEPT ![c] = "resumed"]
    /\ paused' = PauseAfter(status', conn')
    /\ \/ wire' = [wire EXCEPT ![c] = <<>>]
       \/ /\ "gap" \in ServerActs /\ paused /\ ~paused' /\ link[k] = "open"
          /\ wire' = [wire EXCEPT ![c] = <<"frame">>]
    /\ UNCHANGED <<phase, disposeVars, flagVars, rsv, by, tokenVars, hookVars,
                   queued>>

\* `_completeJoin` of a reconnection: a new token and JOIN_SUCCESS; on a
\* connection closed meanwhile the seat is lost again.
CompleteReconnect(c) ==
    /\ pc[c] = "resumed"
    /\ pc' = [pc EXCEPT ![c] = "done"]
    /\ IF ~TargetClosed(c)
       THEN /\ IssueToken(c)
            /\ wire' = [wire EXCEPT ![c] = Log(@, "success")]
            /\ UNCHANGED <<status, conn, timers, leaving, leaves, entered, queued, paused>>
       ELSE IF status[c] # "joined"
       THEN UNCHANGED <<status, conn, timers, tokenVars, hookVars, frameVars, paused>>
       ELSE IF Holds(c)
       THEN /\ status' = [status EXCEPT ![c] = "reconnecting"]
            /\ conn'   = [conn EXCEPT ![c] = NoConn]
            /\ timers' = Armed({c})
            /\ paused' = PauseAfter(status', conn')
            /\ UNCHANGED <<tokenVars, hookVars, frameVars>>
       ELSE ReleaseAll({c}, FALSE) /\ UNCHANGED paused
    /\ UNCHANGED <<phase, disposeVars, flagVars, rsv, by, target, linkVars>>

\* The hold timer fires.
HoldExpires(c) ==
    /\ c \in timers /\ EventLoop
    /\ ReleaseAll({c}, FALSE)
    /\ UNCHANGED <<phase, disposeVars, flagVars, paused, rsv, joinVars, linkVars>>

-----------------------------------------------------------------------------
(* Leaving.                                                                *)

\* A LEAVE frame from the client.
ClientLeaves(c) ==
    /\ status[c] = "joined" /\ CanSend(c) /\ EventLoop
    /\ ReleaseAll({c}, TRUE)
    /\ UNCHANGED <<phase, disposeVars, flagVars, paused, rsv, joinVars, linkVars>>

\* disconnectClient / leave(): game code removes a seat, whatever its status.
Kick(c) ==
    /\ "kick" \in ServerActs /\ c \in Seated /\ UserCode
    /\ IF status[c] = "joining"
       THEN ReleaseJoining(c) /\ CheckEmpty(status', rsv)
       ELSE ReleaseAll({c}, TRUE) /\ UNCHANGED disposeVars
    /\ UNCHANGED <<phase, flagVars, paused, rsv, joinVars, linkVars>>

\* onLeave finished: CLIENT_LEFT to the others, then pause and emptiness.
LeaveReturned(c) ==
    /\ c \in leaving
    /\ leaving' = leaving \ {c}
    /\ DeliverAll(Seated)
    /\ paused' = PauseAfter(status, conn)
    /\ CheckEmpty(status, rsv)
    /\ UNCHANGED <<phase, flagVars, rsv, status, conn, joinVars, tokenVars,
                   timers, entered, leaves, linkVars>>

-----------------------------------------------------------------------------
(* Disposing.                                                              *)

Dispose ==
    /\ "dispose" \in ServerActs /\ Registered /\ ~disposing /\ UserCode
    /\ DisposeBegin
    /\ UNCHANGED <<phase, flagVars, paused, joinVars, linkVars>>

\* server.stop(): joins are refused from now on, and the room is disposed.
Stop ==
    /\ "dispose" \in ServerActs /\ ~shutdown /\ EventLoop
    /\ shutdown' = TRUE
    /\ IF Registered /\ ~disposing
       THEN DisposeBegin
       ELSE UNCHANGED <<disposeVars, rsv, status, conn, tokenVars, timers,
                        hookVars, frameVars>>
    /\ UNCHANGED <<phase, locked, paused, joinVars, linkVars>>

\* Fault: a client that left meanwhile is released again.
DisposeNext_Again(c) ==
    /\ dmain = "releasing" /\ awaited \cap leaving = {} /\ c \in todo
    /\ todo' = todo \ {c} /\ awaited' = {c}
    /\ ReleaseAll({c}, TRUE)
    /\ UNCHANGED <<phase, disposing, dmain, dnest, disposals, flagVars, paused,
                   rsv, joinVars, linkVars>>

\* Fault: the loop waits for the release of a client that left meanwhile.
DisposeNext_Waits(c) ==
    /\ dmain = "releasing" /\ awaited \cap leaving = {} /\ c \in todo \cap Seated
    /\ todo' = todo \ {c}
    /\ \/ status[c] = "joining" /\ awaited' = {} /\ ReleaseJoining(c)
       \/ status[c] # "joining" /\ awaited' = {c} /\ ReleaseAll({c}, TRUE)
    /\ UNCHANGED <<phase, disposing, dmain, dnest, disposals, flagVars, paused,
                   rsv, joinVars, linkVars>>

\* The `_dispose` loop takes its next client, when the release it awaited is
\* over.  A client that left meanwhile is skipped.
DisposeNext(c) ==
    /\ dmain = "releasing" /\ awaited \cap leaving = {} /\ c \in todo
    /\ todo' = todo \ {c}
    /\ \/ /\ status[c] = "left" /\ awaited' = {}
          /\ UNCHANGED <<status, conn, tokenVars, timers, hookVars, frameVars>>
       \/ /\ status[c] = "joining" /\ awaited' = {}
          /\ ReleaseJoining(c)
       \/ /\ status[c] \in {"joined", "reconnecting"} /\ awaited' = {c}
          /\ ReleaseAll({c}, TRUE)
    /\ UNCHANGED <<phase, disposing, dmain, dnest, disposals, flagVars, paused,
                   rsv, joinVars, linkVars>>

\* The loop is over: reservations are dropped and onDispose starts.
DisposeReleased ==
    /\ dmain = "releasing" /\ awaited \cap leaving = {} /\ todo = {}
    /\ dmain' = "hook"
    /\ disposals' = disposals + 1
    /\ awaited' = {}
    /\ rsv' = [c \in Client |-> IF rsv[c] = "held" THEN "over" ELSE rsv[c]]
    /\ UNCHANGED <<phase, disposing, dnest, todo, flagVars, paused, status, conn,
                   joinVars, tokenVars, timers, hookVars, frameVars, linkVars>>

\* onDispose finished: `roomDisposed`.
DisposeReturned ==
    /\ \/ dmain = "hook" /\ dmain' = "done" /\ dnest' = dnest
       \/ dnest = "hook" /\ dnest' = "done" /\ dmain' = dmain
    /\ UNCHANGED <<phase, disposing, todo, awaited, disposals, flagVars, paused,
                   rsv, status, conn, joinVars, tokenVars, timers, hookVars,
                   frameVars, linkVars>>

-----------------------------------------------------------------------------
(* The rest of the public surface.                                         *)

\* lock() and unlock().
ToggleLock ==
    /\ "lock" \in ServerActs /\ Registered /\ UserCode
    /\ locked' = ~locked
    /\ UNCHANGED <<phase, disposeVars, shutdown, paused, rsv, status, conn,
                   joinVars, tokenVars, timers, hookVars, frameVars, linkVars>>

\* broadcast() by game code.
Broadcast ==
    /\ Registered /\ UserCode
    /\ DeliverAll(Seated)
    /\ UNCHANGED <<phase, disposeVars, flagVars, paused, rsv, status, conn,
                   joinVars, tokenVars, timers, hookVars, linkVars>>

-----------------------------------------------------------------------------
Init ==
    /\ phase = "none" /\ disposing = FALSE /\ dmain = "no" /\ dnest = "no"
    /\ todo = {} /\ awaited = {} /\ disposals = 0
    /\ shutdown = FALSE /\ locked = FALSE /\ paused = FALSE
    /\ rsv    = [c \in Client |-> "none"]
    /\ status = [c \in Client |-> "new"]
    /\ conn   = [c \in Client |-> NoConn]
    /\ by     = [c \in Client |-> "none"]
    /\ pc     = [c \in Client |-> "idle"]
    /\ target = [c \in Client |-> NoConn]
    /\ token  = [c \in Client |-> 0]
    /\ tokens = {}
    /\ issued = [c \in Client |-> 0]
    /\ timers = {} /\ leaving = {} /\ entered = {}
    /\ leaves = [c \in Client |-> 0]
    /\ queued = {}
    /\ wire   = [c \in Client |-> <<>>]
    /\ link   = [k \in Conn |-> "fresh"]
    /\ asked  = [k \in Conn |-> 0]

\* Steps the program takes by itself: hooks that settle, timers that fire,
\* continuations that run.
Progress(c) ==
    \/ RoomReady(c) \/ AuthRefused(c) \/ AuthPassed(c)
    \/ JoinThrew(c) \/ JoinReturned(c)
    \/ CompleteJoin(c) \/ CompleteJoinClosed(c) \/ CompleteReconnect(c)
    \/ HoldExpires(c) \/ ReservationExpires(c) \/ ReservationOver(c)
    \/ LeaveReturned(c) \/ DisposeNext(c)

RoomProgress == RoomCreated \/ RoomCreateFailed \/ DisposeReleased \/ DisposeReturned

Environment(c) ==
    \/ BotJoin(c) \/ Reserve(c) \/ ConsumeForNothing(c)
    \/ ClientLeaves(c) \/ Kick(c)
    \/ \E k \in Conn :
          \/ CreateAndJoin(c, k) \/ JoinExisting(c, k) \/ ConsumeReservation(c, k)
          \/ \E p \in tokens : p[1] = c /\ Reconnect(c, k, p[2])

Next ==
    \/ \E c \in Client : Progress(c) \/ Environment(c)
    \/ RoomProgress
    \/ \E k \in Conn : Open(k) \/ Shed(k) \/ Disconnect(k)
    \/ CreateRoom \/ Dispose \/ Stop \/ ToggleLock \/ Broadcast

Spec == Init /\ [][Next]_vars

\* Fairness: every hook settles, every armed timer fires, every continuation
\* of the event loop runs.
Fairness ==
    /\ \A c \in Client : WF_vars(Progress(c))
    /\ WF_vars(RoomProgress)

FairSpec == Spec /\ Fairness

-----------------------------------------------------------------------------
(* Safety.                                                                 *)

Status  == {"new", "left"} \cup Live
Step    == {"idle", "ready", "auth", "join", "complete", "resumed", "done"}
Frame   == {"success", "frame", "leave"}

RoomType ==
    /\ phase \in {"none", "creating", "ready", "failed"}
    /\ shutdown \in BOOLEAN /\ locked \in BOOLEAN /\ paused \in BOOLEAN
DisposeType ==
    /\ disposing \in BOOLEAN
    /\ dmain \in {"no", "releasing", "hook", "done"}
    /\ dnest \in {"no", "hook", "done"}
    /\ todo \subseteq Client /\ awaited \subseteq Client
    /\ disposals \in Nat
SeatType ==
    /\ rsv    \in [Client -> {"none", "held", "due", "over"}]
    /\ status \in [Client -> Status]
    /\ conn   \in [Client -> Conn \cup {NoConn}]
JoinType ==
    /\ by     \in [Client -> Kinds \cup {"none"}]
    /\ pc     \in [Client -> Step]
    /\ target \in [Client -> Conn \cup {NoConn}]
TokenType ==
    /\ token  \in [Client -> Nat]
    /\ tokens \subseteq Client \X Nat
    /\ issued \in [Client -> Nat]
    /\ timers \subseteq Client
HookType ==
    /\ leaving \subseteq Client /\ entered \subseteq Client
    /\ leaves \in [Client -> Nat]
FrameType ==
    /\ queued \subseteq Client
    /\ wire   \in [Client -> Seq(Frame)]
LinkType ==
    /\ link   \in [Conn -> {"fresh", "open", "closing", "closed"}]
    /\ asked  \in [Conn -> Nat]

\* Every variable has its type.
TypeOK ==
    /\ RoomType /\ DisposeType /\ SeatType /\ JoinType
    /\ TokenType /\ HookType /\ FrameType /\ LinkType

\* Seats and reservations together never exceed maxClients, however joins,
\* reservations, holds and lock() interleave: `_seat` takes the seat before
\* any await.
SeatCapacity == SeatCount <= MaxClients

\* Two seats of the room are never bound to one connection, not even when the
\* connection sends a second JOIN, a CONSUME_RESERVATION and a RECONNECT while
\* its first join is still running (`_checkRoom`, `_seatedIn`).
OneSeatPerConnection ==
    \A c, d \in Client : conn[c] = conn[d] /\ conn[c] # NoConn => c = d

\* No ghost: a client that joined over the network and is not held has a
\* connection the transport has not reported closed, except between a
\* RECONNECT that came too late and its `_completeJoin`.
JoinedSeatIsConnected ==
    \A c \in Client :
        status[c] = "joined" /\ by[c] # "server" /\ pc[c] # "resumed" =>
            conn[c] # NoConn /\ link[conn[c]] # "closed"

\* Exactly the held seats have an armed hold timer: no seat is held for ever,
\* and no timer of an earlier disconnection evicts a client that came back.
HoldHasTimer == timers = {c \in Client : status[c] = "reconnecting"}

\* The token table holds exactly each client's current token, so a token that
\* was used, replaced or revoked never finds a seat again.
TokensCurrent == tokens = {<<c, token[c]>> : c \in {d \in Client : token[d] # 0}}

\* A token in the table names a client that still has its seat.
TokenNamesASeat == \A p \in tokens : p[1] \in Seated

\* onLeave runs at most once, only for a client whose onJoin finished, and
\* only once its seat is free.
OnLeaveAtMostOnce ==
    \A c \in Client :
        /\ leaves[c] <= 1
        /\ leaves[c] = 1 => c \in entered /\ status[c] = "left"

\* A room that is not closing never stays paused under a connected client:
\* its loops would not run, and a newcomer would wait for its snapshot.
ConnectedNeverPaused ==
    paused /\ ~disposing =>
        \A c \in Client : status[c] = "joined" => conn[c] = NoConn

\* Every client whose onJoin finished gets its onLeave when the seat is gone.
LeaveFollowsJoin ==
    \A c \in Client :
        c \in entered /\ status[c] = "left" => leaves[c] = 1

\* onDispose runs at most once.
DisposeOnce == disposals <= 1

\* The first frame a newly seated client gets is its JOIN_SUCCESS, whatever
\* other joins, hooks and broadcasts send while its own join runs: `_deliverAll`
\* queues for it, and `_activate` sends the queue after the handshake.  (A
\* seat that was resumed may get frames first: see README.md.)
HandshakeFirst ==
    \A c \in Client :
        /\ status[c] \in {"joining", "joined"} /\ issued[c] <= 1 /\ pc[c] # "resumed"
        /\ wire[c] # <<>>
        => wire[c][1] = "success"

\* No frame follows a LEAVE on its roomRef, although leaving, the departure
\* of others and broadcasts all send to it.
LeaveIsLast ==
    \A c \in Client : \A i \in 1..Len(wire[c]) :
        wire[c][i] = "leave" => i = Len(wire[c])

\* Nothing is going on in the room: no join, no onLeave.
Settled == leaving = {} /\ \A c \in Client : pc[c] \in {"idle", "done"}

\* A room with autoDispose whose last seat or reservation is gone is closing.
\* (A room from createRoom that nobody joined yet stays.)
EmptyRoomCloses ==
    AutoDispose /\ phase = "ready" /\ Settled /\ IsEmpty(status, rsv)
        /\ (\E c \in Client : leaves[c] > 0 \/ rsv[c] \in {"due", "over"})
    => disposing

\* What begins in the room ends in order: onLeave after onJoin, LEAVE as the last
\* frame, no token without its seat, one onDispose, and no empty room that stays
\* (room.ts _release, _revokeToken, _checkEmpty, _dispose).
RoomEnds ==
    LeaveFollowsJoin /\ LeaveIsLast /\ TokenNamesASeat /\ DisposeOnce /\ EmptyRoomCloses

-----------------------------------------------------------------------------
(* Liveness, under FairSpec.                                               *)

\* A held seat is resumed or released.
HeldSeatResolves ==
    \A c \in Client : status[c] = "reconnecting" ~> status[c] # "reconnecting"

\* Every join is answered, whatever hooks, checks and closures it meets.
JoinSettles == \A c \in Client : status[c] = "joining" ~> pc[c] = "done"

\* A disposal that began ends with the room gone from the manager and every
\* seat released.
DisposalEnds == disposing ~> (~Registered /\ \A c \in Client : status[c] \notin Live)

\* The three together: nothing a client or the server waits for stays open.
SeatsResolve == HeldSeatResolves /\ JoinSettles /\ DisposalEnds

=============================================================================
