----------------------------- MODULE ClientSdk -----------------------------
(***************************************************************************)
(* The connection and the rooms of one client SDK (client-js): joins that  *)
(* time out, sockets that drop, retries, and seats resumed with tokens.    *)
(* The other end is SeatServer.                                            *)
(*                                                                         *)
(* The SDK runs in one JavaScript thread.  An action is one event with     *)
(* everything it does synchronously, and the promise continuations that    *)
(* follow before the next event.  The SDK's fields are one record, `sdk`,  *)
(* and a method of the code is an operator from such a record to the next: *)
(* the methods call each other.  A member of Room is a Room object, joined *)
(* once.                                                                   *)
(*                                                                         *)
(* A room asks at most once on a connection (a join when it is new, a      *)
(* resume when the connection opens), so its name stands for the request   *)
(* id as well.                                                             *)
(***************************************************************************)
EXTENDS SeatServer, FiniteSets

CONSTANTS
    MaxAttempts,     \* reconnection.maxAttempts
    UserActs         \* what the application does besides joining (see Acts)

\* "leave", "leaveAll", "disconnect": the methods; "early": the first two also
\* while the server has yet to answer a resume; "quit": disconnect() in an
\* onDisconnect listener.
Acts == {"leave", "leaveAll", "disconnect", "early", "quit"}

ASSUME ClientSdkAssumption ==
    /\ MaxAttempts \in Nat
    /\ UserActs \subseteq Acts

VARIABLE sdk         \* the fields of BungohanClient and of its rooms

vars == <<sdk, sock, link, up, down, seat>>
serverVars == <<link, down, seat>>

\* A room asks once on a connection.
Ask(r, k) == Frame("JOIN", r, 1, k)

\* One type invariant: the fields of the client, the sockets, the seats.
TypeOK ==
    /\ sdk \in [state : {"disconnected", "connecting", "connected", "reconnecting"},
                conn : 0 .. MaxOpens, open : BOOLEAN, attempt : 0 .. MaxAttempts,
                retry : BOOLEAN, fetch : 0 .. MaxOpens, asking : SUBSET Room,
                pending : [Room -> {"no", "join", "resume"}],
                byRef : SUBSET Room, resuming : SUBSET Room,
                status : [Room -> {"joining", "joined", "reconnecting", "left"}],
                ref : [Room -> 0 .. MaxOpens], token : [Room -> 0 .. MaxOpens],
                result : [Room -> {"none", "waiting", "ok", "err"}],
                out : {<<>>}]
    /\ sock \in [Conn -> {"none", "fetching", "opening", "open", "ended"}]
    /\ link \in [Conn -> {"none", "open", "closed"}]
    /\ up \in [Conn -> Seq(Frames)] /\ down \in [Conn -> Seq(Frames)]
    /\ seat \in [Room -> Seats]

----------------------------------------------------------------------------
(* The methods of the client.  c is the record before, the value the one   *)
(* after.  Frames it sends are collected in c.out.                         *)

\* Change f on the rooms of S.
On(f, S, v) == [r \in Room |-> IF r \in S THEN v ELSE f[r]]

\* _sendFrame, once for each room of S.
Send(c, S, t) ==
    IF c.open
    THEN [c EXCEPT !.out = @ \o SetToSeq({Frame(t, r, 0, 0) : r \in S})]
    ELSE c

\* _forget, for the rooms of S: a first join in flight fails, a resume does not.
Forget(c, S) ==
    LET J == {r \in S : c.pending[r] = "join"}
    IN [c EXCEPT !.byRef = @ \ S, !.resuming = @ \ S,
                 !.pending = On(@, J, "no"), !.result = On(@, J, "err")]

\* Room._left, for the rooms of S: each is over for the application.
Left(c, S) ==
    LET T == {r \in S : c.status[r] # "left"}
    IN Forget([c EXCEPT !.status = On(@, T, "left")], T)

\* _settle with an error, for the joins of S that are pending.  A seat that the
\* server gave is handed back; a seat that could not be resumed is gone.
Fail(c, S) ==
    LET P == {r \in S : c.pending[r] # "no"}
        seated == {r \in P \cap c.byRef : c.status[r] # "left"}
        resumes == {r \in P : c.pending[r] = "resume"}
        d == Send([c EXCEPT !.pending = On(@, P, "no"), !.byRef = @ \ seated,
                            !.result = On(@, P \ resumes, "err")], seated, "LEAVE")
    IN Left(d, resumes)

\* _request: a JOIN frame and a pending join.  kind is "join" or "resume".
Request(c, S, kind) ==
    LET d == [c EXCEPT !.pending = On(@, S, kind),
                       !.out = @ \o SetToSeq({Ask(r, IF kind = "resume" THEN c.token[r] ELSE 0) : r \in S})]
    IN IF c.open THEN d ELSE Fail([c EXCEPT !.pending = On(@, S, kind)], S)

\* A client that ends and leaves its pending connect() calls waiting.
SetDisconnected_KeepsConnects(c) ==
    LET d == Fail([c EXCEPT !.state = "disconnected", !.attempt = 0, !.retry = FALSE],
                  Room)
    IN Left([d EXCEPT !.byRef = {}, !.resuming = {}], d.byRef \cup d.resuming)

\* _setDisconnected: everything ends.
SetDisconnected(c) ==
    LET d == Fail([c EXCEPT !.state = "disconnected", !.attempt = 0, !.retry = FALSE],
                  Room)
        e == [d EXCEPT !.byRef = {}, !.resuming = {}, !.asking = {},
                       !.result = On(@, d.asking, "err")]
    IN Left(e, d.byRef \cup d.resuming)

\* Room._leaveNow for the rooms of S: no LEAVE for a room that reconnects.
LeaveNow(c, S) ==
    LET T == {r \in S : c.status[r] # "left"}
    IN Left(Send(c, {r \in T : c.status[r] # "reconnecting" /\ c.ref[r] # 0}, "LEAVE"), T)

\* The rooms of _leaveAllNow.
InUse(c) == c.byRef \cup c.resuming \cup {r \in Room : c.pending[r] # "no"}

\* _disconnectNow, without the close of the socket.
DisconnectNow(c) ==
    SetDisconnected([LeaveNow(c, InUse(c)) EXCEPT !.retry = FALSE, !.conn = 0,
                                                  !.open = FALSE])

\* _failedAttempt: the next retry, or the end.
FailedAttempt(c) ==
    IF c.state = "connecting" THEN SetDisconnected(c)
    ELSE IF c.attempt >= MaxAttempts
         THEN SetDisconnected([c EXCEPT !.state = "reconnecting"])
         ELSE [c EXCEPT !.state = "reconnecting", !.attempt = @ + 1, !.retry = TRUE]

\* The first part of _lost: the connection is gone, joins in flight on it fail,
\* resumes wait for the next one.
Dropped(c) ==
    LET resumes == {r \in Room : c.pending[r] = "resume"}
        d == [c EXCEPT !.conn = 0, !.open = FALSE,
                       !.pending = On(@, resumes, "no"), !.resuming = @ \cup resumes,
                       !.status = On(@, {r \in resumes : c.status[r] # "left"},
                                     "reconnecting")]
    IN Fail(d, Room)

\* The part of _lost that keeps the seats: rooms that were never joined end.
Suspended(c) ==
    LET early == {r \in c.byRef : c.status[r] = "joining"}
        kept == c.byRef \ early
        d == Left([c EXCEPT !.byRef = {}], early)
    IN [d EXCEPT !.resuming = @ \cup kept, !.state = "reconnecting",
                 !.status = On(@, {r \in kept : c.status[r] # "left"}, "reconnecting")]

\* _lost.  quits: an onDisconnect listener calls disconnect().
Lost(c, terminal, quits) ==
    LET d == Dropped(c)
        heard(e) == IF quits /\ c.open THEN DisconnectNow(e) ELSE e
    IN IF c.state = "connecting" THEN SetDisconnected(d)
       ELSE IF terminal THEN heard(SetDisconnected(d))
       ELSE FailedAttempt(heard(Suspended(d)))

\* _opened: joins that waited for the connection ask, and so does every seat
\* that is to be resumed.
Opened(c) ==
    LET d == [c EXCEPT !.open = TRUE, !.state = "connected", !.attempt = 0]
        S == IF c.state = "reconnecting" THEN c.resuming ELSE {}
        lost == {r \in S : c.token[r] = 0}
        e == Left([d EXCEPT !.resuming = @ \ S], lost)
    IN Request(Request([e EXCEPT !.asking = {}], S \ lost, "resume"), c.asking, "join")

\* A late answer is dropped, with the seat it gives.
JoinSuccess_Dropped(c, r, k, usable) ==
    IF c.pending[r] = "no" THEN c
    ELSE IF ~usable THEN Fail(Send(c, {r}, "LEAVE"), {r})
    ELSE [c EXCEPT !.ref[r] = c.conn, !.token[r] = k, !.byRef = @ \cup {r},
                   !.status[r] = IF @ = "reconnecting" THEN "joining" ELSE @]

\* _joinSuccess, for an answer the client can use (usable) or not: a malformed
\* handshake, an unknown codec, the wrong room.
JoinSuccess(c, r, k, usable) ==
    IF c.pending[r] = "no" THEN Send(c, {r}, "LEAVE")
    ELSE IF ~usable THEN Fail(Send(c, {r}, "LEAVE"), {r})
    ELSE [c EXCEPT !.ref[r] = c.conn, !.token[r] = k, !.byRef = @ \cup {r},
                   !.status[r] = IF @ = "reconnecting" THEN "joining" ELSE @]

\* A snapshot that applies: Room._snapshot and _joined.
Snapshot(c, r) ==
    LET d == [c EXCEPT !.status[r] = IF @ = "joining" THEN "joined" ELSE @]
    IN IF d.status[r] = "left" \/ c.pending[r] = "no" THEN d
       ELSE [d EXCEPT !.pending[r] = "no",
                      !.result[r] = IF c.pending[r] = "join" THEN "ok" ELSE @]

\* A state frame that does not apply: Room._snapshot, Room._desync and _desync.
\* The client drops its connection, to resume every seat on the next one.
Desync(c, r, quits) ==
    Lost([c EXCEPT !.status[r] = IF @ = "joining" THEN "joined" ELSE @], FALSE, quits)

----------------------------------------------------------------------------
(* The events of the client. *)

\* The client's fields become c, and what it sent goes out on connection k.
Becomes(c, k) ==
    /\ sdk' = [c EXCEPT !.out = <<>>]
    /\ up' = IF k = 0 THEN up ELSE [up EXCEPT ![k] = @ \o c.out]

\* _open: the token for the next connection is fetched.  Beyond MaxOpens an
\* attempt fails at once.
Open(c) ==
    IF c.fetch < MaxOpens
    THEN /\ Becomes([c EXCEPT !.fetch = @ + 1], 0)
         /\ sock' = [sock EXCEPT ![c.fetch + 1] = "fetching"]
    ELSE /\ Becomes(FailedAttempt(c), 0)
         /\ UNCHANGED sock

\* connect() of a client that is not connected.
Connect ==
    /\ sdk.state = "disconnected" /\ sdk.fetch < MaxOpens
    /\ Open([sdk EXCEPT !.state = "connecting"])
    /\ UNCHANGED serverVars

\* _join(): connects first if need be, then asks.
Join(r) ==
    /\ sdk.result[r] = "none"
    /\ LET c == [sdk EXCEPT !.result[r] = "waiting"]
           waits == [c EXCEPT !.asking = @ \cup {r}]
       IN \/ /\ sdk.state = "connected"
             /\ Becomes(Request(c, {r}, "join"), sdk.conn) /\ UNCHANGED sock
          \/ /\ sdk.state = "disconnected"
             /\ Open([waits EXCEPT !.state = "connecting"])
          \/ /\ sdk.state \in {"connecting", "reconnecting"}
             /\ Becomes(waits, 0) /\ UNCHANGED sock
    /\ UNCHANGED serverVars

\* The token provider of attempt k answered, or failed.  An answer that is not
\* the latest, or that comes after disconnect(), is dropped.
TokenFetched(k) ==
    /\ sock[k] = "fetching"
    /\ IF k # sdk.fetch \/ sdk.state = "disconnected"
       THEN sock' = [sock EXCEPT ![k] = "ended"] /\ UNCHANGED <<sdk, up>>
       ELSE \/ /\ sock' = [sock EXCEPT ![k] = "opening"]
               /\ Becomes([sdk EXCEPT !.conn = k], 0)
            \/ /\ sock' = [sock EXCEPT ![k] = "ended"]
               /\ Becomes(FailedAttempt(sdk), 0)
    /\ UNCHANGED serverVars

\* The socket opened, at both ends.
SocketOpens(k) ==
    /\ sock[k] = "opening" /\ sdk.conn = k
    /\ sock' = [sock EXCEPT ![k] = "open"]
    /\ link' = [link EXCEPT ![k] = "open"]
    /\ Becomes(Opened(sdk), k)
    /\ UNCHANGED <<down, seat>>

\* The socket of the current connection is reported closed: it never opened,
\* the network failed, or the server closed it.
SocketCloses(k) ==
    /\ sdk.conn = k /\ sock[k] \in {"opening", "open"}
    /\ sock' = [sock EXCEPT ![k] = "ended"]
    /\ \E terminal \in BOOLEAN, quits \in {FALSE, "quit" \in UserActs} :
          Becomes(Lost(sdk, terminal, quits), 0)
    /\ down' = [down EXCEPT ![k] = <<>>]
    /\ UNCHANGED <<link, seat>>

\* A frame arrives: _receive.  A state frame may not apply: the socket is closed
\* after _desync.  (The frames that a first join holds for its next turn, see
\* RoomInbox, are handled here in the turn they arrive in.)
Receive(k) ==
    /\ sdk.conn = k /\ sock[k] = "open" /\ down[k] # <<>>
    /\ LET f == Head(down[k])
           r == f.room
           rest == [down EXCEPT ![k] = Tail(@)]
       IN \/ /\ f.type = "JOIN_SUCCESS"
             /\ \E usable \in BOOLEAN : Becomes(JoinSuccess(sdk, r, f.token, usable), k)
             /\ down' = rest /\ UNCHANGED sock
          \/ /\ f.type = "JOIN_ERROR"
             /\ Becomes(Fail(sdk, {r}), k)
             /\ down' = rest /\ UNCHANGED sock
          \/ /\ f.type = "LEAVE"
             /\ Becomes(IF r \in sdk.byRef THEN Left(sdk, {r}) ELSE sdk, k)
             /\ down' = rest /\ UNCHANGED sock
          \/ /\ f.type = "STATE_SNAPSHOT"
             /\ Becomes(IF r \in sdk.byRef THEN Snapshot(sdk, r) ELSE sdk, k)
             /\ down' = rest /\ UNCHANGED sock
          \/ /\ f.type = "STATE_SNAPSHOT" /\ r \in sdk.byRef
             /\ \E quits \in {FALSE, "quit" \in UserActs} : Becomes(Desync(sdk, r, quits), 0)
             /\ sock' = [sock EXCEPT ![k] = "ended"]
             /\ down' = [down EXCEPT ![k] = <<>>]
    /\ UNCHANGED <<link, seat>>

\* The join timer of r: the server did not answer.
JoinTimeout(r) ==
    /\ sdk.pending[r] # "no"
    /\ Becomes(Fail(sdk, {r}), sdk.conn)
    /\ UNCHANGED <<sock, serverVars>>

\* The retry timer.
Retry ==
    /\ sdk.retry
    /\ Open([sdk EXCEPT !.retry = FALSE])
    /\ UNCHANGED serverVars

----------------------------------------------------------------------------
(* The application. *)

\* Whether the application may leave the rooms of S now.
MayLeave(S) == "early" \in UserActs \/ \A r \in S : sdk.pending[r] # "resume"

\* room.leave(), of a room whose join returned.
LeaveRoom(r) ==
    /\ "leave" \in UserActs /\ sdk.result[r] = "ok" /\ sdk.status[r] # "left"
    /\ MayLeave({r})
    /\ Becomes(LeaveNow(sdk, {r}), sdk.conn)
    /\ UNCHANGED <<sock, serverVars>>

\* leaveAll().
LeaveAll ==
    /\ "leaveAll" \in UserActs /\ InUse(sdk) # {} /\ MayLeave(InUse(sdk))
    /\ Becomes(LeaveNow(sdk, InUse(sdk)), sdk.conn)
    /\ UNCHANGED <<sock, serverVars>>

\* disconnect(), also when the page exits: the socket is closed after the LEAVEs.
Disconnect ==
    /\ "disconnect" \in UserActs /\ sdk.state # "disconnected"
    /\ Becomes(DisconnectNow(sdk), sdk.conn)
    /\ sock' = IF sdk.conn = 0 THEN sock ELSE [sock EXCEPT ![sdk.conn] = "ended"]
    /\ down' = IF sdk.conn = 0 THEN down ELSE [down EXCEPT ![sdk.conn] = <<>>]
    /\ UNCHANGED <<link, seat>>

----------------------------------------------------------------------------
Init ==
    /\ sdk = [state |-> "disconnected", conn |-> 0, open |-> FALSE, attempt |-> 0,
              retry |-> FALSE, fetch |-> 0, asking |-> {}, byRef |-> {}, resuming |-> {},
              pending |-> [r \in Room |-> "no"], status |-> [r \in Room |-> "joining"],
              ref |-> [r \in Room |-> 0], token |-> [r \in Room |-> 0],
              result |-> [r \in Room |-> "none"], out |-> <<>>]
    /\ ServerInit

Next ==
    \/ Connect \/ Disconnect \/ LeaveAll \/ Retry
    \/ \E r \in Room : Join(r) \/ LeaveRoom(r) \/ JoinTimeout(r)
    \/ \E k \in Conn : TokenFetched(k) \/ SocketOpens(k) \/ SocketCloses(k) \/ Receive(k)
    \/ ServerNext /\ UNCHANGED sdk

Spec == Init /\ [][Next]_vars

\* Timers fire, a token provider settles, a socket that opens is reported.
Fairness ==
    /\ WF_vars(Retry)
    /\ \A r \in Room : WF_vars(JoinTimeout(r))
    /\ \A k \in Conn : WF_vars(TokenFetched(k))
                       /\ WF_vars(sock[k] = "opening" /\ (SocketOpens(k) \/ SocketCloses(k)))

FairSpec == Spec /\ Fairness
----------------------------------------------------------------------------
(* Properties. *)

\* No seat is taken for nobody: a seat on the client's open connection belongs to
\* a room in use, or the answer that gives it, or the LEAVE that gives it back,
\* is on its way.  Late answers, time-outs and refused handshakes all have to
\* hand their seat back (`_joinSuccess`, `_settle`).
NoStraySeat ==
    \A r \in Room :
        sdk.open /\ seat[r].st = "live" /\ seat[r].on = sdk.conn
            => \/ r \in sdk.byRef /\ sdk.status[r] # "left"
               \/ Under(down[sdk.conn], "JOIN_SUCCESS", r)
               \/ Under(up[sdk.conn], "LEAVE", r)

\* A room that is joined is seated, with the token the client keeps for the next
\* resume, unless its end is on its way or the server saw the connection close.
JoinedIsSeated ==
    \A r \in sdk.byRef :
        sdk.status[r] # "left" /\ link[sdk.conn] = "open"
            => \/ /\ seat[r].st = "live" /\ seat[r].on = sdk.conn
                  /\ seat[r].tok = sdk.token[r]
               \/ Under(down[sdk.conn], "LEAVE", r)

\* There is one connection: no retry, no new connect() and no late token leaves a
\* second socket behind, or an attempt that would open one.
OneSocket ==
    /\ \A k \in Conn : sock[k] \in {"opening", "open"} => k = sdk.conn
    /\ sdk.retry => /\ sdk.conn = 0 /\ sdk.state = "reconnecting"
                    /\ sdk.fetch = 0 \/ sock[sdk.fetch] # "fetching"

\* Rooms, seats and sockets match.
RoomsMatch == JoinedIsSeated /\ OneSocket

\* Every join the application makes is answered: by the server, by the timer, or
\* because the connection is gone.
JoinResolves == \A r \in Room : sdk.result[r] = "waiting" ~> sdk.result[r] \in {"ok", "err"}

\* A room that reconnects is joined again or over: no seat waits for ever.
ResumeResolves ==
    \A r \in Room : sdk.status[r] = "reconnecting" ~> sdk.status[r] \in {"joined", "left"}

\* Nothing the application waits for stays open.
Resolves == JoinResolves /\ ResumeResolves
=============================================================================
