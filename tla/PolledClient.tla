---------------------------- MODULE PolledClient ----------------------------
(***************************************************************************)
(* The C# client (clients/csharp, Net/): BungohanClient and the rooms it   *)
(* owns, against SeatServer.  Its transport reports from another thread    *)
(* (SocketThreads) into a queue; Poll(), which the game calls once a       *)
(* frame, handles the reports in order and then the timers.                *)
(*                                                                         *)
(* down[k] is what connection k has yet to tell the client, on the network *)
(* and in the queue: OPEN, frames, CLOSE.  So a connection may have ended, *)
(* and refuse what is sent, before the client hears of it.                 *)
(*                                                                         *)
(* The fields are one record, `cl`, and a method is an operator from such  *)
(* a record to the next.  Tasks are completed without                      *)
(* RunContinuationsAsynchronously: the code that waits for them, JoinAsync *)
(* too, runs inside the method that completes them (where there is no      *)
(* SynchronizationContext).                                                *)
(***************************************************************************)
EXTENDS SeatServer, FiniteSets, FiniteSetsExt

CONSTANTS
    MaxAttempts,     \* ReconnectionOptions.MaxAttempts
    UserActs         \* "leave", "leaveAll", "disconnect"; "quit": in a Disconnected handler

VARIABLE cl          \* the fields of BungohanClient and of its rooms

polledVars == <<cl, sock, link, up, down, seat>>

\* Room r stands at most once in _resuming for each connection that was lost.
Nth == 1 .. MaxOpens

\* The requests in _pending: the i-th of room r on the connection.
Requests(c) == {q \in Room \X Nth : q[2] \in c.pending[q[1]]}

\* Whether a pending request of r resumes its seat: the join of r returned before.
Resumes(c, r) == c.result[r] # "waiting"

----------------------------------------------------------------------------
(* The methods of the client and of its rooms.  Frames are collected in    *)
(* c.out.                                                                  *)

\* SendFrame succeeds: the client took the connection for open, and the socket has
\* not ended.
CanSend(c) == c.open /\ sock[c.conn] = "open"

Send(c, f) == IF CanSend(c) THEN [c EXCEPT !.out = Append(@, f)] ELSE c

\* Forget: a list forgets one occurrence.  A first join in flight fails, a resume
\* does not.
Forget(c, r) ==
    LET d == [c EXCEPT !.byRef = @ \ {r}, !.resuming[r] = IF @ = 0 THEN 0 ELSE @ - 1]
    IN IF Resumes(c, r) \/ c.pending[r] = {} THEN d
       ELSE [d EXCEPT !.pending[r] = {}, !.result[r] = "err"]

\* BungohanRoom.MarkLeft.
MarkLeft(r, c) ==
    IF c.status[r] = "left" THEN c ELSE Forget([c EXCEPT !.status[r] = "left"], r)

\* Settle with a failure: a seat that the server gave is handed back, and one that
\* could not be resumed is gone.
Settle(c, r, i) ==
    IF i \notin c.pending[r] THEN c
    ELSE LET d == [c EXCEPT !.pending[r] = @ \ {i}]
             e == IF r \in c.byRef /\ c.status[r] # "left"
                  THEN [Send(d, Frame("LEAVE", r, 0, 0)) EXCEPT !.byRef = @ \ {r}] ELSE d
         IN IF Resumes(c, r) THEN MarkLeft(r, e) ELSE [e EXCEPT !.result[r] = "err"]

Fail(c, Q) == FoldSet(LAMBDA q, d : Settle(d, q[1], q[2]), c, Q)

\* Request: a JOIN with the token of the room, if it has one.
Request(r, c) ==
    LET i == c.asked[r] + 1
        d == [c EXCEPT !.asked[r] = i, !.pending[r] = @ \cup {i}]
    IN IF CanSend(c) THEN Send(d, Frame("JOIN", r, i, c.token[r])) ELSE Settle(d, r, i)

\* SetDisconnected: everything ends.
SetDisconnected(c) ==
    LET d == Fail([c EXCEPT !.state = "disconnected", !.attempt = 0, !.retry = FALSE],
                  Requests(c))
        e == FoldSet(MarkLeft, [d EXCEPT !.byRef = {}, !.resuming = [r \in Room |-> 0]],
                     d.byRef \cup {r \in Room : d.resuming[r] > 0})
    IN [e EXCEPT !.asking = {},
                 !.result = [r \in Room |-> IF r \in e.asking THEN "err" ELSE @[r]]]

\* BungohanRoom.Leave.  RoomRef is set with the token.
Leave(r, c) ==
    MarkLeft(r, IF c.status[r] \notin {"left", "reconnecting"} /\ c.token[r] # 0
                THEN Send(c, Frame("LEAVE", r, 0, 0)) ELSE c)

\* The rooms of LeaveAll.
InUse(c) == c.byRef \cup {r \in Room : c.resuming[r] > 0 \/ c.pending[r] # {}}

\* Disconnect, without the close of the socket.
DisconnectNow(c) ==
    SetDisconnected([FoldSet(Leave, c, InUse(c)) EXCEPT !.retry = FALSE, !.conn = 0,
                                                        !.open = FALSE])

\* FailedAttempt: the next retry, or the end.
FailedAttempt(c) ==
    IF c.state = "connecting" THEN SetDisconnected(c)
    ELSE IF c.attempt >= MaxAttempts
         THEN SetDisconnected([c EXCEPT !.state = "reconnecting"])
         ELSE [c EXCEPT !.state = "reconnecting", !.attempt = @ + 1, !.retry = TRUE]

\* BungohanRoom.Suspend, and n occurrences more in _resuming.
Suspend(c, r, n) ==
    [c EXCEPT !.resuming[r] = @ + n, !.twice = IF c.resuming[r] + n > 1 THEN @ \cup {r} ELSE @,
              !.status[r] = IF @ = "left" THEN @ ELSE "reconnecting"]

\* The first part of Lost: first joins in flight fail, resumes wait again.
Dropped(c) ==
    LET back == {r \in Room : Resumes(c, r) /\ c.pending[r] # {}}
        d == FoldSet(LAMBDA r, e : [Suspend(e, r, Cardinality(c.pending[r]))
                                      EXCEPT !.pending[r] = {}],
                     [c EXCEPT !.conn = 0, !.open = FALSE], back)
    IN Fail(d, Requests(d))

\* The part of Lost that keeps the seats of the rooms that were joined.  A resume
\* that had its JOIN_SUCCESS and no snapshot is kept by both parts.
Kept(c) ==
    [FoldSet(LAMBDA r, d : IF c.status[r] = "joining" THEN MarkLeft(r, d) ELSE Suspend(d, r, 1),
             [c EXCEPT !.byRef = {}], c.byRef)
        EXCEPT !.state = "reconnecting"]

\* Lost.  quits: a Disconnected handler calls Disconnect().
Lost(c, terminal, quits) ==
    LET d == Dropped(c)
        heard(e) == IF quits /\ c.open THEN DisconnectNow(e) ELSE e
    IN IF c.state = "connecting" THEN SetDisconnected(d)
       ELSE IF terminal THEN heard(SetDisconnected(d))
       ELSE FailedAttempt(heard(Kept(d)))

\* Opened: joins that waited for the connection ask at once, then every seat that is
\* to be resumed, as often as the list has it.
Opened(c) ==
    LET d == FoldSet(Request, [c EXCEPT !.open = TRUE, !.state = "connected", !.attempt = 0,
                                        !.asked = [r \in Room |-> 0]], c.asking)
        e == [d EXCEPT !.asking = {}]
        again == {q \in Room \X Nth : q[2] <= e.resuming[q[1]]}
        asks(q, f) == Request(q[1], [f EXCEPT !.resuming[q[1]] = IF @ = 0 THEN 0 ELSE @ - 1])
    IN IF c.state = "reconnecting" THEN FoldSet(asks, e, again) ELSE e

\* BungohanRoom.Bind: the room adopts the handshake, with the token for the next resume.
Bind(c, r, k) ==
    [c EXCEPT !.token[r] = k, !.status[r] = IF @ = "reconnecting" THEN "joining" ELSE @]

\* JoinSuccess, for a handshake the client can use (usable) or not: malformed, an
\* unknown codec, the wrong room.
JoinSuccess(c, r, i, k, usable) ==
    IF i \notin c.pending[r] THEN Send(c, Frame("LEAVE", r, 0, 0))
    ELSE IF ~usable THEN Settle(Send(c, Frame("LEAVE", r, 0, 0)), r, i)
    ELSE [Bind(c, r, k) EXCEPT !.byRef = @ \cup {r}]

\* BungohanRoom.Snapshot.
Snapshot(c, r) == [c EXCEPT !.status[r] = IF @ = "joining" THEN "joined" ELSE @]

\* Joined: completes the pending join the dictionary finds first, i.
Joined(c, r, i) ==
    IF c.status[r] = "left" \/ i \notin c.pending[r] THEN c
    ELSE [c EXCEPT !.pending[r] = @ \ {i},
                   !.result[r] = IF Resumes(c, r) THEN @ ELSE "ok"]

\* Desync: the state frame of r did not apply.  The connection counts as lost, to resume
\* every seat on the next one.
Desync(c, r, quits) == Lost(Snapshot(c, r), FALSE, quits)

----------------------------------------------------------------------------
(* The transport, external: the socket opens, or ends.                     *)

\* What the client is told of, besides frames.
Report(t, terminal) == [type |-> t, terminal |-> terminal]

SocketOpens(k) ==
    /\ sock[k] = "opening"
    /\ sock' = [sock EXCEPT ![k] = "open"]
    /\ link' = [link EXCEPT ![k] = "open"]
    /\ down' = [down EXCEPT ![k] = <<Report("OPEN", FALSE)>>]
    /\ UNCHANGED <<cl, up, seat>>

\* The client is told so after the frames that reached it.
SocketEnds(k) ==
    /\ sock[k] \in {"opening", "open"}
    /\ sock' = [sock EXCEPT ![k] = "ended"]
    /\ \E n \in 0 .. Len(down[k]), terminal \in BOOLEAN :
          /\ sock[k] = "open" => n > 0 \/ Head(down[k] \o <<Report("", FALSE)>>).type # "OPEN"
          /\ down' = [down EXCEPT ![k] = Append(SubSeq(@, 1, n), Report("CLOSE", terminal))]
    /\ UNCHANGED <<cl, link, up, seat>>

----------------------------------------------------------------------------
(* The events of the client. *)

\* The client's fields become c, and what it sent goes out on connection k.
Becomes(c, k) ==
    /\ cl' = [c EXCEPT !.out = <<>>]
    /\ up' = IF k = 0 THEN up ELSE [up EXCEPT ![k] = @ \o c.out]

\* The client closes connection k, or has none: nothing it reports is heard.
Closes(k) ==
    /\ sock' = IF k = 0 THEN sock ELSE [sock EXCEPT ![k] = "ended"]
    /\ down' = IF k = 0 THEN down ELSE [down EXCEPT ![k] = <<>>]

\* Open.  Beyond MaxOpens the transport cannot even try.
Open(c) ==
    IF c.opens < MaxOpens
    THEN /\ Becomes([c EXCEPT !.opens = @ + 1, !.conn = c.opens + 1], 0)
         /\ sock' = [sock EXCEPT ![c.opens + 1] = "opening"]
    ELSE Becomes(FailedAttempt(c), 0) /\ UNCHANGED sock

\* ConnectAsync of a client that is not connected.
ConnectAsync ==
    /\ cl.state = "disconnected" /\ cl.opens < MaxOpens
    /\ Open([cl EXCEPT !.state = "connecting"])
    /\ UNCHANGED <<link, down, seat>>

\* JoinAsync: connects first if need be, then asks.
JoinAsync(r) ==
    /\ cl.result[r] = "none"
    /\ LET c == [cl EXCEPT !.result[r] = "waiting"]
           waits == [c EXCEPT !.asking = @ \cup {r}]
       IN \/ cl.state = "connected" /\ Becomes(Request(r, c), cl.conn) /\ UNCHANGED sock
          \/ cl.state = "disconnected" /\ Open([waits EXCEPT !.state = "connecting"])
          \/ cl.state \in {"connecting", "reconnecting"} /\ Becomes(waits, 0) /\ UNCHANGED sock
    /\ UNCHANGED <<link, down, seat>>

\* A frame for room r: BungohanClient.Receive.  A state frame may not apply: the socket
\* is closed after Desync.
Receive(k, f) ==
    LET r == f.room
        heard == sock' = sock /\ down' = [down EXCEPT ![k] = Tail(@)]
    IN \/ /\ f.type = "JOIN_SUCCESS"
          /\ \E usable \in BOOLEAN : Becomes(JoinSuccess(cl, r, f.id, f.token, usable), k)
          /\ heard
       \/ f.type = "JOIN_ERROR" /\ Becomes(Settle(cl, r, f.id), k) /\ heard
       \/ /\ f.type = "LEAVE"
          /\ Becomes(IF r \in cl.byRef THEN MarkLeft(r, cl) ELSE cl, k)
          /\ heard
       \/ f.type = "STATE_SNAPSHOT" /\ r \notin cl.byRef /\ Becomes(cl, k) /\ heard
       \/ /\ f.type = "STATE_SNAPSHOT" /\ r \in cl.byRef
          /\ \E i \in IF cl.pending[r] = {} THEN {0} ELSE cl.pending[r] :
                Becomes(Joined(Snapshot(cl, r), r, i), k)
          /\ heard
       \/ /\ f.type = "STATE_SNAPSHOT" /\ r \in cl.byRef
          /\ \E quits \in {FALSE, "quit" \in UserActs} :
                Becomes(Desync(cl, r, quits), 0)
          /\ Closes(k)

\* Poll handles the next report.
Poll(k) ==
    /\ cl.conn = k /\ down[k] # <<>>
    /\ LET f == Head(down[k])
           heard == sock' = sock /\ down' = [down EXCEPT ![k] = Tail(@)]
       IN \/ f.type = "OPEN" /\ Becomes(Opened(cl), k) /\ heard
          \/ /\ f.type = "CLOSE"
             /\ \E quits \in {FALSE, "quit" \in UserActs} :
                   Becomes(Lost(cl, f.terminal, quits), 0)
             /\ heard
          \/ Receive(k, f)
    /\ UNCHANGED <<link, seat>>

\* Timers: the retry is due, or some joins are.
Timers ==
    /\ \/ cl.retry /\ Open([cl EXCEPT !.retry = FALSE])
       \/ /\ \E Q \in SUBSET Requests(cl) : Q # {} /\ Becomes(Fail(cl, Q), cl.conn)
          /\ UNCHANGED sock
    /\ UNCHANGED <<link, down, seat>>

----------------------------------------------------------------------------
(* The application.  It does not leave a room whose resume was sent and    *)
(* has no snapshot: the code sends no LEAVE then, as in ClientSdk.         *)

MayLeave(S) == \A r \in S : Resumes(cl, r) => cl.pending[r] = {}

LeaveRoom(r) ==
    /\ "leave" \in UserActs /\ cl.result[r] = "ok" /\ cl.status[r] # "left" /\ MayLeave({r})
    /\ Becomes(Leave(r, cl), cl.conn)
    /\ UNCHANGED <<sock, link, down, seat>>

LeaveAll ==
    /\ "leaveAll" \in UserActs /\ InUse(cl) # {} /\ MayLeave(InUse(cl))
    /\ Becomes(FoldSet(Leave, cl, InUse(cl)), cl.conn)
    /\ UNCHANGED <<sock, link, down, seat>>

Disconnect ==
    /\ "disconnect" \in UserActs /\ cl.state # "disconnected"
    /\ Becomes(DisconnectNow(cl), cl.conn)
    /\ Closes(cl.conn)
    /\ UNCHANGED <<link, seat>>

----------------------------------------------------------------------------
PolledInit ==
    /\ cl = [state |-> "disconnected", conn |-> 0, open |-> FALSE, attempt |-> 0,
             retry |-> FALSE, opens |-> 0, asking |-> {}, byRef |-> {},
             pending |-> [r \in Room |-> {}], asked |-> [r \in Room |-> 0],
             resuming |-> [r \in Room |-> 0], twice |-> {},
             status |-> [r \in Room |-> "joining"], token |-> [r \in Room |-> 0],
             result |-> [r \in Room |-> "none"], out |-> <<>>]
    /\ ServerInit

PolledNext ==
    \/ ConnectAsync \/ Timers \/ LeaveAll \/ Disconnect
    \/ \E r \in Room : JoinAsync(r) \/ LeaveRoom(r)
    \/ \E k \in Conn : Poll(k) \/ SocketOpens(k) \/ SocketEnds(k)
    \/ ServerNext /\ UNCHANGED cl

----------------------------------------------------------------------------
(* Properties. *)

\* No seat is taken for nobody: a seat on the client's connection, as long as that is
\* open, belongs to a room in use, or the answer that gives it, or the LEAVE that
\* gives it back, is on its way (JoinSuccess, Settle).  A room that was twice in
\* _resuming is excepted: left while it reconnects, it stays once in the list and is
\* resumed for nobody (Forget).
NoPolledStray ==
    \A r \in Room \ cl.twice :
        cl.open /\ sock[cl.conn] = "open" /\ seat[r].st = "live" /\ seat[r].on = cl.conn
            => \/ r \in cl.byRef /\ cl.status[r] # "left"
               \/ Under(down[cl.conn], "JOIN_SUCCESS", r)
               \/ Under(up[cl.conn], "LEAVE", r)

\* A room in use is seated, with the token kept for the next resume, unless its end is
\* on its way or the connection ended at either side; there is one connection, and
\* every join that is pending or waits has somebody who waits for it.
PolledMatch ==
    /\ \A r \in cl.byRef :
          cl.status[r] # "left" /\ link[cl.conn] = "open" /\ sock[cl.conn] = "open"
              => \/ /\ seat[r].st = "live" /\ seat[r].on = cl.conn
                    /\ seat[r].tok = cl.token[r]
                 \/ Under(down[cl.conn], "LEAVE", r)
    /\ \A k \in Conn : sock[k] \in {"opening", "open"} => k = cl.conn
    /\ cl.retry => cl.conn = 0 /\ cl.state = "reconnecting"
    /\ \A r \in Room : cl.result[r] = "waiting" <=>
          r \in cl.asking \/ (cl.pending[r] # {} /\ ~Resumes(cl, r))
=============================================================================
