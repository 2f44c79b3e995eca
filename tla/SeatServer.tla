----------------------------- MODULE SeatServer -----------------------------
(***************************************************************************)
(* The server as a client SDK sees it: it answers joins, holds the seat of *)
(* a connection it has seen close, and rotates a seat's token each time it *)
(* is taken or resumed.  RoomSeats has what it does in between.            *)
(*                                                                         *)
(* The k-th attempt of the client to open a connection is connection k.  A *)
(* room of the client has one seat, so its name stands for the roomRef,    *)
(* and the number of a connection for the token issued on it.              *)
(***************************************************************************)
EXTENDS Naturals, Sequences, SequencesExt

CONSTANTS
    Room,            \* room objects the application makes
    MaxOpens,        \* connections that may open; further attempts fail
    MaxFrames        \* frames in flight to the client

ASSUME SeatServerAssumption == MaxOpens \in Nat /\ MaxFrames \in Nat

Conn == 1 .. MaxOpens

VARIABLES
    sock,     \* [Conn -> state of the socket as the client sees it]
    link,     \* [Conn -> state of the connection as the server sees it]
    up,       \* [Conn -> frames on their way to the server]
    down,     \* [Conn -> frames on their way to the client]
    seat      \* [Room -> the seat at the server: st, on (connection), tok]

\* i is the request a JOIN makes or its answer is for: the i-th of the room on the
\* connection.
Frame(t, r, i, k) == [type |-> t, room |-> r, id |-> i, token |-> k]

Frames == [type : {"JOIN", "LEAVE", "JOIN_SUCCESS", "JOIN_ERROR", "STATE_SNAPSHOT"},
           room : Room, id : 0 .. MaxOpens, token : 0 .. MaxOpens]

Seats == [st : {"none", "joining", "live", "held", "gone"},
          on : 0 .. MaxOpens, tok : 0 .. MaxOpens]

\* Frames to a client whose socket ended go nowhere.
Tell(k, f) == down' = IF sock[k] = "open" THEN [down EXCEPT ![k] = Append(@, f)] ELSE down

\* A JOIN: a first join runs its hooks or is refused, a resume needs the
\* current token of a held seat.
ServerJoins(k, f) ==
    LET r == f.room
    IN \/ /\ f.token = 0
          /\ \/ /\ seat' = [seat EXCEPT ![r] = [st |-> "joining", on |-> k, tok |-> 0]]
                /\ UNCHANGED down
             \/ Tell(k, Frame("JOIN_ERROR", r, f.id, 0)) /\ UNCHANGED seat
       \/ /\ f.token # 0 /\ seat[r].st = "held" /\ seat[r].tok = f.token
          /\ seat' = [seat EXCEPT ![r] = [st |-> "live", on |-> k, tok |-> k]]
          /\ Tell(k, Frame("JOIN_SUCCESS", r, f.id, k))
       \/ /\ f.token # 0 /\ (seat[r].st # "held" \/ seat[r].tok # f.token)
          /\ Tell(k, Frame("JOIN_ERROR", r, f.id, 0))
          /\ UNCHANGED seat

\* A LEAVE is acknowledged and frees the seat.
ServerLeaves(k, f) ==
    IF seat[f.room].st = "live" /\ seat[f.room].on = k
    THEN /\ seat' = [seat EXCEPT ![f.room].st = "gone"]
         /\ Tell(k, Frame("LEAVE", f.room, 0, 0))
    ELSE UNCHANGED <<seat, down>>

ServerReceives(k) ==
    /\ link[k] = "open" /\ up[k] # <<>>
    /\ up' = [up EXCEPT ![k] = Tail(@)]
    /\ IF Head(up[k]).type = "JOIN"
       THEN ServerJoins(k, Head(up[k]))
       ELSE ServerLeaves(k, Head(up[k]))
    /\ UNCHANGED <<sock, link>>

\* The hooks of a join are over.
ServerAnswers(r) ==
    LET k == seat[r].on IN
    /\ seat[r].st = "joining"
    /\ \/ /\ seat' = [seat EXCEPT ![r].st = "live", ![r].tok = k]
          /\ Tell(k, Frame("JOIN_SUCCESS", r, 1, k))
       \/ /\ seat' = [seat EXCEPT ![r].st = "gone"]
          /\ Tell(k, Frame("JOIN_ERROR", r, 1, 0))
    /\ UNCHANGED <<sock, up, link>>

\* A state frame at a sync boundary.
ServerSyncs(r) ==
    LET k == seat[r].on IN
    /\ seat[r].st = "live" /\ Len(down[k]) < MaxFrames
    /\ Tell(k, Frame("STATE_SNAPSHOT", r, 0, 0)) /\ down' # down
    /\ UNCHANGED <<sock, up, link, seat>>

\* A kick, or the end of the room.
ServerKicks(r) ==
    LET k == seat[r].on IN
    /\ seat[r].st \in {"live", "held"}
    /\ seat' = [seat EXCEPT ![r].st = "gone"]
    /\ IF seat[r].st = "live" THEN Tell(k, Frame("LEAVE", r, 0, 0)) ELSE UNCHANGED down
    /\ UNCHANGED <<sock, up, link>>

\* The server sees that connection k closed, sooner or later than the client.
\* Frames it has not read are lost, seats are held.
ServerSees(k) ==
    /\ link[k] = "open"
    /\ link' = [link EXCEPT ![k] = "closed"]
    /\ up' = [up EXCEPT ![k] = <<>>]
    /\ seat' = [r \in Room |->
          IF seat[r].on # k THEN seat[r]
          ELSE CASE seat[r].st = "live" -> [seat[r] EXCEPT !.st = "held"]
                 [] seat[r].st = "joining" -> [seat[r] EXCEPT !.st = "gone"]
                 [] OTHER -> seat[r]]
    /\ UNCHANGED <<sock, down>>

\* The hold of a seat is over (also when the room does not allow it).
HoldExpires(r) ==
    /\ seat[r].st = "held"
    /\ seat' = [seat EXCEPT ![r].st = "gone"]
    /\ UNCHANGED <<sock, up, link, down>>

ServerInit ==
    /\ sock = [k \in Conn |-> "none"] /\ link = [k \in Conn |-> "none"]
    /\ up = [k \in Conn |-> <<>>] /\ down = [k \in Conn |-> <<>>]
    /\ seat = [r \in Room |-> [st |-> "none", on |-> 0, tok |-> 0]]

ServerNext ==
    \/ \E k \in Conn : ServerReceives(k) \/ ServerSees(k)
    \/ \E r \in Room : ServerAnswers(r) \/ ServerSyncs(r) \/ ServerKicks(r) \/ HoldExpires(r)

\* Whether a frame of type t for r is in the queue q.
Under(q, t, r) == \E i \in DOMAIN q : q[i].type = t /\ q[i].room = r
=============================================================================
