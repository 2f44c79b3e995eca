---------------------------- MODULE ClusterJoin ----------------------------
(***************************************************************************)
(* A seat whose room is on another process.  The edge holds the socket: it *)
(* forwards the JOIN to the owner of the room, routes the frames of the    *)
(* client to it and relays the frames of the owner to the socket.  The     *)
(* owner stands in for the socket with a RemoteConnection, one for each    *)
(* connection of the edge, and seats a client in the room as if the socket *)
(* were its own.                                                           *)
(*                                                                         *)
(* Processes publish on each other's channel; messages from one process to *)
(* another arrive in the order they were published.  A process drops a     *)
(* peer that is silent for too long, dead or only slow, and finds it again *)
(* with its next message.                                                  *)
(*                                                                         *)
(* A join j tries an owner o at most once, so <<j, o>> stands for the      *)
(* request id on the backplane, for the roomRef that the edge allocates    *)
(* and for the seat at the owner.  A RemoteConnection is named after the   *)
(* join that made it.                                                      *)
(***************************************************************************)
EXTENDS Naturals, Sequences, FiniteSets, SequencesExt

CONSTANTS
    Edge,            \* the process with the sockets
    Owner,           \* the processes with the rooms
    Conn,            \* connections of clients at the edge
    Join,            \* the JOIN requests of the clients
    ConnOf,          \* [Join -> Conn]
    Creates,         \* joins that create a room (the edge is draining)
    Late,            \* joins whose connection may close before they are forwarded
    MayTimeOut,      \* joins whose owner may be slower than requestTimeout
    MaxFaults,       \* crashes, and peers dropped although they are alive
    Start,           \* the clusters to begin with: processes and open connections
    None

Proc == Owner \cup {Edge}
Ref == Join \X Owner

ASSUME ClusterJoinAssumption ==
    /\ Edge \notin Owner /\ None \notin Join \cup Owner
    /\ ConnOf \in [Join -> Conn] /\ IsFiniteSet(Join)
    /\ Creates \subseteq Join /\ Late \subseteq Join /\ MayTimeOut \subseteq Join
    /\ MaxFaults \in Nat
    /\ \A s \in Start : Edge \in s.procs /\ s.procs \subseteq Proc /\ s.conns \subseteq Conn

VARIABLES
    alive,      \* processes that run
    peers,      \* [Proc -> the processes its registry lists]
    cut,        \* pairs <<p, q>>: p dropped q although q was alive
    faults,     \* faults so far
    \* The edge.
    open,       \* connections that are open
    owners,     \* [Conn -> Connection._remoteOwners]
    route,      \* Connection._remoteSeats: the refs that lead to a seat
    req,        \* [Join -> the forwarded join: state, owner asked, owners tried]
    \* The owners.
    current,    \* [Owner -> [Conn -> the RemoteConnection listed, or None]]
    object,     \* [Ref -> the RemoteConnection that the seat is bound to]
    shut,       \* [Owner -> RemoteConnections with _open = false]
    seat,       \* [Ref -> the seat at the owner]
    \* Messages on the backplane.
    toOwner,    \* [Owner -> messages of the edge]
    toEdge,     \* [Owner -> messages to the edge]
    \* The clients.
    client,     \* [Join -> what the client made of its join]
    using,      \* [Join -> the owner in the roomRef the client uses, or None]
    leaving     \* refs whose LEAVE is on its way to the edge

procVars == <<alive, peers, cut, faults>>
edgeVars == <<open, owners, route, req>>
ownerVars == <<current, object, shut, seat>>
clientVars == <<client, using, leaving>>
vars == <<procVars, edgeVars, ownerVars, toOwner, toEdge, clientVars>>

Msg == [t : {"join?", "leave", "conn", "join!", "refused", "failed",
             "JOIN_SUCCESS", "LEAVE"}, id : Join \cup Conn]

\* One type invariant: the tables of both sides and the messages.
TypeOK ==
    /\ alive \subseteq Proc /\ peers \in [Proc -> SUBSET Proc]
    /\ cut \subseteq Proc \X Proc /\ faults \in 0 .. MaxFaults
    /\ open \subseteq Conn /\ owners \in [Conn -> SUBSET Owner] /\ route \subseteq Ref
    /\ req \in [Join -> [st : {"none", "locating", "waiting", "ok", "err"},
                         at : Owner \cup {None}, tried : SUBSET Owner]]
    /\ current \in [Owner -> [Conn -> Join \cup {None}]]
    /\ object \in [Ref -> Join \cup {None}] /\ shut \in [Owner -> SUBSET Join]
    /\ seat \in [Ref -> {"none", "auth", "joining", "joined", "gone"}]
    /\ toOwner \in [Owner -> Seq(Msg)] /\ toEdge \in [Owner -> Seq(Msg)]
    /\ client \in [Join -> {"none", "asked", "joined", "failed", "left"}]
    /\ using \in [Join -> Owner \cup {None}] /\ leaving \subseteq Ref

Message(t, id) == [t |-> t, id |-> id]
JoinsOf(c) == {j \in Join : ConnOf[j] = c}

----------------------------------------------------------------------------
(* The client, as its SDK behaves. *)

\* A refused join is put in a state of its own.
ClientFails_Refused(j) == [client EXCEPT ![j] = IF @ = "asked" THEN "refused" ELSE @]

\* A JOIN_ERROR for j: the client's join is over.
ClientFails(j) == [client EXCEPT ![j] = IF @ = "asked" THEN "failed" ELSE @]

\* A LEAVE for the refs of R.
ClientsLeft(R) ==
    [j \in Join |-> IF client[j] = "joined" /\ <<j, using[j]>> \in R THEN "left"
                    ELSE client[j]]

\* A JOIN_SUCCESS with ref <<j, o>>.  One for a join that is over is answered
\* with a LEAVE.
ClientSeated(j, o) ==
    IF client[j] = "asked"
    THEN /\ client' = [client EXCEPT ![j] = "joined"]
         /\ using' = [using EXCEPT ![j] = o]
         /\ UNCHANGED leaving
    ELSE /\ leaving' = leaving \cup {<<j, o>>}
         /\ UNCHANGED <<client, using>>

----------------------------------------------------------------------------
(* The edge. *)

\* _forwardJoin, up to the await: a roomRef, the owner noted, the request sent.
Forward(j, o) ==
    /\ req' = [req EXCEPT ![j] = [st |-> "waiting", at |-> o, tried |-> @.tried \cup {o}]]
    /\ owners' = [owners EXCEPT ![ConnOf[j]] = @ \cup {o}]
    /\ toOwner' = [toOwner EXCEPT ![o] = Append(@, Message("join?", j))]

\* The processes that may still be asked to create the room of j.
Candidates(j, P) == IF j \in Creates THEN P \ req[j].tried ELSE {}

\* The forwarded join failed: _createElsewhere goes on to the next process of P,
\* any other join is answered with a JOIN_ERROR.
GiveUp(j, P) ==
    IF Candidates(j, P) # {}
    THEN /\ \E o \in Candidates(j, P) : Forward(j, o)
         /\ UNCHANGED clientVars
    ELSE /\ req' = [req EXCEPT ![j].st = "err", ![j].at = None]
         /\ client' = IF ConnOf[j] \in open THEN ClientFails(j) ELSE client
         /\ UNCHANGED <<owners, toOwner, using, leaving>>

\* The client's JOIN: the edge looks for the room in the cluster.
Ask(j) ==
    /\ Edge \in alive /\ ConnOf[j] \in open /\ client[j] = "none"
    /\ client' = [client EXCEPT ![j] = "asked"]
    /\ req' = [req EXCEPT ![j].st = "locating"]
    /\ UNCHANGED <<procVars, open, owners, route, ownerVars, toOwner, toEdge, using, leaving>>

\* The room was found at o, or not at all.  The connection may have closed.
Locate(j) ==
    /\ Edge \in alive /\ req[j].st = "locating"
    /\ \/ /\ ConnOf[j] \in open \/ j \in Late
          /\ \E o \in peers[Edge] \cap Owner : Forward(j, o)
          /\ UNCHANGED clientVars
       \/ GiveUp(j, {})
    /\ UNCHANGED <<procVars, open, route, ownerVars, toEdge>>

\* requestTimeout.
TimeOut(j) ==
    /\ Edge \in alive /\ req[j].st = "waiting" /\ j \in MayTimeOut
    /\ GiveUp(j, peers[Edge] \cap Owner)
    /\ UNCHANGED <<procVars, open, route, ownerVars, toEdge>>

\* A "join!" from o: the rest of forwardJoin and _forwardJoin.  The reply to a
\* request that is over is dropped.
EdgeSeated(j, o) ==
    IF req[j].st = "waiting" /\ req[j].at = o
    THEN /\ req' = [req EXCEPT ![j].st = "ok"]
         /\ IF ConnOf[j] \in open
            THEN route' = route \cup {<<j, o>>} /\ UNCHANGED toOwner
            ELSE /\ toOwner' = [toOwner EXCEPT ![o] = Append(@, Message("conn", ConnOf[j]))]
                 /\ UNCHANGED route
    ELSE UNCHANGED <<req, route, toOwner>>

\* The owner refused (another process may not) or the join failed.
EdgeRefused(j, o, P) ==
    IF req[j].st = "waiting" /\ req[j].at = o THEN GiveUp(j, P)
    ELSE UNCHANGED <<req, owners, toOwner, clientVars>>

\* _relayFrames: to the socket, if it is still there.  A LEAVE ends the route.
Relay(t, j, o) ==
    IF ConnOf[j] \notin open THEN UNCHANGED <<route, clientVars>>
    ELSE IF t = "LEAVE"
    THEN /\ route' = route \ {<<j, o>>}
         /\ client' = ClientsLeft({<<j, o>>})
         /\ UNCHANGED <<using, leaving>>
    ELSE ClientSeated(j, o) /\ UNCHANGED route

\* A message of o arrives: whatever it is, o is alive.
EdgeReceives(o) ==
    /\ Edge \in alive /\ toEdge[o] # <<>>
    /\ toEdge' = [toEdge EXCEPT ![o] = Tail(@)]
    /\ peers' = [peers EXCEPT ![Edge] = @ \cup {o}]
    /\ LET t == Head(toEdge[o]).t
           j == Head(toEdge[o]).id
       IN \/ /\ t = "join!" /\ EdgeSeated(j, o)
             /\ UNCHANGED <<owners, clientVars>>
          \/ /\ t = "refused" /\ EdgeRefused(j, o, peers'[Edge] \cap Owner)
             /\ UNCHANGED route
          \/ /\ t = "failed" /\ EdgeRefused(j, o, {})
             /\ UNCHANGED route
          \/ /\ t \in {"JOIN_SUCCESS", "LEAVE"} /\ Relay(t, j, o)
             /\ UNCHANGED <<owners, req, toOwner>>
    /\ UNCHANGED <<alive, cut, faults, open, ownerVars>>

\* A LEAVE of the client: routed to the owner, or dropped.
EdgeLeaves(j, o) ==
    /\ Edge \in alive /\ <<j, o>> \in leaving
    /\ leaving' = leaving \ {<<j, o>>}
    /\ toOwner' = IF <<j, o>> \in route
                  THEN [toOwner EXCEPT ![o] = Append(@, Message("leave", j))] ELSE toOwner
    /\ UNCHANGED <<procVars, edgeVars, ownerVars, toEdge, client, using>>

\* The client leaves its room.
ClientLeaves(j) ==
    /\ client[j] = "joined" /\ ConnOf[j] \in open
    /\ client' = [client EXCEPT ![j] = "left"]
    /\ leaving' = leaving \cup {<<j, using[j]>>}
    /\ UNCHANGED <<procVars, edgeVars, ownerVars, toOwner, toEdge, using>>

\* The clients of the connections of C are gone.
ClientsGone(C) ==
    /\ client' = [j \in Join |-> IF ConnOf[j] \in C THEN "left" ELSE client[j]]
    /\ leaving' = {x \in leaving : ConnOf[x[1]] \notin C}
    /\ UNCHANGED using

\* Only the owners of seats the connection has are told, not those still asked.
ConnCloses_SeatsOnly(c) ==
    /\ Edge \in alive /\ c \in open
    /\ open' = open \ {c}
    /\ route' = {x \in route : ConnOf[x[1]] # c}
    /\ toOwner' = [o \in Owner |-> IF \E x \in route : x[2] = o /\ ConnOf[x[1]] = c
                                   THEN Append(toOwner[o], Message("conn", c)) ELSE toOwner[o]]
    /\ owners' = [owners EXCEPT ![c] = {}]
    /\ ClientsGone({c})
    /\ UNCHANGED <<procVars, req, ownerVars, toEdge>>

\* _handleDisconnect: the routes go, and every owner that was ever asked hears it.
ConnCloses(c) ==
    /\ Edge \in alive /\ c \in open
    /\ open' = open \ {c}
    /\ route' = {x \in route : ConnOf[x[1]] # c}
    /\ toOwner' = [o \in Owner |-> IF o \in owners[c] THEN Append(toOwner[o], Message("conn", c))
                                   ELSE toOwner[o]]
    /\ owners' = [owners EXCEPT ![c] = {}]
    /\ ClientsGone({c})
    /\ UNCHANGED <<procVars, req, ownerVars, toEdge>>

----------------------------------------------------------------------------
(* An owner. *)

Publish(o, ms) == toEdge' = [toEdge EXCEPT ![o] = @ \o ms]

\* A frame for a seat: only while its RemoteConnection is open.
Frame(j, o, t) == IF object[<<j, o>>] \in shut[o] THEN <<>> ELSE <<Message(t, j)>>

\* The seats on RemoteConnection x of o.
SeatsOn(x, o, s) == {j \in Join : object[<<j, o>>] = x /\ s[<<j, o>>] \in {"joining", "joined"}}

\* _pruneRemoteConnection, after a join on x came to nothing.
Prune(o, c, x, s) ==
    IF SeatsOn(x, o, s) = {} THEN [current EXCEPT ![o][c] = None] ELSE current

\* _closeRemoteConnection of the connections of C: their seats lose their
\* connection.  A join whose hooks still run finds out when they return.
CloseRemote(o, C) ==
    LET X == {current[o][c] : c \in C} \ {None} IN
    /\ current' = [current EXCEPT ![o] = [c \in Conn |-> IF c \in C THEN None ELSE @[c]]]
    /\ shut' = [shut EXCEPT ![o] = @ \cup X]
    /\ seat' = [x \in Ref |-> IF x[2] = o /\ object[x] \in X /\ seat[x] = "joined"
                              THEN "gone" ELSE seat[x]]
    /\ UNCHANGED object

\* _remoteConnection: the one the owner lists for the connection, or a new one.
RemoteConnection(o, c, j) == IF current[o][c] = None THEN j ELSE current[o][c]

\* _clusterLeave: a seat that is not joined is left alone.
ClusterLeave(o, j) ==
    IF seat[<<j, o>>] = "joined"
    THEN /\ seat' = [seat EXCEPT ![<<j, o>>] = "gone"]
         /\ Publish(o, Frame(j, o, "LEAVE"))
         /\ UNCHANGED <<current, object, shut>>
    ELSE UNCHANGED <<ownerVars, toEdge>>

\* _clusterJoin, up to the first await.  The seat of an existing room is taken
\* at once; a room that is to be created runs its static onAuth first.
OwnerJoins(o, j) ==
    LET c == ConnOf[j]
        x == RemoteConnection(o, c, j)
        s == [seat EXCEPT ![<<j, o>>] = IF j \in Creates THEN "auth" ELSE "joining"]
    IN \/ /\ seat' = s
          /\ object' = [object EXCEPT ![<<j, o>>] = x]
          /\ current' = [current EXCEPT ![o][c] = x]
          /\ UNCHANGED <<shut, toEdge>>
       \/ /\ \E t \in {"refused", "failed"} : Publish(o, <<Message(t, j)>>)
          /\ current' = Prune(o, c, x, seat)
          /\ UNCHANGED <<seat, object, shut>>

\* A message of the edge arrives.
OwnerReceives(o) ==
    /\ o \in alive /\ toOwner[o] # <<>>
    /\ toOwner' = [toOwner EXCEPT ![o] = Tail(@)]
    /\ peers' = [peers EXCEPT ![o] = @ \cup {Edge}]
    /\ LET t == Head(toOwner[o]).t
           i == Head(toOwner[o]).id
       IN \/ t = "join?" /\ OwnerJoins(o, i)
          \/ t = "conn" /\ CloseRemote(o, {i}) /\ UNCHANGED toEdge
          \/ t = "leave" /\ ClusterLeave(o, i)
    /\ UNCHANGED <<alive, cut, faults, edgeVars, clientVars>>

\* The join comes to nothing: an onAuth that refuses, a hook that throws, a
\* connection that closed meanwhile.
OwnerRefuses(j, o) ==
    LET s == [seat EXCEPT ![<<j, o>>] = "none"] IN
    /\ o \in alive /\ seat[<<j, o>>] \in {"auth", "joining"}
    /\ seat' = s
    /\ current' = Prune(o, ConnOf[j], object[<<j, o>>], s)
    /\ Publish(o, <<Message("failed", j)>>)
    /\ UNCHANGED <<procVars, edgeVars, object, shut, toOwner, clientVars>>

\* The static onAuth of a room to create allowed it: the room and the seat.
OwnerCreates(j, o) ==
    /\ o \in alive /\ seat[<<j, o>>] = "auth"
    /\ seat' = [seat EXCEPT ![<<j, o>>] = "joining"]
    /\ UNCHANGED <<procVars, edgeVars, current, object, shut, toOwner, toEdge, clientVars>>

\* The frame goes out before the reply.
OwnerSeats_FrameFirst(j, o) ==
    /\ o \in alive /\ seat[<<j, o>>] = "joining"
    /\ Publish(o, Frame(j, o, "JOIN_SUCCESS") \o <<Message("join!", j)>>)
    /\ seat' = [seat EXCEPT ![<<j, o>>] =
                   IF object[<<j, o>>] \in shut[o] THEN "gone" ELSE "joined"]
    /\ UNCHANGED <<procVars, edgeVars, current, object, shut, toOwner, clientVars>>

\* The hooks are over: the reply, then _completeJoin with its JOIN_SUCCESS.
OwnerSeats(j, o) ==
    /\ o \in alive /\ seat[<<j, o>>] = "joining"
    /\ Publish(o, <<Message("join!", j)>> \o Frame(j, o, "JOIN_SUCCESS"))
    /\ seat' = [seat EXCEPT ![<<j, o>>] =
                   IF object[<<j, o>>] \in shut[o] THEN "gone" ELSE "joined"]
    /\ UNCHANGED <<procVars, edgeVars, current, object, shut, toOwner, clientVars>>

\* A kick, or the end of the room.
OwnerKicks(j, o) ==
    /\ o \in alive /\ seat[<<j, o>>] = "joined"
    /\ seat' = [seat EXCEPT ![<<j, o>>] = "gone"]
    /\ Publish(o, Frame(j, o, "LEAVE"))
    /\ UNCHANGED <<procVars, edgeVars, current, object, shut, toOwner, clientVars>>

----------------------------------------------------------------------------
(* Processes that crash, and peers that are dropped. *)

\* p drops q, which is dead and whose last message has arrived, or which is
\* silent for longer than peerTimeout.
Drops(p, q) ==
    /\ p \in alive /\ q \in peers[p]
    /\ IF q \in alive THEN faults < MaxFaults
       ELSE IF p = Edge THEN toEdge[q] = <<>> ELSE toOwner[p] = <<>>
    /\ peers' = [peers EXCEPT ![p] = @ \ {q}]
    /\ faults' = IF q \in alive THEN faults + 1 ELSE faults
    /\ cut' = IF q \in alive THEN cut \cup {<<p, q>>} ELSE cut
    /\ UNCHANGED alive

\* The edge drops o: requests to it fail, its rooms are unreachable and the
\* clients hear a LEAVE (_peerLost, _ownerProcessLost).  The creating joins go on
\* to other processes, in the order in which their requests are rejected.
EdgeDrops(o) ==
    LET R == {x \in route : x[2] = o}
        W == {j \in Join : req[j].st = "waiting" /\ req[j].at = o}
        told == ClientsLeft(R)
        again(j) == Candidates(j, (peers[Edge] \ {o}) \cap Owner)
    IN /\ Drops(Edge, o)
       /\ route' = route \ R
       /\ \E next \in [W -> Owner \cup {None}], order \in [Owner -> SetToAllKPermutations(W)] :
             /\ \A j \in W : IF again(j) = {} THEN next[j] = None ELSE next[j] \in again(j)
             /\ \A p \in Owner : ToSet(order[p]) = {j \in W : next[j] = p}
             /\ req' = [j \in Join |-> IF j \notin W THEN req[j]
                   ELSE IF next[j] = None THEN [req[j] EXCEPT !.st = "err", !.at = None]
                   ELSE [req[j] EXCEPT !.at = next[j], !.tried = @ \cup {next[j]}]]
             /\ owners' = [c \in Conn |->
                   owners[c] \cup ({next[j] : j \in W \cap JoinsOf(c)} \ {None})]
             /\ toOwner' = [p \in Owner |-> toOwner[p] \o
                   [k \in DOMAIN order[p] |-> Message("join?", order[p][k])]]
             /\ client' = [j \in Join |->
                   IF j \in W /\ next[j] = None /\ ConnOf[j] \in open /\ told[j] = "asked"
                   THEN "failed" ELSE told[j]]
       /\ UNCHANGED <<open, ownerVars, toEdge, using, leaving>>

\* An owner drops the edge: it takes the edge's sockets for closed.
OwnerDrops(o) ==
    /\ Drops(o, Edge)
    /\ CloseRemote(o, Conn)
    /\ UNCHANGED <<edgeVars, toOwner, toEdge, clientVars>>

\* An owner crashes, with its rooms.
OwnerCrashes(o) ==
    /\ o \in alive /\ faults < MaxFaults
    /\ alive' = alive \ {o} /\ faults' = faults + 1
    /\ seat' = [x \in Ref |-> IF x[2] = o THEN "none" ELSE seat[x]]
    /\ toOwner' = [toOwner EXCEPT ![o] = <<>>]
    /\ UNCHANGED <<peers, cut, edgeVars, current, object, shut, toEdge, clientVars>>

\* The edge crashes, with its sockets.
EdgeCrashes ==
    /\ Edge \in alive /\ faults < MaxFaults
    /\ alive' = alive \ {Edge} /\ faults' = faults + 1
    /\ open' = {} /\ route' = {}
    /\ toEdge' = [o \in Owner |-> <<>>]
    /\ ClientsGone(Conn)
    /\ UNCHANGED <<peers, cut, owners, req, ownerVars, toOwner>>

----------------------------------------------------------------------------
Init ==
    /\ \E s \in Start :
          /\ alive = s.procs /\ open = s.conns
          /\ peers = [p \in Proc |-> IF p = Edge THEN s.procs \ {Edge} ELSE {Edge}]
    /\ cut = {} /\ faults = 0
    /\ owners = [c \in Conn |-> {}] /\ route = {}
    /\ req = [j \in Join |-> [st |-> "none", at |-> None, tried |-> {}]]
    /\ current = [o \in Owner |-> [c \in Conn |-> None]]
    /\ object = [x \in Ref |-> None] /\ shut = [o \in Owner |-> {}]
    /\ seat = [x \in Ref |-> "none"]
    /\ toOwner = [o \in Owner |-> <<>>] /\ toEdge = [o \in Owner |-> <<>>]
    /\ client = [j \in Join |-> "none"] /\ using = [j \in Join |-> None] /\ leaving = {}

Next ==
    \/ EdgeCrashes
    \/ \E c \in Conn : ConnCloses(c)
    \/ \E j \in Join : Ask(j) \/ Locate(j) \/ TimeOut(j) \/ ClientLeaves(j)
    \/ \E o \in Owner : EdgeReceives(o) \/ OwnerReceives(o) \/ EdgeDrops(o)
                        \/ OwnerDrops(o) \/ OwnerCrashes(o)
    \/ \E j \in Join, o \in Owner :
          EdgeLeaves(j, o) \/ OwnerRefuses(j, o) \/ OwnerCreates(j, o)
          \/ OwnerSeats(j, o) \/ OwnerKicks(j, o)

Spec == Init /\ [][Next]_vars

\* Messages arrive, hooks return, the request timer fires, and the sweep drops a
\* peer that is dead.
FairSpec ==
    /\ Spec
    /\ \A j \in Join : WF_vars(Locate(j)) /\ WF_vars(TimeOut(j))
    /\ \A o \in Owner :
          /\ WF_vars(EdgeReceives(o)) /\ WF_vars(OwnerReceives(o))
          /\ WF_vars(o \notin alive /\ EdgeDrops(o))
          /\ WF_vars(Edge \notin alive /\ OwnerDrops(o))
    /\ \A j \in Join, o \in Owner :
          WF_vars(OwnerRefuses(j, o) \/ OwnerCreates(j, o) \/ OwnerSeats(j, o))
----------------------------------------------------------------------------
(* Properties. *)

Sends(q, t, i) == \E k \in DOMAIN q : q[k] = Message(t, i)

\* The join of <<j, o>> is one the edge still has: it did not give it up, and
\* neither process took the other for dead.
Kept(j, o) == req[j].at = o /\ <<Edge, o>> \notin cut /\ <<o, Edge>> \notin cut

\* A client that is in a room is routed to it: the edge has the mapping before
\* the first frame arrives (`_clusterJoin`, `forwardJoin`), as long as it does
\* not take the owner for dead.
ClientRouted ==
    \A j \in Join :
        client[j] = "joined" /\ <<Edge, using[j]>> \notin cut => <<j, using[j]>> \in route

\* A seat that the owner fills is one the edge knows of, or will hear of, or whose
\* end is on its way; unless the edge gave it up.
SeatRouted ==
    \A j \in Join, o \in alive \cap Owner :
        seat[<<j, o>>] = "joined" /\ Edge \in alive /\ Kept(j, o)
            => \/ <<j, o>> \in route
               \/ Sends(toEdge[o], "join!", j)
               \/ Sends(toOwner[o], "conn", ConnOf[j])

\* A route leads to a seat, unless its end is on its way, the owner died, or it
\* took the edge for dead.
RouteLeads ==
    \A x \in route :
        x[2] \in alive /\ <<x[2], Edge>> \notin cut
            => seat[x] = "joined" \/ Sends(toEdge[x[2]], "LEAVE", x[1])

\* A join that tries several processes ends in one of them at most.
OneRoute == \A x, y \in route : x[1] = y[1] => x = y

\* The RemoteConnection of every seat is the one the owner lists for that
\* connection, so the owner will find the seat when the connection closes; as
\* long as it does not take the edge for dead.
SeatReachable ==
    \A j \in Join, o \in alive \cap Owner :
        seat[<<j, o>>] = "joined" /\ <<o, Edge>> \notin cut
            => current[o][ConnOf[j]] = object[<<j, o>>]

\* The edge and the owners agree on the seats.
RoutesAndSeats == ClientRouted /\ SeatRouted /\ RouteLeads /\ OneRoute /\ SeatReachable

\* Every forwarded join is answered: by the owner, by requestTimeout, or because
\* the owner is gone; unless the owner took the edge for dead while it answered.
JoinAnswered ==
    \A j \in Join :
        client[j] = "asked" ~> client[j] # "asked" \/ <<req[j].at, Edge>> \in cut

\* A join that was forwarded after its connection closed, and then given up: the
\* owner is told nothing.
Stray(j, o) == o \in owners[ConnOf[j]] /\ req[j].at # o

\* When a connection closes, or the edge dies, no owner keeps a seat for it: also
\* the seats it was still giving when the connection closed.
ClosedSeatsEnd ==
    \A j \in Join, o \in Owner :
        ConnOf[j] \notin open
            ~> seat[<<j, o>>] \in {"none", "gone"} \/ <<o, Edge>> \in cut \/ Stray(j, o)

\* Nothing is left waiting, and nothing is left behind.
Settles == JoinAnswered /\ ClosedSeatsEnd
=============================================================================
