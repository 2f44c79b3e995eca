------------------------------- MODULE Gateway -------------------------------
\* The front door of a server: one WebSocket from its upgrade to its end, through
\* the transport (packages/transport/src/websocket.ts), the server's transport
\* events (packages/core/src/server.ts) and the limits of a connection
\* (packages/core/src/limits.ts).
\*
\* Time is counted in the unit in which every bucket's refill is a whole number.

EXTENDS Integers, Sequences, FiniteSets, FiniteSetsExt, Functions

CONSTANTS Rate,         \* Rate[b]: tokens bucket b gains in a unit of time, 0 for no limit
          Capacity,     \* Capacity[b]: what bucket b holds when full
          Size,         \* the sizes of frames, in bytes
          Authenticates,\* the server has an authenticate hook
          QueueLimit,   \* limits.disconnectBytes
          MaxNow,       \* bound on time
          MaxSent       \* bound on the frames of the client

VARIABLES now,
          sock,         \* the socket: new, open, closing (the server closed it), closed
          clients,      \* WebSocketTransport._clients holds the socket
          conn,         \* the server's Connection, or its fields after it was removed
          bucket,       \* the ConnectionLimiter's buckets: tokens and time of the last take
          wire,         \* frames on their way to the server
          waiting,      \* JOINs awaiting authenticate
          queued,       \* bytes Bun has queued for the client
          sentFrames,   \* frames the client sent
          admitted,     \* every frame that passed the limits: when, and its size
          joins,        \* every JOIN that passed its limit: when, and whether its body is an array
          routed,       \* JOINs that went on to _route
          answered      \* JOINs answered by _joinError: malformed, or of a refused connection

gatewayVars == <<now, sock, clients, conn, bucket, wire, waiting, queued, sentFrames,
                 admitted, joins, routed, answered>>

Bucket == {"frames", "bytes", "joins"}

\* A "badjoin" is a JOIN whose array is not one of parseJoin's, the body of a "rawjoin"
\* is no array; a "message" is any other frame that decodes, a PING included.
FrameKind == {"message", "join", "badjoin", "rawjoin", "malformed"}

GatewayInit ==
    /\ now = 0
    /\ sock = "new"
    /\ clients = FALSE
    /\ conn = [known |-> FALSE, open |-> FALSE, admitting |-> FALSE, refused |-> FALSE]
    /\ bucket = [b \in Bucket |-> [tokens |-> Capacity[b], last |-> 0]]
    /\ wire = <<>>
    /\ waiting = 0
    /\ queued = 0
    /\ sentFrames = 0
    /\ admitted = <<>>
    /\ joins = <<>>
    /\ routed = 0
    /\ answered = 0

----------------------------------------------------------------------------

\* Bucket.take: what the bucket holds by now.
Refill(b) == Min({Capacity[b], bucket[b].tokens + (now - bucket[b].last) * Rate[b]})

\* Bucket.take: whether the cost is covered, and the bucket afterwards.
Covers(b, cost) == Rate[b] = 0 \/ Refill(b) >= cost
Take(b, cost) ==
    IF Rate[b] = 0 THEN bucket[b]
    ELSE [tokens |-> Refill(b) - (IF Covers(b, cost) THEN cost ELSE 0), last |-> now]

\* negotiateProtocol: the version both ends speak.
Negotiated(offer) == offer = "v1"

\* _handleConnection: the Connection is kept, with full buckets (ConnectionLimiter).
HandleConnection ==
    /\ conn' = [conn EXCEPT !.known = TRUE, !.open = TRUE, !.admitting = Authenticates]
    /\ bucket' = [b \in Bucket |-> [tokens |-> Capacity[b], last |-> now]]

\* _upgrade and _opened.  A socket that offers another version is closed before the
\* server hears of it; behind a transport that does not negotiate the server
\* disconnects it before it keeps a Connection.
Connects ==
    \E offer \in {"v1", "other"} :
        /\ sock = "new"
        /\ sock' = IF Negotiated(offer) THEN "open" ELSE "closing"
        /\ clients' = Negotiated(offer)
        /\ IF Negotiated(offer) THEN HandleConnection ELSE UNCHANGED <<conn, bucket>>
        /\ UNCHANGED <<now, wire, waiting, queued, sentFrames, admitted, joins, routed, answered>>

\* The client sends a frame.
ClientSends ==
    \E kind \in FrameKind, size \in Size :
        /\ sock \in {"open", "closing"}
        /\ sentFrames < MaxSent
        /\ wire' = Append(wire, [kind |-> kind, size |-> size])
        /\ sentFrames' = sentFrames + 1
        /\ UNCHANGED <<now, sock, clients, conn, bucket, waiting, queued, admitted, joins,
                       routed, answered>>

\* WebSocketTransport.disconnect.
TransportDisconnect ==
    /\ clients' = FALSE
    /\ sock' = "closing"

\* _shed and _violation: the connection takes no more frames, and its socket is closed.
Dropped ==
    /\ conn' = [conn EXCEPT !.open = FALSE]
    /\ TransportDisconnect

\* host.sendFrame and _checkQueue, for n frames one after the other: the one that takes
\* the queue past the limit sheds the connection, and the rest is not sent.
Sheds(n) == conn.open /\ QueueLimit > 0 /\ queued + n > QueueLimit
Queue(n) == IF ~conn.open THEN queued ELSE IF Sheds(n) THEN QueueLimit + 1 ELSE queued + n

\* _handleFrame up to the decoding: both buckets are charged, whichever is short.
Charge(f) ==
    [bucket EXCEPT !["frames"] = Take("frames", 1), !["bytes"] = Take("bytes", f.size)]

\* _handleJoin of a JOIN within its limit, up to its first await, and past it when there
\* is nothing to wait for.  One that does not parse is answered at once; one whose body
\* is no array is a violation and gets no answer of its own.
Waits(f) == f.kind = "join" /\ conn.admitting
Refused(f) == f.kind = "badjoin" \/ (f.kind = "join" /\ ~conn.admitting /\ conn.refused)
HandleJoin(f) ==
    /\ joins' = Append(joins, [at |-> now, array |-> f.kind # "rawjoin"])
    /\ waiting' = IF Waits(f) THEN waiting + 1 ELSE waiting
    /\ answered' = IF Refused(f) THEN answered + 1 ELSE answered
    /\ routed' = IF f.kind = "join" /\ ~Waits(f) /\ ~Refused(f) THEN routed + 1 ELSE routed

\* _received and _handleFrame.  A JOIN over its limit is answered with RATE_LIMITED, a
\* PING with a PONG, and a violation with an ERROR before the socket is closed.
FrameArrives ==
    \E pong \in BOOLEAN :
        /\ sock \in {"open", "closing"}
        /\ wire # <<>>
        /\ wire' = Tail(wire)
        /\ LET f == Head(wire)
               over == ~Covers("frames", 1) \/ ~Covers("bytes", f.size)
               handled == conn.known /\ conn.open
               accepted == handled /\ ~over
               join == accepted /\ f.kind \in {"join", "badjoin", "rawjoin"}
               allowed == join /\ Covers("joins", 1)
               violation == \/ accepted /\ f.kind = "malformed"
                            \/ allowed /\ f.kind = "rawjoin"
               replies == \/ violation \/ (join /\ ~allowed) \/ (allowed /\ Refused(f))
                          \/ pong
               sent == IF replies THEN 1 ELSE 0
           IN /\ pong => accepted /\ f.kind = "message"
              /\ bucket' = IF ~handled THEN bucket
                           ELSE IF join THEN [Charge(f) EXCEPT !["joins"] = Take("joins", 1)]
                           ELSE Charge(f)
              /\ admitted' = IF accepted THEN Append(admitted, [at |-> now, size |-> f.size])
                             ELSE admitted
              /\ IF allowed THEN HandleJoin(f) ELSE UNCHANGED <<joins, waiting, routed, answered>>
              /\ queued' = Queue(sent)
              /\ IF (handled /\ over) \/ violation \/ (replies /\ Sheds(sent)) THEN Dropped
                 ELSE UNCHANGED <<conn, clients, sock>>
        /\ UNCHANGED <<now, sentFrames>>

\* _admit ends: authenticate admits the connection, refuses it or throws.  The JOINs that
\* awaited it go on in their order, closed connection or not; each of a refused connection
\* is sent its JOIN_ERROR.
Authenticated ==
    \E refused \in BOOLEAN :
        LET sheds == refused /\ waiting > 0 /\ Sheds(waiting)
        IN /\ conn.admitting
           /\ conn' = [conn EXCEPT !.admitting = FALSE, !.refused = refused, !.open = @ /\ ~sheds]
           /\ waiting' = 0
           /\ answered' = IF refused THEN answered + waiting ELSE answered
           /\ routed' = IF refused THEN routed ELSE routed + waiting
           /\ queued' = IF refused THEN Queue(waiting) ELSE queued
           /\ IF sheds THEN TransportDisconnect ELSE UNCHANGED <<clients, sock>>
           /\ UNCHANGED <<now, bucket, wire, sentFrames, admitted, joins>>

\* host.sendFrame, for a room.
SendFrame ==
    /\ conn.open
    /\ queued' = Queue(1)
    /\ IF Sheds(1) THEN Dropped ELSE UNCHANGED <<conn, clients, sock>>
    /\ UNCHANGED <<now, bucket, wire, waiting, sentFrames, admitted, joins, routed, answered>>

\* The client reads.
Drains ==
    /\ queued > 0
    /\ queued' = queued - 1
    /\ UNCHANGED <<now, sock, clients, conn, bucket, wire, waiting, sentFrames, admitted, joins,
                   routed, answered>>

\* The close event is not passed on for a socket the server disconnected.
Closed_OnlyMapped ==
    /\ sock \in {"open", "closing"}
    /\ sock' = "closed"
    /\ clients' = FALSE
    /\ wire' = <<>>
    /\ queued' = 0
    /\ conn' = IF clients THEN [conn EXCEPT !.known = FALSE, !.open = FALSE] ELSE conn
    /\ UNCHANGED <<now, bucket, waiting, sentFrames, admitted, joins, routed, answered>>

\* _handleDisconnect, as far as the connection is concerned.
HandleDisconnect == conn' = [conn EXCEPT !.known = FALSE, !.open = FALSE]

\* _closed: either end closed the socket, or the link broke.
Closed ==
    /\ sock \in {"open", "closing"}
    /\ sock' = "closed"
    /\ clients' = FALSE
    /\ wire' = <<>>
    /\ queued' = 0
    /\ HandleDisconnect
    /\ UNCHANGED <<now, bucket, waiting, sentFrames, admitted, joins, routed, answered>>

\* WebSocketTransport.close, when the server stops.
TransportCloses ==
    /\ clients
    /\ sock = "open"
    /\ sock' = "closing"
    /\ UNCHANGED <<now, clients, conn, bucket, wire, waiting, queued, sentFrames, admitted, joins,
                   routed, answered>>

ClockTicks ==
    /\ now < MaxNow
    /\ now' = now + 1
    /\ UNCHANGED <<sock, clients, conn, bucket, wire, waiting, queued, sentFrames, admitted, joins,
                   routed, answered>>

GatewayNext ==
    \/ Connects
    \/ ClientSends
    \/ FrameArrives
    \/ Authenticated
    \/ SendFrame
    \/ Drains
    \/ Closed
    \/ TransportCloses
    \/ ClockTicks

----------------------------------------------------------------------------

\* Over every stretch of time a connection gets through at most a full bucket and
\* what the bucket gains meanwhile: frames, bytes and joins.
RatesBounded ==
    /\ \A i, j \in DOMAIN admitted :
        LET span == admitted[j].at - admitted[i].at
        IN i <= j =>
            /\ Rate["frames"] > 0 => j - i + 1 <= Capacity["frames"] + Rate["frames"] * span
            /\ Rate["bytes"] > 0 => SumFunctionOnSet([k \in DOMAIN admitted |-> admitted[k].size], i..j)
                                        <= Capacity["bytes"] + Rate["bytes"] * span
    /\ \A i, j \in DOMAIN joins :
        (i <= j /\ Rate["joins"] > 0) =>
            j - i + 1 <= Capacity["joins"] + Rate["joins"] * (joins[j].at - joins[i].at)

\* The server knows a connection as long as its socket lives and no longer, also
\* when the server closed it first; and one it may send to is known.
ConnectionsMatchSockets ==
    /\ conn.known => sock \in {"open", "closing"}
    /\ conn.open => conn.known
    /\ clients => conn.known
    /\ (sock = "open") => conn.known

\* No JOIN is forgotten or served twice across authenticate: those that passed the
\* limit are routed, answered or waiting, and none is routed for a connection that
\* authenticate refused or has yet to admit.  The exception is one whose body is no
\* array (server.ts:1214): it ends its connection, and no JOIN is taken after it.
JoinsAdmittedOnce ==
    /\ Len(SelectSeq(joins, LAMBDA j : j.array)) = routed + answered + waiting
    /\ \A i \in DOMAIN joins : ~joins[i].array => i = Len(joins) /\ ~conn.open
    /\ (conn.refused \/ conn.admitting) => routed = 0

\* What the front door owes the server.
GatewaySound ==
    /\ RatesBounded
    /\ ConnectionsMatchSockets
    /\ JoinsAdmittedOnce
==============================================================================
