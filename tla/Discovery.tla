------------------------------- MODULE Discovery -------------------------------
\* Requests and broadcasts over the backplane (packages/core/src/cluster/requests.ts,
\* node.ts) and the registry that says whom a broadcast waits for
\* (packages/core/src/cluster/registry.ts).
\*
\* One process starts into a running cluster and asks: one peer (_call), the first
\* that has a room (locate, findAvailable), or every peer (processes, query).
\* Channels deliver in order, as one Redis connection does.

EXTENDS Integers, Sequences, FiniteSets

CONSTANTS Peer,         \* the other processes
          Newcomer,     \* peers that start after the asking process
          MaxAsks,      \* bound on requests
          MaxLosses     \* bound on peers that die, leave or are dropped although alive

VARIABLES asker,        \* the asking process: off, started, settled (an interval old), stopped
          alive,        \* peers that run
          holds,        \* peers that have the room in question
          known,        \* PeerRegistry._peers
          outbox,       \* outbox[p]: messages of the asking process on their way to p
          inbox,        \* inbox[p]: messages of p on their way to the asking process
          req,          \* the request in flight or the last one
          had,          \* peers that have had the room since it was asked
          ran,          \* peers that ran when it was asked
          dropped,      \* peers dropped from the registry since then, or before and not seen since
          losses

discoveryVars == <<asker, alive, holds, known, outbox, inbox, req, had, ran, dropped, losses>>

Settled == "settled"
Elder == Peer \ Newcomer

NoRequest == [rid |-> 0, kind |-> "none", peer |-> "none", waiting |-> {}, listed |-> FALSE,
              got |-> {}, state |-> "ended", reason |-> "none"]

DiscoveryInit ==
    /\ asker = "off"
    /\ alive = Elder
    /\ holds \in SUBSET Elder
    /\ known = {}
    /\ outbox = [p \in Peer |-> <<>>]
    /\ inbox = [p \in Peer |-> <<>>]
    /\ req = NoRequest
    /\ had = {}
    /\ ran = {}
    /\ dropped = {}
    /\ losses = 0

----------------------------------------------------------------------------
(* PendingRequests. *)

\* _close, and the promise resolves.
End(r, reason) == [r EXCEPT !.state = "ended", !.reason = reason]

\* _answered: the broadcast ends once nobody is left to wait for.
Answered(r, p) ==
    IF ~r.listed \/ p \notin r.waiting THEN r
    ELSE LET w == [r EXCEPT !.waiting = @ \ {p}]
         IN IF w.waiting = {} THEN End(w, "complete") ELSE w

\* deliver and miss: an answer to a request that ended is ignored.
Deliver(r, p, m) ==
    IF r.state # "open" \/ m.rid # r.rid THEN r
    ELSE IF m.t = "miss" THEN Answered(r, p)
    ELSE LET g == [r EXCEPT !.got = @ \cup {p}]
         IN IF r.kind = "gather" THEN Answered(g, p) ELSE End(g, "answer")

\* failPeer.
FailPeer(r, p) ==
    IF r.state # "open" THEN r
    ELSE IF r.kind = "call" THEN (IF r.peer = p THEN End(r, "peer-lost") ELSE r)
    ELSE Answered(r, p)

\* _expected without its first clause.
Expected_Known == [listed |-> TRUE, peers |-> known]

\* _expected: whom a broadcast waits for, if the process has run an interval.
Expected == [listed |-> asker = Settled, peers |-> IF asker = Settled THEN known ELSE {}]

\* registry.seen.
Seen(p) == known' = known \cup {p}

\* registry.gone, with _peerLost.
Gone(p) ==
    /\ known' = known \ {p}
    /\ dropped' = dropped \cup {p}
    /\ req' = IF p \in known THEN FailPeer(req, p) ELSE req

----------------------------------------------------------------------------

\* ClusterNode.start: says hello.
Starts ==
    /\ asker = "off"
    /\ asker' = "started"
    /\ outbox' = [p \in Peer |-> IF p \in alive THEN Append(outbox[p], [t |-> "hello", rid |-> 0])
                                 ELSE outbox[p]]
    /\ UNCHANGED <<alive, holds, known, inbox, req, had, ran, dropped, losses>>

\* A heartbeat interval has passed since the start.  Every peer that ran at the
\* start and still does has answered the hello by then: the timing the code counts
\* on (node.ts, _expected).
IntervalPasses ==
    /\ asker = "started"
    /\ alive \cap Elder \subseteq known
    /\ asker' = Settled
    /\ UNCHANGED <<alive, holds, known, outbox, inbox, req, had, ran, dropped, losses>>

\* single, first and gather: what they register.
Opened(kind, p) ==
    [rid |-> req.rid + 1, kind |-> kind, peer |-> p, waiting |-> Expected.peers,
     listed |-> kind # "call" /\ Expected.listed, got |-> {}, state |-> "open", reason |-> "none"]

\* A request is registered as r and published to those processes.
Asks(r, to) ==
    /\ asker \in {"started", Settled}
    /\ req.state = "ended"
    /\ req.rid < MaxAsks
    /\ req' = r
    /\ outbox' = [q \in Peer |-> IF q \in to THEN Append(outbox[q], [t |-> r.kind, rid |-> r.rid])
                                 ELSE outbox[q]]
    /\ had' = holds
    /\ ran' = alive
    /\ dropped' = dropped \ known
    /\ UNCHANGED <<asker, alive, holds, known, inbox, losses>>

\* _call: createRoom, reserve, roomOp.
AskPeer == \E p \in known : Asks(Opened("call", p), {p})

\* processes, locate, findAvailable and query.  One with nobody to wait for ends
\* before anything is sent.
AskAll ==
    \E kind \in {"first", "gather"} :
        LET r == Opened(kind, "none")
        IN IF r.listed /\ r.waiting = {} THEN Asks(End(r, "complete"), {}) ELSE Asks(r, alive)

\* _receive for hello, pi?, q?, loc?, find? and the calls.
Reply(p, m) ==
    CASE m.t = "hello"                   -> "hb"
      [] m.t = "first" /\ p \notin holds -> "miss"
      [] OTHER                           -> "answer"

\* A peer handles a message, and publishes its answer or its heartbeat.
PeerReceives ==
    \E p \in alive :
        /\ outbox[p] # <<>>
        /\ LET m == Head(outbox[p])
           IN inbox' = [inbox EXCEPT ![p] = Append(@, [t |-> Reply(p, m), rid |-> m.rid])]
        /\ outbox' = [outbox EXCEPT ![p] = Tail(@)]
        /\ UNCHANGED <<asker, alive, holds, known, req, had, ran, dropped, losses>>

\* The asking process handles a message: any but bye shows that its sender is alive.
Receives ==
    \E p \in Peer :
        /\ inbox[p] # <<>>
        /\ inbox' = [inbox EXCEPT ![p] = Tail(@)]
        /\ LET m == Head(inbox[p])
           IN IF asker \notin {"started", Settled} THEN UNCHANGED <<known, req, dropped>>
              ELSE IF m.t = "bye" THEN Gone(p)
              ELSE /\ Seen(p)
                   /\ req' = IF m.t = "hb" THEN req ELSE Deliver(req, p, m)
                   /\ UNCHANGED dropped
        /\ UNCHANGED <<asker, alive, holds, outbox, had, ran, losses>>

\* The clock fires the request's timer.
TimesOut ==
    /\ req.state = "open"
    /\ req' = End(req, "timeout")
    /\ UNCHANGED <<asker, alive, holds, known, outbox, inbox, had, ran, dropped, losses>>

\* ClusterNode.stop: everything in flight fails.
Stops ==
    /\ asker \in {"started", Settled}
    /\ asker' = "stopped"
    /\ known' = {}
    /\ req' = IF req.state = "open" THEN End(req, "stopped") ELSE req
    /\ UNCHANGED <<alive, holds, outbox, inbox, had, ran, dropped, losses>>

\* A peer starts, and its hello and heartbeat are on their way.
PeerStarts ==
    \E p \in Newcomer \ alive :
        /\ inbox[p] = <<>>
        /\ losses = 0
        /\ alive' = alive \cup {p}
        /\ inbox' = [inbox EXCEPT ![p] = Append(@, [t |-> "hb", rid |-> 0])]
        /\ UNCHANGED <<asker, holds, known, outbox, req, had, ran, dropped, losses>>

\* A peer dies, or stops and says bye.
PeerEnds ==
    \E p \in alive, bye \in BOOLEAN :
        /\ losses < MaxLosses
        /\ losses' = losses + 1
        /\ alive' = alive \ {p}
        /\ holds' = holds \ {p}
        /\ had' = had \ {p}
        /\ outbox' = [outbox EXCEPT ![p] = <<>>]
        /\ inbox' = IF bye THEN [inbox EXCEPT ![p] = Append(@, [t |-> "bye", rid |-> 0])] ELSE inbox
        /\ UNCHANGED <<asker, known, req, ran, dropped>>

\* sweep: a peer that has been silent for peerTimeout, dead or only slow.
Swept ==
    \E p \in known :
        /\ asker \in {"started", Settled}
        /\ p \in alive => losses < MaxLosses
        /\ losses' = IF p \in alive THEN losses + 1 ELSE losses
        /\ inbox[p] = <<>>
        /\ Gone(p)
        /\ UNCHANGED <<asker, alive, holds, outbox, inbox, had, ran>>

\* A peer makes or loses the room.
RoomMoves ==
    \E p \in alive :
        /\ req.state = "open"
        /\ holds' = IF p \in holds THEN holds \ {p} ELSE holds \cup {p}
        /\ losses < MaxLosses
        /\ losses' = losses + 1
        /\ had' = had \ {p}
        /\ UNCHANGED <<asker, alive, known, outbox, inbox, req, ran, dropped>>

DiscoveryNext ==
    \/ Starts
    \/ IntervalPasses
    \/ AskPeer
    \/ AskAll
    \/ PeerReceives
    \/ Receives
    \/ TimesOut
    \/ Stops
    \/ PeerStarts
    \/ PeerEnds
    \/ Swept
    \/ RoomMoves

----------------------------------------------------------------------------

\* A broadcast that ended because all it waited for answered or died has missed
\* nobody that counts: a peer that ran before the asking process and has been
\* there since the question was asked is in what it gathered, and if it had the
\* room all along, the first-wins question found one.  A peer dropped meanwhile is
\* not counted.
NobodyMissed ==
    (req.state = "ended" /\ req.reason = "complete") =>
        LET there == ((ran \cap alive) \cap Elder) \ dropped
        IN /\ req.kind = "gather" => there \subseteq req.got
           /\ req.kind = "first" => there \cap had = {}

\* A broadcast with a list waits only for peers in the registry, and for at least
\* one: whoever answers, dies or is dropped ends its part of the wait at once.
EndsPromptly ==
    (req.state = "open" /\ req.listed) => req.waiting # {} /\ req.waiting \subseteq known

\* What a question to the cluster comes to.
DiscoverySound == NobodyMissed /\ EndsPromptly
==============================================================================
