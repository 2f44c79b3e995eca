----------------------------- MODULE MCProgress -----------------------------
\* What must come to an end in the cluster's locks, in the client, in a process that starts
\* and stops and in the synchronisation of a state, four components that share no state, each
\* checked on its own in one run: `part` says which of them moves. The others stay in their first state, where no
\* step they are fair about is possible.
EXTENDS Integers, Sequences, FiniteSets, TLC

CONSTANTS Proc, NoProc, Score, NoLease, MaxClaims, MaxFaults,
          Room, MaxOpens, MaxAttempts, MaxFrames, UserActs,
          Hall, Clustered, DrainsOnSignal, MaxStarts,
          Client, Remote, Key, Val, BadKey, Wire, Absent, None, NoState, Invalid, Fresh,
          PauseAt, ResumeAt, MaxWrites,
          p1, p2, p3, k1, k2, a1, a2, b

VARIABLES part,
          up, peers, table, call, at, tries, last, claims, mail, rooms, taken, disturbed,
          lost, faults,
          sdk, sock, link, toServer, toClient, seat,
          running, shuttingDown, draining, open, starting, stops, ending, halls, creating, waiters,
          emptied, shutdown, grace, starts,
          root, map, next, touched, cleared, joined, held, closing, allowed, visible, synced,
          paused, net, session, replica, boundary, writes

Locks == INSTANCE ClusterLocks
Sdk == INSTANCE ClientSdk WITH up <- toServer, down <- toClient
Life == INSTANCE ServerLifecycle WITH rooms <- halls
State == INSTANCE StateSync

locks == <<up, peers, table, call, at, tries, last, claims, mail, rooms, taken, disturbed,
           lost, faults>>
client == <<sdk, sock, link, toServer, toClient, seat>>
life == <<running, shuttingDown, draining, open, starting, stops, ending, halls, creating, waiters,
          emptied, shutdown, grace, starts>>
state == <<root, map, next, touched, cleared, joined, held, closing, allowed, visible, synced,
           paused, net, session, replica, boundary, writes>>

Processes == {p1, p2, p3}
Scores == (p1 :> 3) @@ (p2 :> 2) @@ (p3 :> 1)
FirstAndLast == [p \in {p1, p2, p3} |-> IF p = p2 THEN 0 ELSE 1]
Values == {a1, a2, b}
Decoded == (a1 :> a1) @@ (a2 :> a1) @@ (b :> b)
Replacement == {(k1 :> a1) @@ (k2 :> Absent)}

Init ==
    /\ part \in {"locks", "client", "process", "state"}
    /\ Locks!Init /\ Sdk!Init /\ Life!LifecycleInit
    /\ State!Init /\ (part # "state" => root = "none")

Next ==
    \/ part = "locks" /\ Locks!Next /\ UNCHANGED <<part, client, life, state>>
    \/ part = "client" /\ Sdk!Next /\ UNCHANGED <<part, locks, life, state>>
    \/ part = "process" /\ Life!LifecycleNext /\ UNCHANGED <<part, locks, client, state>>
    \/ part = "state" /\ State!Next /\ UNCHANGED <<part, locks, client, life>>

\* StateSync's Fairness, of the part that moves.
StateFairness ==
    /\ WF_state(part = "state" /\ State!Sync)
    /\ \A c \in Client : /\ WF_state(part = "state" /\ State!Receive(c))
                        /\ WF_state(part = "state" /\ c \in closing /\ State!Disconnect(c))

FairSpec ==
    /\ Init /\ [][Next]_<<part, locks, client, life, state>>
    /\ Locks!Fairness /\ Sdk!Fairness /\ Life!LifecycleFairness /\ StateFairness

\* A lock() of a process that runs resolves, although its coordinator, its holder or a
\* message is lost (cluster/node.ts, cluster/locks.ts).
LockResolves == Locks!LockResolves

\* Every join of the client returns, and a room that reconnects is joined again or
\* left, through retries that fail (client-js client.ts).
ClientResolves == Sdk!Resolves

\* A process that starts is whole and one that stopped has nothing left, a drain is
\* answered and keeps its answer, and a signal ends the process (server.ts).
LifecycleSound == Life!LifecycleSound

\* A connected client ends up with the current state, as it may see it, or loses its
\* connection: no pause, replacement or missed boundary leaves it behind (room.ts).
CatchesUp == State!CatchesUp
=============================================================================
