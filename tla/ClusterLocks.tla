---------------------------- MODULE ClusterLocks ----------------------------
(***************************************************************************)
(* The creation lock of one pool of rooms (packages/core/src/cluster/      *)
(* locks.ts), the protocol that takes it from another process (lock() and  *)
(* the lock?, lock!, unlock and bye messages of cluster/node.ts), the      *)
(* membership it depends on (cluster/registry.ts) and the find-or-create   *)
(* that runs under it (matchmaker.ts, server.ts).                          *)
(*                                                                         *)
(* Pools are independent, so one is enough.  Messages between two          *)
(* processes keep their order (one backplane connection), and may be lost. *)
(***************************************************************************)
EXTENDS Naturals, Sequences, FiniteSets

CONSTANTS
    Proc,       \* the processes of the cluster
    NoProc,     \* no coordinator: a call that goes on without the lock
    Score,      \* the rendezvous hash of (pool, process)
    NoLease,    \* `holder === undefined`
    MaxClaims,  \* bound: find-or-create calls each process makes
    MaxFaults   \* bound: crashes, stops, lost messages and false suspicions

LockAttempts == 3

ASSUME ClusterLocksAssumption ==
    /\ IsFiniteSet(Proc) /\ NoProc \notin Proc
    /\ NoLease \notin Proc \X Nat
    /\ Score \in [Proc -> Nat]
    /\ \A p, q \in Proc : Score[p] = Score[q] => p = q
    /\ MaxClaims \in [Proc -> Nat] /\ MaxFaults \in Nat

VARIABLES
    up,         \* per process: "up" (`_running`), "stopped", "dead"
    peers,      \* per process: `_registry`, the processes it takes for alive
    table,      \* per process: its LockTable entry, [holder, queue]
    call,       \* per process: its find-or-create, "idle", "waiting" for the
                \* lock, "granted", "creating"
    at,         \* per process: the coordinator of that call, NoProc for none
    tries,      \* per process: attempts of the current lock()
    last,       \* per process: the last request id (`createId`)
    claims,     \* per process: find-or-create calls made
    mail,       \* per ordered pair of processes: messages in flight
    rooms,      \* processes that have a room of the pool
    taken,      \* history: leases taken back from their holder or waiter
    disturbed,  \* history: something went wrong
    lost,       \* history: a message was lost
    faults      \* number of faults so far

tableVars == <<table, mail>>
callVars  == <<call, at, tries, last>>
histVars  == <<disturbed, lost, faults>>
vars == <<up, peers, tableVars, callVars, claims, rooms, taken, histVars>>

-----------------------------------------------------------------------------
(* LockTable.                                                              *)

EmptyTable == [holder |-> NoLease, queue |-> <<>>]

\* `_next`: a free lock goes to the first waiter.
Advance(t) ==
    IF t.holder # NoLease \/ t.queue = <<>> THEN t
    ELSE [holder |-> Head(t.queue), queue |-> Tail(t.queue)]

Acquire(t, l) == Advance([t EXCEPT !.queue = Append(@, l)])

\* The queue q without the waiters in `gone`.
Without(q, gone) ==
    LET kept[i \in 0..Len(q)] ==
          IF i = 0 THEN <<>>
          ELSE IF q[i] \in gone THEN kept[i - 1] ELSE Append(kept[i - 1], q[i])
    IN  kept[Len(q)]

\* `release`: ends the lease, or takes a waiter that gave up out of the queue.
Release(t, l) ==
    IF t.holder = l THEN Advance([t EXCEPT !.holder = NoLease])
    ELSE [t EXCEPT !.queue = Without(@, {l})]

\* `processLost`: its waiters leave the queue and its lease ends.
ProcessLost(t, p) ==
    LET kept == Without(t.queue, {p} \X Nat)
    IN  IF t.holder # NoLease /\ t.holder[1] = p
        THEN Advance([holder |-> NoLease, queue |-> kept])
        ELSE [t EXCEPT !.queue = kept]

Leases(t) == {t.queue[i] : i \in 1..Len(t.queue)} \cup ({t.holder} \ {NoLease})

-----------------------------------------------------------------------------
(* Messages.                                                               *)

Lock(n)   == [t |-> "lock?",  lease |-> n]
Grant(n)  == [t |-> "lock!",  lease |-> n]
Unlock(n) == [t |-> "unlock", lease |-> n]
Bye       == [t |-> "bye",    lease |-> 0]

\* `_publish` to one process; nobody listens on the channel of one that is gone.
Send(m, p, q, msg) == IF up[q] = "up" THEN [m EXCEPT ![p][q] = Append(@, msg)] ELSE m

\* The holder changed: a waiter of another process is told by "lock!", k's own
\* call continues.
Tell(m, k, t, new) ==
    IF new.holder # t.holder /\ new.holder # NoLease /\ new.holder[1] # k
    THEN Send(m, k, new.holder[1], Grant(new.holder[2])) ELSE m

OwnGrant(k, t, new) == new.holder # t.holder /\ new.holder # NoLease /\ new.holder[1] = k

\* `coordinatorOf`: the member with the highest score.
CoordinatorOf(members) == CHOOSE p \in members : \A q \in members : Score[q] <= Score[p]

-----------------------------------------------------------------------------
(* lock().                                                                 *)

\* One attempt of p's lock(), the `n`-th of the call, over the membership ps
\* and the mail m.  The step has made t of p's own table already: whoever that
\* grants is told after lock() went on.
Attempt(p, n, ps, t, m) ==
    LET k  == CoordinatorOf(ps \cup {p})
        id == last[p] + 1
        t2 == Acquire(t, <<p, id>>)
    IN  IF n >= LockAttempts
        THEN /\ call' = [call EXCEPT ![p] = "granted"]
             /\ at'   = [at EXCEPT ![p] = NoProc]
             /\ table' = [table EXCEPT ![p] = t]
             /\ mail' = Tell(m, p, table[p], t)
             /\ UNCHANGED <<tries, last>>
        ELSE /\ at'    = [at EXCEPT ![p] = k]
             /\ tries' = [tries EXCEPT ![p] = n]
             /\ last'  = [last EXCEPT ![p] = id]
             /\ IF k = p
                THEN /\ table' = [table EXCEPT ![p] = t2]
                     /\ call'  = [call EXCEPT ![p] = IF t2.holder = <<p, id>> THEN "granted" ELSE "waiting"]
                     /\ mail'  = Tell(m, p, table[p], t)
                ELSE /\ table' = [table EXCEPT ![p] = t]
                     /\ call'  = [call EXCEPT ![p] = "waiting"]
                     /\ mail'  = Tell(Send(m, p, k, Lock(id)), p, table[p], t)

\* `_claimCreation`: no room here, and no other creator in this process.
Claim(p) ==
    /\ up[p] = "up" /\ call[p] = "idle" /\ p \notin rooms /\ claims[p] < MaxClaims[p]
    /\ claims' = [claims EXCEPT ![p] = @ + 1]
    /\ Attempt(p, 0, peers[p], table[p], mail)
    /\ UNCHANGED <<up, peers, rooms, taken, histVars>>

\* Fault: p leaves the queue and goes on waiting.
LockTimeout_StillWaits(p) ==
    /\ up[p] = "up" /\ call[p] = "waiting" /\ at[p] # p
    /\ at'   = [at EXCEPT ![p] = NoProc]
    /\ mail' = IF at[p] \in Proc THEN Send(mail, p, at[p], Unlock(last[p])) ELSE mail
    /\ disturbed' = TRUE
    /\ UNCHANGED <<up, peers, table, call, tries, last, claims, rooms, taken, lost, faults>>

\* A remote request was not answered in time: p leaves the queue there and
\* creates without the lock.
LockTimeout(p) ==
    /\ up[p] = "up" /\ call[p] = "waiting" /\ at[p] # p
    /\ call' = [call EXCEPT ![p] = "granted"]
    /\ at'   = [at EXCEPT ![p] = NoProc]
    /\ mail' = Send(mail, p, at[p], Unlock(last[p]))
    /\ disturbed' = TRUE
    /\ UNCHANGED <<up, peers, table, tries, last, claims, rooms, taken, lost, faults>>

\* The function lock() resolved with: the lock goes back.
GiveBack(p) ==
    LET t == Release(table[p], <<p, last[p]>>)
    IN  \/ /\ at[p] = p
           /\ table' = [table EXCEPT ![p] = t]
           /\ mail'  = Tell(mail, p, table[p], t)
        \/ /\ at[p] \in Proc \ {p}
           /\ mail' = Send(mail, p, at[p], Unlock(last[p]))
           /\ UNCHANGED table
        \/ /\ at[p] = NoProc
           /\ UNCHANGED <<table, mail>>

\* Fault: the lock goes back before the room is there.
Look_Releases(p) ==
    /\ up[p] # "dead" /\ call[p] = "granted"
    /\ GiveBack(p)
    /\ call' = [call EXCEPT ![p] = IF rooms = {} THEN "creating" ELSE "idle"]
    /\ at'   = [at EXCEPT ![p] = NoProc]
    /\ UNCHANGED <<up, peers, tries, last, claims, rooms, taken, histVars>>

\* `findAvailable` across the cluster, under the lock.  A process that runs and
\* knows a peer asks; any running process answers, and p waits for the peers
\* that it knows.  Answers are lost or late only when something went wrong.
Look(p) ==
    /\ up[p] # "dead" /\ call[p] = "granted"
    /\ \/ /\ up[p] = "up" /\ peers[p] # {}
          /\ \E q \in rooms : up[q] = "up"
          /\ GiveBack(p)
          /\ call' = [call EXCEPT ![p] = "idle"]
          /\ at'   = [at EXCEPT ![p] = NoProc]
       \/ /\ disturbed \/ rooms \cap peers[p] = {}
          /\ call' = [call EXCEPT ![p] = "creating"]
          /\ UNCHANGED <<table, mail, at>>
    /\ UNCHANGED <<up, peers, tries, last, claims, rooms, taken, histVars>>

\* The room is ready, or its creation failed; then the lock goes back.
Create(p) ==
    /\ up[p] # "dead" /\ call[p] = "creating"
    /\ rooms' \in {rooms, rooms \cup {p}}
    /\ GiveBack(p)
    /\ call' = [call EXCEPT ![p] = "idle"]
    /\ at'   = [at EXCEPT ![p] = NoProc]
    /\ UNCHANGED <<up, peers, tries, last, claims, taken, histVars>>

-----------------------------------------------------------------------------
(* Receiving, `_receive`.  Any message but "bye" proves its sender alive.  *)

Received(p, q) == [mail EXCEPT ![p][q] = Tail(@)]
Seen(q, p) == peers' = [peers EXCEPT ![q] = @ \cup {p}]

\* The table of q becomes t, and whoever it grants hears of it.
TableBecomes(q, t, m) ==
    /\ table' = [table EXCEPT ![q] = t]
    /\ mail'  = Tell(m, q, table[q], t)
    /\ call'  = [call EXCEPT ![q] = IF OwnGrant(q, table[q], t) THEN "granted" ELSE @]

ReceiveLock(p, q, n) ==
    /\ Seen(q, p)
    /\ TableBecomes(q, Acquire(table[q], <<p, n>>), Received(p, q))
    /\ UNCHANGED <<at, tries, last, taken>>

\* Fault: a grant nobody waits for is dropped.
ReceiveGrant_Ignored(p, q, n) ==
    /\ Seen(q, p)
    /\ mail' = Received(p, q)
    /\ IF call[q] = "waiting" /\ at[q] = p /\ last[q] = n
       THEN call' = [call EXCEPT ![q] = "granted"] ELSE UNCHANGED call
    /\ UNCHANGED <<table, at, tries, last, taken>>

\* A grant for a request that already gave up goes straight back.
ReceiveGrant(p, q, n) ==
    /\ Seen(q, p)
    /\ IF call[q] = "waiting" /\ at[q] = p /\ last[q] = n
       THEN /\ call' = [call EXCEPT ![q] = "granted"]
            /\ mail' = Received(p, q)
       ELSE /\ mail' = Send(Received(p, q), q, p, Unlock(n))
            /\ UNCHANGED call
    /\ UNCHANGED <<table, at, tries, last, taken>>

ReceiveUnlock(p, q, n) ==
    /\ Seen(q, p)
    /\ TableBecomes(q, Release(table[q], <<p, n>>), Received(p, q))
    /\ UNCHANGED <<at, tries, last, taken>>

\* `_peerLost`: q takes p for gone.  Its leases end; a request of q to p fails,
\* and its lock() asks the coordinator of the membership that is left.
PeerLost(q, p, m) ==
    LET t == ProcessLost(table[q], p)
    IN  /\ peers' = [peers EXCEPT ![q] = @ \ {p}]
        /\ taken' = taken \cup {l \in Leases(table[q]) : l[1] = p}
        /\ IF call[q] = "waiting" /\ at[q] = p
           THEN Attempt(q, tries[q] + 1, peers[q] \ {p}, t, m)
           ELSE TableBecomes(q, t, m) /\ UNCHANGED <<at, tries, last>>

ReceiveBye(p, q) ==
    IF p \in peers[q] THEN PeerLost(q, p, Received(p, q))
    ELSE mail' = Received(p, q) /\ UNCHANGED <<peers, table, callVars, taken>>

Receive(p, q) ==
    /\ up[q] = "up" /\ mail[p][q] # <<>>
    /\ LET msg == Head(mail[p][q])
       IN  \/ msg.t = "lock?"  /\ ReceiveLock(p, q, msg.lease)
           \/ msg.t = "lock!"  /\ ReceiveGrant(p, q, msg.lease)
           \/ msg.t = "unlock" /\ ReceiveUnlock(p, q, msg.lease)
           \/ msg.t = "bye"    /\ ReceiveBye(p, q)
    /\ UNCHANGED <<up, claims, rooms, histVars>>

-----------------------------------------------------------------------------
(* Time and failure.                                                       *)

\* A heartbeat of p reaches q.
Heartbeat(p, q) ==
    /\ up[p] = "up" /\ up[q] = "up" /\ p # q /\ p \notin peers[q]
    /\ Seen(q, p)
    /\ UNCHANGED <<up, tableVars, callVars, claims, rooms, taken, histVars>>

\* Fault: a lease never ends by itself.
LeaseExpires_Never(k) == FALSE /\ UNCHANGED vars

\* The lease outlived `leaseMs` and is taken back.
LeaseExpires(k) ==
    /\ up[k] = "up" /\ table[k].holder # NoLease
    /\ taken' = taken \cup {table[k].holder}
    /\ TableBecomes(k, Release(table[k], table[k].holder), mail)
    /\ disturbed' = TRUE
    /\ UNCHANGED <<up, peers, at, tries, last, claims, rooms, lost, faults>>

Fault == faults < MaxFaults /\ faults' = faults + 1 /\ disturbed' = TRUE

\* The sweep drops a silent peer: one that is gone, or, by mistake, one whose
\* heartbeats are late.
Sweep(q, p) ==
    /\ up[q] = "up" /\ p \in peers[q]
    /\ PeerLost(q, p, mail)
    /\ \/ up[p] # "up" /\ UNCHANGED <<disturbed, faults>>
       \/ up[p] = "up" /\ Fault
    /\ UNCHANGED <<up, claims, rooms, lost>>

\* stop(): "bye" to everyone, requests fail, the table is dropped; what waits
\* in it is never granted.
Stop(p) ==
    /\ up[p] = "up" /\ Fault
    /\ up'    = [up EXCEPT ![p] = "stopped"]
    /\ peers' = [peers EXCEPT ![p] = {}]
    /\ table' = [table EXCEPT ![p] = EmptyTable]
    /\ LET asked == call[p] = "waiting" /\ at[p] # p
           out == [q \in Proc |->
                     IF q = p \/ up[q] # "up" THEN mail[p][q]
                     ELSE Append(mail[p][q], Bye) \o
                          (IF asked /\ q = at[p] THEN <<Unlock(last[p])>> ELSE <<>>)]
       IN  /\ mail' = [r \in Proc |-> IF r = p THEN out ELSE [mail[r] EXCEPT ![p] = <<>>]]
           /\ call' = IF asked THEN [call EXCEPT ![p] = "granted"] ELSE call
           /\ at'   = IF asked THEN [at EXCEPT ![p] = NoProc] ELSE at
    /\ UNCHANGED <<tries, last, claims, rooms, taken, lost>>

Crash(p) ==
    /\ up[p] = "up" /\ Fault
    /\ up'    = [up EXCEPT ![p] = "dead"]
    /\ peers' = [peers EXCEPT ![p] = {}]
    /\ table' = [table EXCEPT ![p] = EmptyTable]
    /\ mail'  = [r \in Proc |-> [mail[r] EXCEPT ![p] = <<>>]]
    /\ call'  = [call EXCEPT ![p] = "idle"]
    /\ at'    = [at EXCEPT ![p] = NoProc]
    /\ rooms' = rooms \ {p}
    /\ UNCHANGED <<tries, last, claims, taken, lost>>

Lose(p, q) ==
    /\ mail[p][q] # <<>> /\ Fault
    /\ mail' = Received(p, q)
    /\ lost' = TRUE
    /\ UNCHANGED <<up, peers, table, callVars, claims, rooms, taken>>

-----------------------------------------------------------------------------
Init ==
    /\ up     = [p \in Proc |-> "up"]
    /\ peers  = [p \in Proc |-> Proc \ {p}]
    /\ table  = [p \in Proc |-> EmptyTable]
    /\ call   = [p \in Proc |-> "idle"]
    /\ at     = [p \in Proc |-> NoProc]
    /\ tries  = [p \in Proc |-> 0]
    /\ last   = [p \in Proc |-> 0]
    /\ claims = [p \in Proc |-> 0]
    /\ mail   = [p \in Proc |-> [q \in Proc |-> <<>>]]
    /\ rooms = {} /\ taken = {}
    /\ disturbed = FALSE /\ lost = FALSE /\ faults = 0

\* What happens by itself: messages arrive, hooks settle, timers fire.
Progress(p) ==
    \/ LockTimeout(p) \/ Look(p) \/ Create(p) \/ LeaseExpires(p)
    \/ \E q \in Proc : Receive(p, q)

Next ==
    \/ \E p \in Proc : Progress(p) \/ Claim(p) \/ Stop(p) \/ Crash(p)
    \/ \E p, q \in Proc : Heartbeat(p, q) \/ Sweep(p, q) \/ Lose(p, q)

Spec == Init /\ [][Next]_vars

\* Fairness: timers fire, the steps of a find-or-create end, messages arrive.
Fairness ==
    \A p \in Proc :
        /\ WF_vars(LockTimeout(p)) /\ WF_vars(LeaseExpires(p))
        /\ WF_vars(Look(p)) /\ WF_vars(Create(p))
        /\ \A q \in Proc : WF_vars(Receive(p, q))

FairSpec == Spec /\ Fairness

-----------------------------------------------------------------------------
(* Properties.                                                             *)

Lease   == Proc \X Nat
Message == [t : {"lock?", "lock!", "unlock", "bye"}, lease : Nat]

\* Every variable has its type, and a call that waits waits for some process.
TypeOK ==
    /\ up \in [Proc -> {"up", "stopped", "dead"}]
    /\ peers \in [Proc -> SUBSET Proc]
    /\ table \in [Proc -> [holder : Lease \cup {NoLease}, queue : Seq(Lease)]]
    /\ call \in [Proc -> {"idle", "waiting", "granted", "creating"}]
    /\ at \in [Proc -> Proc \cup {NoProc}]
    /\ \A p \in Proc : call[p] = "waiting" => at[p] \in Proc
    /\ tries \in [Proc -> 0..LockAttempts - 1] /\ last \in [Proc -> Nat] /\ claims \in [Proc -> Nat]
    /\ mail \in [Proc -> [Proc -> Seq(Message)]]
    /\ rooms \subseteq Proc /\ taken \subseteq Lease
    /\ disturbed \in BOOLEAN /\ lost \in BOOLEAN /\ faults \in Nat

Wants(p, k, n) == call[p] # "idle" /\ at[p] = k /\ last[p] = n

InFlight(p, q, msg) == \E i \in 1..Len(mail[p][q]) : mail[p][q][i] = msg

\* While nothing goes wrong, calls that start on several processes at once
\* create one room between them.
OneRoomPerPool == ~disturbed => Cardinality(rooms) <= 1

\* A process that goes on under the lock of a coordinator that is still there
\* is that coordinator's holder, unless its lease was taken back: no unlock,
\* late grant or retry of another request ends it.
HolderHolds ==
    \A p \in Proc :
        /\ up[p] = "up" /\ call[p] \in {"granted", "creating"}
        /\ at[p] # NoProc /\ up[at[p]] = "up" /\ <<p, last[p]>> \notin taken
        => table[at[p]].holder = <<p, last[p]>>

\* A pool is never locked for nobody: while no message is lost, the process a
\* coordinator takes for the holder wants the lock, or is about to be told, or
\* is about to give it back.
NoOrphanLease ==
    \A k, p \in Proc : \A n \in 1..last[p] :
        /\ ~lost /\ up[k] = "up" /\ up[p] = "up" /\ table[k].holder = <<p, n>>
        => Wants(p, k, n) \/ InFlight(p, k, Unlock(n)) \/ InFlight(k, p, Grant(n))

\* Every lease and every waiter belongs to a process the coordinator knows, so
\* that losing that process will clear it.
LeasesOfPeers ==
    \A k \in Proc : \A l \in Leases(table[k]) : l[1] \in peers[k] \cup {k}

\* A free lock has no waiters.
FreeLockHasNoWaiters == \A k \in Proc : table[k].holder = NoLease => table[k].queue = <<>>

\* The lease tables are sound (cluster/locks.ts): who goes on under a lock holds it,
\* and no lease is kept for nobody or in front of waiters nothing will serve.
LeasesSound == HolderHolds /\ NoOrphanLease /\ LeasesOfPeers /\ FreeLockHasNoWaiters

\* lock() resolves while its process runs, whatever happens to the processes
\* it waits for: a lost coordinator, a lost message and a stuck holder each
\* have a timer or a retry that ends the wait.
LockResolves ==
    \A p \in Proc : call[p] = "waiting" ~> (call[p] # "waiting" \/ up[p] # "up")

=============================================================================
