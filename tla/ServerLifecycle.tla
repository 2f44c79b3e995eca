---------------------------- MODULE ServerLifecycle ----------------------------
\* Starting, draining and stopping a process, by calls of the application and by signals
\* (packages/core/src/server.ts; cluster/node.ts and http.ts for what they start).
\*
\* The application awaits start() and stop() before it calls either again. A signal may
\* come at any time, also while such a call waits. The hooks of a room may never return.

EXTENDS FiniteSets, Naturals

CONSTANTS Hall,           \* rooms this process may come to have
          Clustered,      \* cluster mode
          DrainsOnSignal, \* gracefulShutdown.drainTimeout is set
          MaxStarts       \* bound on calls of start

VARIABLES running, shuttingDown, draining,
          open,           \* what runs: subscriptions, the node, the transport, ...
          starting,       \* how far start() is
          stops,          \* stops[s]: how far the stop() of s is
          ending,         \* ending[s]: the rooms it waits for
          rooms,          \* what became of each room
          creating,       \* creations in their static onAuth
          waiters,        \* who waits for the drain: [who, timed]
          emptied,        \* this drain was reported "drained"
          shutdown,       \* how far _shutdown is
          grace,          \* its timer
          starts

lifeVars == <<running, shuttingDown, draining, open, starting, stops, ending, rooms, creating,
              waiters, emptied, shutdown, grace, starts>>
flags == <<running, shuttingDown, draining>>

Stopper == {"application", "signal"}
ClusterParts == {"backplane", "own", "all", "node"}
Served == {"transport", "http", "signals"}
Whole == Served \cup IF Clustered THEN ClusterParts ELSE {}
Registered == {r \in Hall : rooms[r] \in {"live", "closing"}}
Up == shutdown # "exited"

LifecycleInit ==
    /\ running = FALSE /\ shuttingDown = FALSE /\ draining = FALSE
    /\ open = {}
    /\ starting = "no"
    /\ stops = [s \in Stopper |-> "no"]
    /\ ending = [s \in Stopper |-> {}]
    /\ rooms = [r \in Hall |-> "none"]
    /\ creating = {}
    /\ waiters = {}
    /\ emptied = FALSE
    /\ shutdown = "no"
    /\ grace = FALSE
    /\ starts = 0

----------------------------------------------------------------------------
(* start(). *)

Start ==
    /\ Up /\ starts < MaxStarts
    /\ ~running /\ starting = "no" /\ stops["application"] = "no"
    /\ starts' = starts + 1
    /\ starting' = IF Clustered THEN "own" ELSE "listen"
    /\ open' = IF Clustered THEN open \cup {"backplane"} ELSE open
    /\ UNCHANGED <<flags, stops, ending, rooms, creating, waiters, emptied, shutdown, grace>>

\* ClusterNode.start: one channel, then the other; a failure gives up the first and
\* closes the backplane.
StartSubscribes ==
    /\ Up /\ starting \in {"own", "all"}
    /\ \/ /\ starting' = IF starting = "own" THEN "all" ELSE "listen"
          /\ open' = open \cup IF starting = "own" THEN {"own"} ELSE {"all", "node"}
       \/ /\ starting' = "no"
          /\ open' = open \ ClusterParts
    /\ UNCHANGED <<flags, stops, ending, rooms, creating, waiters, emptied, shutdown, grace, starts>>

\* The transport listens, then the HTTP server, then the process runs. What fails undoes
\* what was started before it.
StartListens ==
    /\ Up /\ starting = "listen"
    /\ starting' = "no"
    /\ \/ /\ open' = open \cup Served
          /\ running' = TRUE
       \/ /\ open' = open \ (ClusterParts \cup {"transport"})
          /\ UNCHANGED running
    /\ UNCHANGED <<shuttingDown, draining, stops, ending, rooms, creating, waiters, emptied, shutdown,
                   grace, starts>>

----------------------------------------------------------------------------
(* Rooms. *)

\* A join that creates, past its checks: the static onAuth runs.
Creates(r) ==
    /\ Up /\ running /\ ~shuttingDown /\ ~draining
    /\ rooms[r] = "none" /\ r \notin creating
    /\ creating' = creating \cup {r}
    /\ UNCHANGED <<flags, open, starting, stops, ending, rooms, waiters, emptied, shutdown, grace, starts>>

\* The drain that may have begun is not looked at again.
CreateGoesOn_Unchecked(r) ==
    /\ Up /\ r \in creating
    /\ creating' = creating \ {r}
    /\ rooms' = [rooms EXCEPT ![r] = "live"]
    /\ UNCHANGED <<flags, open, starting, stops, ending, waiters, emptied, shutdown, grace, starts>>

\* onAuth allowed it: the room exists, unless the process drains by now.
CreateGoesOn(r) ==
    /\ Up /\ r \in creating
    /\ creating' = creating \ {r}
    /\ rooms' = IF draining THEN rooms ELSE [rooms EXCEPT ![r] = "live"]
    /\ UNCHANGED <<flags, open, starting, stops, ending, waiters, emptied, shutdown, grace, starts>>

RoomCloses(r) ==
    /\ Up /\ rooms[r] = "live"
    /\ rooms' = [rooms EXCEPT ![r] = "closing"]
    /\ UNCHANGED <<flags, open, starting, stops, ending, creating, waiters, emptied, shutdown, grace, starts>>

\* _checkDrained: with no room left every waiter is told.
CheckDrained(left, waiting) ==
    IF draining' /\ left = {} THEN waiters' = {} /\ emptied' = (emptied \/ waiting # {})
    ELSE waiters' = waiting /\ UNCHANGED emptied

\* roomDisposed: its hooks returned.
RoomGone(r) ==
    /\ Up /\ rooms[r] = "closing"
    /\ rooms' = [rooms EXCEPT ![r] = "gone"]
    /\ UNCHANGED draining
    /\ CheckDrained(Registered \ {r}, waiters)
    /\ UNCHANGED <<running, shuttingDown, open, starting, stops, ending, creating, shutdown, grace, starts>>

----------------------------------------------------------------------------
(* Draining. *)

\* _startDraining and _waitForDrain.
WaitForDrain(who, timed) ==
    /\ draining' = TRUE
    /\ CheckDrained(Registered, waiters \cup {[who |-> who, timed |-> timed]})

Drain ==
    /\ Up /\ running /\ ~shuttingDown
    /\ \A w \in waiters : w.who # "application"
    /\ \E timed \in BOOLEAN : WaitForDrain("application", timed)
    /\ UNCHANGED <<running, shuttingDown, open, starting, stops, ending, rooms, creating, shutdown,
                   grace, starts>>

\* A waiter's own timeout: the process goes on draining.
DrainTimesOut(w) ==
    /\ Up /\ w \in waiters /\ w.timed
    /\ waiters' = waiters \ {w}
    /\ UNCHANGED <<flags, open, starting, stops, ending, rooms, creating, emptied, shutdown, grace, starts>>

CancelDrain ==
    /\ Up /\ draining
    /\ draining' = FALSE
    /\ waiters' = {}
    /\ emptied' = FALSE
    /\ UNCHANGED <<running, shuttingDown, open, starting, stops, ending, rooms, creating, shutdown,
                   grace, starts>>

----------------------------------------------------------------------------
(* stop(). *)

\* Joins are refused and every room is disposed.
BeginStop(s) ==
    /\ shuttingDown' = TRUE
    /\ stops' = [stops EXCEPT ![s] = "disposing"]
    /\ ending' = [ending EXCEPT ![s] = Registered]
    /\ rooms' = [r \in Hall |-> IF rooms[r] = "live" THEN "closing" ELSE rooms[r]]

Stop ==
    /\ Up /\ running /\ stops["application"] = "no"
    /\ BeginStop("application")
    /\ UNCHANGED <<running, draining, open, starting, creating, waiters, emptied, shutdown, grace, starts>>

\* The rooms are gone: drains are settled and the transport closes.
StopDisposed(s) ==
    /\ Up /\ stops[s] = "disposing"
    /\ \A r \in ending[s] : rooms[r] = "gone"
    /\ stops' = [stops EXCEPT ![s] = "leaving"]
    /\ waiters' = {}
    /\ open' = open \ {"transport"}
    /\ UNCHANGED <<flags, starting, ending, rooms, creating, emptied, shutdown, grace, starts>>

\* _stopCluster.
StopLeaves(s) ==
    /\ Up /\ stops[s] = "leaving"
    /\ stops' = [stops EXCEPT ![s] = "serving"]
    /\ open' = open \ ClusterParts
    /\ UNCHANGED <<flags, starting, ending, rooms, creating, waiters, emptied, shutdown, grace, starts>>

\* The HTTP server, the store and the signal handlers, and the flags.
StopEnds(s) ==
    /\ Up /\ stops[s] = "serving"
    /\ stops' = [stops EXCEPT ![s] = "no"]
    /\ open' = open \ {"http", "signals"}
    /\ running' = FALSE /\ shuttingDown' = FALSE /\ draining' = FALSE
    /\ emptied' = FALSE
    /\ shutdown' = IF s = "signal" THEN "hook" ELSE shutdown
    /\ UNCHANGED <<starting, ending, rooms, creating, waiters, grace, starts>>

----------------------------------------------------------------------------
(* _shutdown. *)

\* The timer starts, then stop(), which refuses at once when nothing runs any more.
ShutDown ==
    /\ grace' = TRUE
    /\ IF running THEN shutdown' = "stopping" /\ BeginStop("signal")
       ELSE shutdown' = "hook" /\ UNCHANGED <<shuttingDown, stops, ending, rooms>>

\* A first signal drains, if it is to and nothing stops the process already. The
\* handlers are installed while the process runs.
FirstSignal ==
    /\ Up /\ "signals" \in open /\ shutdown = "no"
    /\ IF DrainsOnSignal /\ running /\ ~shuttingDown
       THEN /\ shutdown' = "draining"
            /\ WaitForDrain("signal", TRUE)
            /\ UNCHANGED <<shuttingDown, stops, ending, rooms, grace>>
       ELSE ShutDown /\ UNCHANGED <<draining, waiters, emptied>>
    /\ UNCHANGED <<running, open, starting, creating, starts>>

\* A second one cuts the drain short.
NextSignal ==
    /\ Up /\ "signals" \in open /\ shutdown = "draining"
    /\ \E w \in waiters : w.who = "signal"
    /\ waiters' = {w \in waiters : w.who # "signal"}
    /\ UNCHANGED <<flags, open, starting, stops, ending, rooms, creating, emptied, shutdown, grace, starts>>

\* The wait is over, however it ended.
ShutdownGoesOn ==
    /\ Up /\ shutdown = "draining"
    /\ \A w \in waiters : w.who # "signal"
    /\ ShutDown
    /\ UNCHANGED <<running, draining, open, starting, creating, waiters, emptied, starts>>

\* onShutdown returned, or the timer fired first: process.exit.
Exits ==
    /\ Up /\ (shutdown = "hook" \/ grace)
    /\ shutdown' = "exited"
    /\ UNCHANGED <<flags, open, starting, stops, ending, rooms, creating, waiters, emptied, grace, starts>>

LifecycleNext ==
    \/ Start \/ StartSubscribes \/ StartListens
    \/ Stop \/ \E s \in Stopper : StopDisposed(s) \/ StopLeaves(s) \/ StopEnds(s)
    \/ Drain \/ CancelDrain \/ \E w \in waiters : DrainTimesOut(w)
    \/ FirstSignal \/ NextSignal \/ ShutdownGoesOn \/ Exits
    \/ \E r \in Hall : Creates(r) \/ CreateGoesOn(r) \/ RoomCloses(r) \/ RoomGone(r)

\* Timers fire and promises that resolved are seen; no hook is relied on.
LifecycleFairness ==
    /\ WF_lifeVars(\E w \in waiters : w.who = "signal" /\ DrainTimesOut(w))
    /\ WF_lifeVars(ShutdownGoesOn)
    /\ WF_lifeVars(Exits)

----------------------------------------------------------------------------
(* Properties. *)

\* The application started the process again while a signal ends it.
Restarted == starts > 1 /\ shutdown \in {"stopping", "hook"}

\* Nobody waits for a drain that has its answer: it was cancelled, the last room is gone,
\* or the process stopped.
DrainAnswered == waiters # {} /\ Up /\ ~Restarted => running /\ draining /\ Registered # {}

\* A drain that was reported "drained" stays so: no creation that was under way when it
\* began adds a room later (server.ts:1613).
DrainHolds == emptied /\ draining => Registered = {}

\* Nothing is left running by a start that failed or a stop that ended, and a process that
\* runs has all its parts until something stops it.
StartsWhole ==
    (Up /\ starting = "no" /\ shutdown = "no" /\ \A s \in Stopper : stops[s] = "no") =>
        open = IF running THEN Whole ELSE {}

\* A process that got a signal exits, even if the hooks of its rooms never return.
ShutdownEnds == shutdown # "no" ~> shutdown = "exited"

LifecycleSound == [](DrainAnswered /\ DrainHolds /\ StartsWhole) /\ ShutdownEnds
=============================================================================
