---------------------------- MODULE SimulationLoop ----------------------------
\* The loops of a room: the fixed-step simulation and the state sync
\* (packages/core/src/loop.ts), driven by the room's life, its pauses and the rates
\* the application sets (packages/core/src/room.ts).
\*
\* Time is a whole number of units; stepMs is the length of a step.  The code's
\* EPSILON absorbs floating point error and has no counterpart here.

EXTENDS Integers

CONSTANTS StepMs,       \* the step lengths of the tick rates the application sets
          MaxCatchUp,   \* maxCatchUpSteps
          MaxTime       \* bound on the clock

\* Steps have a positive length: at a rate of 0 there is no loop.
ASSUME LoopAssumption == StepMs \subseteq Nat \ {0} /\ MaxCatchUp \in Nat /\ MaxTime \in Nat

VARIABLES clock,
          life,         \* creating, ready, disposing
          paused,       \* Room._paused
          rate,         \* the step length of the rate in force, 0 for rate 0
          loop,         \* Room._simulation, with made FALSE when it is undefined
          syncing,      \* the IntervalLoop runs
          simulated,    \* the time onTick was called with, in all
          dropped,      \* the backlog discarded by _wake
          forgotten,    \* what was in hand when the loop was stopped or restarted
          active,       \* how long the simulation has been running
          burst         \* steps of the last wake

loopVars == <<clock, life, paused, rate, loop, syncing, simulated, dropped, forgotten, active, burst>>

NoLoop == [made |-> FALSE, running |-> FALSE, stepMs |-> 0, last |-> 0, acc |-> 0]

LoopInit ==
    /\ clock = 0
    /\ life = "creating"
    /\ paused = FALSE
    /\ rate \in StepMs
    /\ loop = NoLoop
    /\ syncing = FALSE
    /\ simulated = 0
    /\ dropped = 0
    /\ forgotten = 0
    /\ active = 0
    /\ burst = 0

----------------------------------------------------------------------------

\* SimulationLoop.start, stop and setTickRate.
Start(l) == IF l.running THEN l ELSE [l EXCEPT !.running = TRUE, !.last = clock, !.acc = 0]
Stop(l) == [l EXCEPT !.running = FALSE]
SetTickRate(l, step) ==
    LET stopped == [Stop(l) EXCEPT !.stepMs = step]
    IN IF l.running THEN Start(stopped) ELSE stopped

\* What a stop or a restart leaves unsimulated.
InHand(l) == IF l.running THEN l.acc + (clock - l.last) ELSE 0

\* IntervalLoop.start and stop, for the sync loop.
Syncs(on) == syncing' = on

\* _applySimulation, for the rate r.
ApplySimulation(l, r, isPaused) ==
    IF r = 0 THEN NoLoop
    ELSE IF l.made THEN SetTickRate(l, r)
    ELSE LET new == [NoLoop EXCEPT !.made = TRUE, !.stepMs = r]
         IN IF isPaused THEN new ELSE Start(new)

\* The room becomes ready: the loops start, unless it is being disposed already.
Created ==
    /\ life = "creating"
    /\ life' = "ready"
    /\ loop' = ApplySimulation(loop, rate, paused)
    /\ Syncs(TRUE)
    /\ UNCHANGED <<clock, paused, rate, simulated, dropped, forgotten, active, burst>>

\* setSimulationTickRate.
SetRate(r) ==
    /\ rate' = r
    /\ IF life = "ready"
       THEN /\ loop' = ApplySimulation(loop, r, paused)
            /\ forgotten' = forgotten + InHand(loop)
       ELSE UNCHANGED <<loop, forgotten>>

ApplicationSetsRate ==
    /\ \E r \in StepMs \cup {0} : r # rate /\ SetRate(r)
    /\ UNCHANGED <<clock, life, paused, syncing, simulated, dropped, active, burst>>

\* _dispose stops both loops.
Disposes ==
    /\ life # "disposing"
    /\ life' = "disposing"
    /\ loop' = Stop(loop)
    /\ Syncs(FALSE)
    /\ forgotten' = forgotten + InHand(loop)
    /\ UNCHANGED <<clock, paused, rate, simulated, dropped, active, burst>>

\* _updatePause when the last connected client drops and a seat is held for it.
Pauses ==
    /\ life = "ready"
    /\ ~paused
    /\ paused' = TRUE
    /\ loop' = Stop(loop)
    /\ Syncs(FALSE)
    /\ forgotten' = forgotten + InHand(loop)
    /\ UNCHANGED <<clock, life, rate, simulated, dropped, active, burst>>

\* The room resumes with the loop's old measure of time.
Resumes_OldTime ==
    /\ life = "ready"
    /\ paused
    /\ paused' = FALSE
    /\ loop' = IF loop.made THEN [loop EXCEPT !.running = TRUE] ELSE loop
    /\ Syncs(TRUE)
    /\ UNCHANGED <<clock, life, rate, simulated, dropped, forgotten, active, burst>>

\* _updatePause when a client is connected again.
Resumes ==
    /\ life = "ready"
    /\ paused
    /\ paused' = FALSE
    /\ loop' = IF loop.made THEN Start(loop) ELSE loop
    /\ Syncs(TRUE)
    /\ UNCHANGED <<clock, life, rate, simulated, dropped, forgotten, active, burst>>

\* How many whole steps a wake finds, and runs.
Due(l) == (l.acc + (clock - l.last)) \div l.stepMs
Steps(l) == IF Due(l) < MaxCatchUp THEN Due(l) ELSE MaxCatchUp

\* _wake when no step touches the loop: the steps that fit, and the whole steps
\* beyond MaxCatchUp are dropped.
Wakes ==
    /\ loop.running
    /\ clock > loop.last
    /\ LET due == Due(loop)
           n == Steps(loop)
       IN /\ burst' = n
          /\ simulated' = simulated + n * loop.stepMs
          /\ dropped' = dropped + (due - n) * loop.stepMs
          /\ loop' = [loop EXCEPT !.acc = (@ + (clock - loop.last)) - due * loop.stepMs,
                                  !.last = clock]
    /\ UNCHANGED <<clock, life, paused, rate, syncing, forgotten, active>>

\* _wake when the k-th step stops the loop or changes its rate: a stopped loop
\* returns at once, and a restarted one has nothing in its accumulator.
WakesAndChanges ==
    \E k \in 1..MaxCatchUp :
        /\ loop.running
        /\ clock > loop.last
        /\ k <= Steps(loop)
        /\ burst' = k
        /\ simulated' = simulated + k * loop.stepMs
        /\ LET rest == (loop.acc + (clock - loop.last)) - k * loop.stepMs
               now == [loop EXCEPT !.acc = rest, !.last = clock]
           IN \/ \E r \in StepMs \cup {0} :
                    /\ rate' = r
                    /\ loop' = ApplySimulation(now, r, paused)
                    /\ forgotten' = forgotten + rest
                    /\ UNCHANGED <<life, syncing>>
              \/ /\ life' = "disposing"
                 /\ loop' = Stop(now)
                 /\ Syncs(FALSE)
                 /\ forgotten' = forgotten + rest
                 /\ UNCHANGED rate
        /\ UNCHANGED <<clock, paused, dropped, active>>

\* The clock moves on: a timer fires late, or the process stalls.
TimePasses ==
    /\ clock < MaxTime
    /\ clock' = clock + 1
    /\ active' = IF loop.running THEN active + 1 ELSE active
    /\ UNCHANGED <<life, paused, rate, loop, syncing, simulated, dropped, forgotten, burst>>

LoopNext ==
    \/ Created
    \/ ApplicationSetsRate
    \/ Disposes
    \/ Pauses
    \/ Resumes
    \/ Wakes
    \/ WakesAndChanges
    \/ TimePasses

LoopSpec == LoopInit /\ [][LoopNext]_loopVars

----------------------------------------------------------------------------

\* Every unit of time the loop ran is simulated once, dropped as backlog, given up
\* by a stop or a restart, or still in hand: stalls, pauses and changes of rate
\* neither simulate time twice nor the time the room was paused.
TimeAccounted == simulated + dropped + forgotten + InHand(loop) = active

\* The loops run exactly when the room does: ready, not paused, not disposing, and
\* for the simulation at a positive rate, which is the one last set.  The paths
\* that set this are the room's creation, its rate, its pauses and its disposal.
LoopsMatchRoom ==
    LET runs == life = "ready" /\ ~paused
    IN /\ syncing = runs
       /\ loop.running = (runs /\ rate > 0)
       /\ (life = "ready" /\ rate > 0) => loop.stepMs = rate

\* After a wake less than a step is left over, and no wake runs more than
\* MaxCatchUp steps.
CatchUpBounded ==
    /\ burst <= MaxCatchUp
    /\ loop.running => loop.acc < loop.stepMs

\* Simulated, dropped and pending time add up, loops run when their room does, and a
\* wake runs a bounded number of steps (loop.ts, room.ts).
LoopSound == TimeAccounted /\ LoopsMatchRoom /\ CatchUpBounded
==============================================================================
