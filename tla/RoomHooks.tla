------------------------------- MODULE RoomHooks -------------------------------
\* The React hooks useRoom and useRoomState (packages/client-js/src/react/index.ts) in one
\* component: it mounts, is mounted twice (StrictMode), changes the room it asks for, and
\* unmounts, while joins end, frames arrive and rooms are left.
\*
\* React is modelled by what the hooks rely on: an update of the state is followed by a
\* render; effects, and the subscription of useSyncExternalStore, run in a later task than
\* the render they belong to; a subscription compares its snapshot with the rendered one
\* when it starts and whenever it is notified. The callbacks of a promise run before the
\* next task, so a join ends and is taken note of in one step.

EXTENDS Integers, Sequences

CONSTANTS MaxEffects,   \* bound on runs of useRoom's effect
          MaxApplied    \* bound on frames applied to one room

VARIABLES mounted,
          effects,      \* runs of the effect, each with its room
          result,       \* useRoom's state: a status, and the run whose room it holds (0: none)
          selector,     \* useRoomState has a selector
          version,      \* its counter of frames
          view,         \* what was rendered: the room, its snapshot, the frames it had
          listens,      \* the run whose room useRoomState is subscribed to (0: none)
          dirty,        \* a render is due
          late          \* the rendered room applied a frame before it was subscribed to,
                        \* and none since

hookVars == <<mounted, effects, result, selector, version, view, listens, dirty, late>>

NoView == [room |-> 0, snapshot |-> 0, frames |-> 0]
Fresh == [active |-> TRUE, joining |-> TRUE, room |-> "none", listening |-> FALSE, frames |-> 0]
Last == Len(effects)

HooksInit ==
    /\ mounted = "no"
    /\ effects = <<>>
    /\ result = [status |-> "connecting", room |-> 0]
    /\ selector \in BOOLEAN
    /\ version = 0
    /\ view = NoView
    /\ listens = 0
    /\ dirty = FALSE
    /\ late = FALSE

----------------------------------------------------------------------------
(* useRoom. *)

\* The cleanup of a run: its room is left unless it is being joined or was left.
Cleaned(e) == [e EXCEPT !.active = FALSE, !.listening = FALSE,
                        !.room = IF @ = "joined" THEN "left" ELSE @]

CleanUp == [i \in 1..Last |-> IF effects[i].active THEN Cleaned(effects[i]) ELSE effects[i]]

\* The effect: on mount, on StrictMode's second mount, and when what it asks for changed.
EffectRuns ==
    /\ mounted # "gone"
    /\ Last < MaxEffects
    /\ mounted' = "yes"
    /\ effects' = Append(CleanUp, Fresh)
    /\ result' = [status |-> "connecting", room |-> 0]
    /\ UNCHANGED <<selector, version, view, listens, dirty, late>>

Unmounts ==
    /\ mounted = "yes"
    /\ mounted' = "gone"
    /\ effects' = CleanUp
    /\ listens' = 0
    /\ UNCHANGED <<result, selector, version, view, dirty, late>>

\* joinWith failed, whichever run asked.
JoinFails_Any(i) ==
    /\ effects[i].joining
    /\ effects' = [effects EXCEPT ![i].joining = FALSE]
    /\ result' = [status |-> "error", room |-> 0]
    /\ UNCHANGED <<mounted, selector, version, view, listens, dirty, late>>

\* joinWith failed: shown unless the run is over.
JoinFails(i) ==
    /\ effects[i].joining
    /\ effects' = [effects EXCEPT ![i].joining = FALSE]
    /\ result' = IF effects[i].active THEN [status |-> "error", room |-> 0] ELSE result
    /\ UNCHANGED <<mounted, selector, version, view, listens, dirty, late>>

\* joinWith succeeded: a run that is over gives the seat back.
Joins(i) ==
    /\ effects[i].joining
    /\ effects' = [effects EXCEPT ![i] =
                     IF @.active THEN [@ EXCEPT !.joining = FALSE, !.room = "joined", !.listening = TRUE]
                     ELSE [@ EXCEPT !.joining = FALSE, !.room = "left"]]
    /\ result' = IF effects[i].active THEN [status |-> "connected", room |-> i] ELSE result
    /\ UNCHANGED <<mounted, selector, version, view, listens, dirty, late>>

\* The room is left from the server's side, or by the component's own leave().
RoomLeft(i) ==
    /\ effects[i].room = "joined"
    /\ effects' = [effects EXCEPT ![i].room = "left", ![i].listening = FALSE]
    /\ result' = IF effects[i].listening /\ effects[i].active THEN [status |-> "left", room |-> 0]
                 ELSE result
    /\ UNCHANGED <<mounted, selector, version, view, listens, dirty, late>>

----------------------------------------------------------------------------
(* useRoomState. *)

Applied(effs, i) == IF i = 0 THEN 0 ELSE effs[i].frames

\* getSnapshot: undefined without a room (0), the counter, or what is selected, which
\* changes with every second frame.
Snapshot(effs, i, ver) ==
    IF i = 0 THEN 0 ELSE 1 + (IF selector THEN Applied(effs, i) \div 2 ELSE ver)

\* A render shows the state of useRoom, and the replica as it is then.
Renders ==
    /\ mounted = "yes"
    /\ dirty \/ view.room # result.room
    /\ view' = [room |-> result.room, snapshot |-> Snapshot(effects, result.room, version),
                frames |-> Applied(effects, result.room)]
    /\ dirty' = FALSE
    /\ late' = FALSE
    /\ UNCHANGED <<mounted, effects, result, selector, version, listens>>

\* The subscription of an earlier render is replaced by that of this one.
Subscribes ==
    /\ mounted = "yes"
    /\ listens # view.room
    /\ listens' = view.room
    /\ dirty' = (dirty \/ Snapshot(effects, view.room, version) # view.snapshot)
    /\ UNCHANGED <<mounted, effects, result, selector, version, view, late>>

\* A frame is applied to the replica of a room: its subscription counts it and is notified.
FrameApplied(i) ==
    /\ effects[i].room = "joined"
    /\ effects[i].frames < MaxApplied
    /\ effects' = [effects EXCEPT ![i].frames = @ + 1]
    /\ version' = IF listens = i THEN version + 1 ELSE version
    /\ dirty' = (dirty \/ (listens = i /\ Snapshot(effects', view.room, version') # view.snapshot))
    /\ late' = IF view.room = i THEN listens # i ELSE late
    /\ UNCHANGED <<mounted, result, selector, view, listens>>

HooksNext ==
    \/ EffectRuns
    \/ Unmounts
    \/ Renders
    \/ Subscribes
    \/ \E i \in 1..Last : JoinFails(i) \/ Joins(i) \/ RoomLeft(i) \/ FrameApplied(i)

----------------------------------------------------------------------------
(* Properties. *)

\* A room joined for a run of the effect that is over is left, whichever came first, the
\* join or the end of the run; so the component holds at most one seat.
SeatsGivenBack == \A i \in 1..Last : effects[i].room = "joined" => effects[i].active /\ i = Last

\* The state of useRoom is about the current run: a failure or a leave of an earlier one,
\* however late, does not show.
ResultIsCurrent ==
    mounted = "yes" =>
        LET e == effects[Last] IN
        /\ result.status = "connecting" <=> e.joining
        /\ result.status = "connected" <=> e.room = "joined"
        /\ result.status = "left" <=> e.room = "left"
        /\ result.room = IF e.room = "joined" THEN Last ELSE 0

\* Once subscribed and with no render due, the component shows the replica as it is: the
\* present selection, or without a selector every applied frame, but for those applied
\* between its render and its subscription, until the next frame.
ShowsTheReplica ==
    (mounted = "yes" /\ view.room # 0 /\ view.room = result.room /\ listens = view.room /\ ~dirty) =>
        IF selector THEN view.snapshot = Snapshot(effects, view.room, version)
        ELSE late \/ view.frames = Applied(effects, view.room)

HooksSound == SeatsGivenBack /\ ResultIsCurrent /\ ShowsTheReplica
=============================================================================
