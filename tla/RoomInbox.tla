------------------------------ MODULE RoomInbox ------------------------------
\* The inbox of a room in the client SDK (packages/client-js/src/room.ts).
\*
\* Between JOIN_SUCCESS and the turn after the first snapshot the caller does not
\* have the room and cannot have registered a handler.  The room holds every frame
\* of that time, handles them in order one clock turn later, and keeps an event
\* that still finds no handler for the first one registered for its kind.
\*
\* A frame is [n, kind]: n counts the frames the server sent this room.  Events
\* are the kinds that go to listeners ("error" is the report of a class the client
\* has not registered); "snapshot" and "patch" carry state, "odd" is a patch with
\* an unregistered class, "bad" one that does not apply, "leave" ends the room.

EXTENDS Integers, Sequences, FiniteSets, SequencesExt

CONSTANTS Kind,         \* the kinds of event the server sends as frames
          MaxUnclaimed, \* MAX_UNCLAIMED
          MaxFrames,    \* bound on the frames of one behaviour
          MaxBinds      \* bound on handshakes: the join and its resumes

VARIABLES room,         \* the fields of the Room
          tasks,        \* the client clock's deferred callbacks, in order
          sent,         \* the frames the server sent, in order
          early,        \* those of them that reached the room while it held
          got,          \* the events listeners were called with, in order
          applied,      \* the state frames applied to the current replica
          spoiled       \* the application dropped listeners, or the room was left

inboxVars == <<room, tasks, sent, early, got, applied, spoiled>>

Event == Kind \cup {"error"}

InboxInit ==
    /\ room = [status |-> "joining", bound |-> FALSE, holding |-> FALSE, held |-> <<>>, snapshots |-> 0,
               session |-> FALSE, releasing |-> FALSE, unclaimed |-> <<>>,
               on |-> {}, listen |-> FALSE, attached |-> 0, binds |-> 0]
    /\ tasks = <<>>
    /\ sent = <<>>
    /\ early = {}
    /\ got = <<>>
    /\ applied = <<>>
    /\ spoiled = FALSE

\* A room in the middle of a callback: its fields and what the callback has done.
Now == [room |-> room, got |-> got, applied |-> applied, tasks |-> tasks]

Becomes(r) ==
    /\ room' = r.room
    /\ got' = r.got
    /\ applied' = r.applied
    /\ tasks' = r.tasks

\* removeAllListeners.
ClearListeners(r) ==
    [r EXCEPT !.room.on = {}, !.room.unclaimed = <<>>, !.room.listen = FALSE,
              !.room.attached = 0]

\* _left: the held frames are dropped, then the listeners.
Left(r) ==
    IF r.room.status = "left" THEN r
    ELSE ClearListeners([r EXCEPT !.room.status = "left", !.room.holding = FALSE,
                                     !.room.held = <<>>])

\* _dispatch and _emit: listeners of the event are called; quits is set when one
\* of them leaves the room.
Dispatch(r, f, quits) ==
    LET d == [r EXCEPT !.got = Append(@, f)]
    IN IF quits THEN Left(d) ELSE d

\* An event with no listener is kept, and the oldest kept one goes above the limit.
Keep(r, f) ==
    LET kept == Append(r.room.unclaimed, f)
    IN [r EXCEPT !.room.unclaimed = IF Len(kept) > MaxUnclaimed THEN Tail(kept) ELSE kept]

\* _offer.
Offer(r, f, quits) ==
    IF f.kind \in r.room.on THEN Dispatch(r, f, quits)
    ELSE IF r.room.releasing THEN Keep(r, f)
    ELSE r

\* _desync: the session ends and the client drops the connection (_lost), which
\* suspends the room.
Desync(r) ==
    IF r.room.status = "left" THEN r
    ELSE [r EXCEPT !.room.session = FALSE, !.room.status = "reconnecting"]

\* _unknownClass.
UnknownClass(r, f) ==
    LET error == [n |-> f.n, kind |-> "error"]
    IN IF "error" \in r.room.on THEN Dispatch(r, error, FALSE)
       ELSE IF r.room.holding \/ r.room.releasing THEN Keep(r, error)
       ELSE r

\* _applyState.
ApplyState(r, f) ==
    IF f.kind = "bad" THEN Desync(r)
    ELSE LET done == [r EXCEPT !.applied = Append(@, f)]
         IN IF f.kind = "odd" THEN UnknownClass(done, f) ELSE done

\* _detach and _attach: a listen() moves to that replica.
Attach(r, replica) == [r EXCEPT !.room.attached = IF r.room.listen THEN replica ELSE 0]

\* _snapshot: a new session and a new replica, and the attachments move to it.
Snapshot(r, f) ==
    ApplyState(Attach([r EXCEPT !.room.session = TRUE,
                                !.room.snapshots = @ + 1,
                                !.room.status = IF @ = "joining" THEN "joined" ELSE @,
                                !.applied = <<>>], r.room.snapshots + 1), f)

\* _patch.
Patch(r, f) == IF r.room.session THEN ApplyState(r, f) ELSE Desync(r)

\* _message: the body is decoded and offered to the listeners of its type.
Message(r, f, quits) == Offer(r, f, quits)

\* _handle.
Handle(r, f, quits) ==
    CASE f.kind = "snapshot"              -> Snapshot(r, f)
      [] f.kind \in {"patch", "odd", "bad"} -> Patch(r, f)
      [] f.kind = "leave"                 -> Left(r)
      [] f.kind \in Kind                  -> Message(r, f, quits)

\* Holding ends with the join, and not with the release of what was held.
Receive_HeldUntilJoined(r, f, quits) ==
    IF ~r.room.holding \/ r.room.snapshots > 0 THEN Handle(r, f, quits)
    ELSE IF f.kind \notin {"snapshot", "leave"}
         THEN [r EXCEPT !.room.held = Append(@, f)]
    ELSE IF f.kind = "snapshot"
         THEN Handle([r EXCEPT !.tasks = Append(@, [job |-> "release", events |-> <<>>])], f, quits)
         ELSE Handle(r, f, quits)

\* _receive: on a first join all but its snapshot, or a LEAVE before that, is held.
Receive(r, f, quits) ==
    LET first == r.room.snapshots = 0 /\ f.kind \in {"snapshot", "leave"}
    IN IF ~r.room.holding THEN Handle(r, f, quits)
       ELSE IF ~first THEN [r EXCEPT !.room.held = Append(@, f)]
       ELSE IF f.kind = "snapshot"
            THEN Handle([r EXCEPT !.tasks = Append(@, [job |-> "release", events |-> <<>>])], f, quits)
            ELSE Handle(r, f, quits)

\* _release: the held frames in order; the quit-th of them is the one whose
\* listener leaves the room, if any.
Release(r, quit) ==
    LET held == r.room.held
        Step(a, f) == IF a.room.status = "left" THEN a
                      ELSE Handle(a, f, quit <= Len(held) /\ f = held[quit])
        start == [r EXCEPT !.room.holding = FALSE, !.room.held = <<>>, !.room.releasing = TRUE]
    IN [FoldLeft(Step, start, held) EXCEPT !.room.releasing = FALSE]

\* The deferred part of _claim: _dispatch finds the listeners there are then.
Hand(r, events, quit) ==
    LET Step(a, f) == IF a.room.status = "left" \/ f.kind \notin a.room.on THEN a
                      ELSE Dispatch(a, f, quit <= Len(events) /\ f = events[quit])
    IN FoldLeft(Step, r, events)

\* _claim.
Claim(r, kind) ==
    LET Takes(f) == f.kind = kind
        Rest(f) == f.kind # kind
        claimed == SelectSeq(r.room.unclaimed, Takes)
    IN IF claimed = <<>> THEN r
       ELSE [r EXCEPT !.room.unclaimed = SelectSeq(@, Rest),
                      !.tasks = Append(@, [job |-> "claim", events |-> claimed])]

----------------------------------------------------------------------------

\* _bind: JOIN_SUCCESS, of the join or of a resume.  A resume takes a connection,
\* and the deferred callbacks run before one opens.
Bind ==
    /\ room.binds < MaxBinds
    /\ \/ ~room.bound
       \/ room.status = "reconnecting" /\ tasks = <<>>
    /\ room' = [room EXCEPT !.bound = TRUE, !.session = FALSE, !.binds = @ + 1,
                            !.holding = @ \/ room.snapshots = 0,
                            !.status = "joining"]
    /\ UNCHANGED <<tasks, sent, early, got, applied, spoiled>>

\* What the server may send next: events at any time, one snapshot per handshake
\* and patches after it.
Allowed(kind) ==
    CASE kind \in Kind \cup {"leave"} -> TRUE
      [] kind = "snapshot"           -> room.snapshots < room.binds
      [] OTHER                       -> room.snapshots = room.binds

\* BungohanClient._receive: a frame of this room arrives.
FrameArrives ==
    \E kind \in Kind \cup {"snapshot", "patch", "odd", "bad", "leave"}, quits \in BOOLEAN :
        LET f == [n |-> Len(sent) + 1, kind |-> kind]
        IN /\ room.bound
           /\ room.status \in {"joining", "joined"}
           /\ Len(sent) < MaxFrames
           /\ Allowed(kind)
           /\ Becomes(Receive(Now, f, quits))
           /\ sent' = Append(sent, f)
           /\ early' = IF room.holding /\ kind \in Kind \cup {"odd"}
                       THEN early \cup {[n |-> f.n, kind |-> IF kind = "odd" THEN "error" ELSE kind]}
                       ELSE early
           /\ spoiled' = (spoiled \/ room'.status = "left")

\* The clock's next turn runs the oldest deferred callback.
RunTask ==
    \E quit \in 1..(MaxFrames + 1) :
        /\ tasks # <<>>
        /\ LET r == [Now EXCEPT !.tasks = Tail(@)]
           IN Becomes(IF Head(tasks).job = "release" THEN Release(r, quit)
                      ELSE Hand(r, Head(tasks).events, quit))
        /\ spoiled' = (spoiled \/ room'.status = "left")
        /\ UNCHANGED <<sent, early>>

\* onMessage, onClientJoin, onError and the like, once the join has returned.
Register ==
    \E kind \in Event \ room.on :
        /\ room.snapshots > 0
        /\ room.status # "left"
        /\ Becomes(Claim([Now EXCEPT !.room.on = @ \cup {kind}], kind))
        /\ UNCHANGED <<sent, early, spoiled>>

\* removeListener, or the function a registration returned.
Unregister ==
    \E kind \in room.on :
        /\ room' = [room EXCEPT !.on = @ \ {kind}]
        /\ spoiled' = TRUE
        /\ UNCHANGED <<tasks, sent, early, got, applied>>

\* listen, and the function it returns.
Listen ==
    /\ room.snapshots > 0
    /\ room.status # "left"
    /\ room' = [room EXCEPT !.listen = ~@,
                            !.attached = IF room.listen THEN 0 ELSE room.snapshots]
    /\ UNCHANGED <<tasks, sent, early, got, applied, spoiled>>

\* leave and removeAllListeners.
Quit ==
    /\ room.snapshots > 0
    /\ room.status # "left"
    /\ Becomes(Left(Now)) \/ Becomes(ClearListeners(Now))
    /\ spoiled' = TRUE
    /\ UNCHANGED <<sent, early>>

\* _suspend: the connection dropped after the join.
Suspend ==
    /\ room.snapshots > 0
    /\ room.status \in {"joining", "joined"}
    /\ room' = [room EXCEPT !.status = "reconnecting"]
    /\ UNCHANGED <<tasks, sent, early, got, applied, spoiled>>

InboxNext ==
    \/ Bind
    \/ FrameArrives
    \/ RunTask
    \/ Register
    \/ Unregister
    \/ Listen
    \/ Quit
    \/ Suspend

----------------------------------------------------------------------------

\* The deferred events of _claim.
Claimed == UNION {ToSet(tasks[i].events) : i \in DOMAIN tasks}

\* The events of the held frames: of an odd patch, the report it will make.
HeldEvents ==
    {[n |-> f.n, kind |-> IF f.kind = "odd" THEN "error" ELSE f.kind] : f \in ToSet(room.held)}

\* No event that reached the room before the caller had it is lost: it is held,
\* kept, on its way to a listener, or delivered, and only the oldest go when more
\* than MaxUnclaimed found no listener.  A room that desynchronised while
\* releasing may have skipped the report of an unregistered class.
EarlyKept ==
    ~spoiled =>
        \A f \in early :
            \/ f \in HeldEvents \cup Claimed \cup ToSet(got) \cup ToSet(room.unclaimed)
            \/ f.kind = "error" /\ \E g \in ToSet(sent) : g.kind = "bad" /\ g.n < f.n
            \/ /\ Cardinality({e \in early : e.n >= f.n}) > MaxUnclaimed
               /\ \A g \in ToSet(room.unclaimed) : g.n > f.n

\* Early events of a kind reach listeners in the order they were sent, and no event
\* reaches them twice: the hold, the release and a claim never hand an event over
\* again or past an older one.
EarlyInOrder ==
    \A i, j \in DOMAIN got :
        i < j => /\ got[i] # got[j]
                 /\ (got[i].kind = got[j].kind /\ {got[i], got[j]} \subseteq early) => got[i].n < got[j].n

\* The replica is the snapshot of this handshake and every patch after it, in
\* order: a patch that arrives while older frames are held does not overtake them.
ReplicaInOrder ==
    LET state == SelectSeq(sent, LAMBDA f : f.kind \in {"snapshot", "patch", "odd", "bad"})
    IN room.session =>
        \E i, j \in 1..Len(state) : applied = SubSeq(state, i, j) /\ applied[1].kind = "snapshot"

\* A listen() attachment is on the current replica, and on none once it was removed
\* or the room was left, although every snapshot replaces the replica.
AttachedToReplica ==
    room.attached = IF room.listen /\ room.status # "left" THEN room.snapshots ELSE 0

\* What the inbox owes the application.
InboxSound ==
    /\ EarlyKept
    /\ EarlyInOrder
    /\ ReplicaInOrder
    /\ AttachedToReplica
==============================================================================
