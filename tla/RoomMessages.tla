----------------------------- MODULE RoomMessages -----------------------------
\* The messages a room receives (packages/core/src/room.ts, server.ts): the
\* handlers registered for a type, the messages dispatched to them, and the
\* room's serial queue, a chain of promises each of which waits for the one that
\* was the tail when it was queued.
\*
\* One message type.  A registration is one call of onMessage: the Set it was
\* added to is kept by its unsubscribe function, also after that Set has left the
\* table.  `due` records which registrations stood when a message was dispatched.

EXTENDS Integers, Sequences, FiniteSets

CONSTANTS Seat,         \* the clients of the room
          MaxRegs,      \* bound on calls of onMessage
          MaxMsgs,      \* bound on messages dispatched
          MaxSerial,    \* bound on calls of serial()
          MaxOffs       \* bound on calls of unsubscribe functions

VARIABLES seat,         \* "joined", "away" (its connection is closed) or "left"
          disposal,     \* "no", "closing" once _disposing is set, "disposed"
          sets,         \* the handler Sets made so far, each a set of registrations
          table,        \* _handlers: the Set of the type, 0 for none
          regs,         \* the registrations, in order
          msgs,         \* messages dispatched
          called, due,  \* <<registration, message>>: who was called, who should have been
          task,         \* the tasks of the serial queue, in the order they were queued
          tail,         \* _serialTail: the last task, 0 for the resolved promise
          serials,      \* calls of serial()
          offs          \* calls of unsubscribe functions

messageVars == <<seat, disposal, sets, table, regs, msgs, called, due, task, tail, serials, offs>>

MessageInit ==
    /\ seat = [c \in Seat |-> "joined"]
    /\ disposal = "no"
    /\ sets = <<>> /\ table = 0 /\ regs = <<>>
    /\ msgs = 0 /\ called = {} /\ due = {}
    /\ task = <<>> /\ tail = 0
    /\ serials = 0 /\ offs = 0

-----------------------------------------------------------------------------
(* The table of handlers. *)

\* onMessage and addHandler: the type's Set, made when there is none.
OnMessage(serial) ==
    /\ Len(regs) < MaxRegs
    /\ LET r == Len(regs) + 1
           s == IF table = 0 THEN Len(sets) + 1 ELSE table
       IN /\ sets' = IF table = 0 THEN Append(sets, {r}) ELSE [sets EXCEPT ![s] = @ \cup {r}]
          /\ table' = s
          /\ regs' = Append(regs, [set |-> s, serial |-> serial, on |-> TRUE])
    /\ UNCHANGED <<seat, disposal, msgs, called, due, task, tail, serials, offs>>

\* The table once the Set s holds what it holds in `now`: an empty Set goes, unless
\* the type has another one by now.
Emptied(s, now) == IF now[s] = {} /\ table = s THEN 0 ELSE table

\* The function onMessage returned; it may be called again.
Unsubscribe(r) ==
    /\ offs < MaxOffs
    /\ offs' = offs + 1
    /\ sets' = [sets EXCEPT ![regs[r].set] = @ \ {r}]
    /\ table' = Emptied(regs[r].set, sets')
    /\ regs' = [regs EXCEPT ![r].on = FALSE]
    /\ UNCHANGED <<seat, disposal, msgs, called, due, task, tail, serials>>

Off == \E r \in DOMAIN regs : Unsubscribe(r)

-----------------------------------------------------------------------------
(* The serial queue. *)

Settled(t) == t.state \in {"done", "dropped"}

\* The promise task i waits for has settled.
Ready(i) == \A j \in {task[i].after} \ {0} : Settled(task[j])

\* _enqueue: each new task waits for the tail and becomes it.
Enqueue_SameTail(n) ==
    /\ task' = task \o [i \in 1..n |-> [after |-> tail, state |-> "queued"]]
    /\ tail' = IF tail = 0 /\ n > 0 THEN Len(task) + 1 ELSE tail
Enqueue(n) ==
    /\ task' = task \o [i \in 1..n |->
                          [after |-> IF i = 1 THEN tail ELSE Len(task) + i - 1, state |-> "queued"]]
    /\ tail' = IF n = 0 THEN tail ELSE Len(task) + n

\* serial(task), from a timer or any code of the room.
Serial ==
    /\ serials < MaxSerial
    /\ serials' = serials + 1
    /\ Enqueue(1)
    /\ UNCHANGED <<seat, disposal, sets, table, regs, msgs, called, due, offs>>

\* The turn after the promise it waits for settled: the task is called, or dropped
\* when the room is disposing.
Run(i) ==
    /\ task[i].state = "queued"
    /\ Ready(i)
    /\ task' = [task EXCEPT ![i].state = IF disposal = "no" THEN "running" ELSE "dropped"]
    /\ UNCHANGED <<seat, disposal, sets, table, regs, msgs, called, due, tail, serials, offs>>

\* A task returns, throws or rejects: its promise resolves in every case.
TaskEnds(i) ==
    /\ task[i].state = "running"
    /\ task' = [task EXCEPT ![i].state = "done"]
    /\ UNCHANGED <<seat, disposal, sets, table, regs, msgs, called, due, tail, serials, offs>>

RunNext == \E i \in DOMAIN task : Run(i)
TaskEnd == \E i \in DOMAIN task : TaskEnds(i)

-----------------------------------------------------------------------------
(* Messages, seats and disposal. *)

Standing == IF table = 0 THEN {} ELSE sets[table]

\* _receive, _receiveRaw and _dispatch: a copy of the Set is called, the serial ones
\* by way of the queue.  `quits` are the registrations a handler called directly ends meanwhile.
Receive(c, quits) ==
    /\ seat[c] = "joined" /\ msgs < MaxMsgs
    /\ quits # {} => /\ \E r \in Standing : ~regs[r].serial
                     /\ offs + Cardinality(quits) <= MaxOffs
    /\ msgs' = msgs + 1
    /\ called' = called \cup (Standing \X {msgs'})
    /\ due' = due \cup ({r \in DOMAIN regs : regs[r].on} \X {msgs'})
    /\ Enqueue(Cardinality({r \in Standing : regs[r].serial}))
    /\ offs' = offs + Cardinality(quits)
    /\ regs' = [r \in DOMAIN regs |-> [regs[r] EXCEPT !.on = @ /\ r \notin quits]]
    /\ sets' = [s \in DOMAIN sets |-> sets[s] \ quits]
    /\ table' = IF table # 0 /\ sets'[table] = {} THEN 0 ELSE table
    /\ UNCHANGED <<seat, disposal, serials>>

ReceiveMessage == \E c \in Seat, quits \in SUBSET Standing : Receive(c, quits)

\* A message of no known type, or one that does not decode, ends its connection, here
\* or at the process that holds it.
Violation(c) ==
    /\ seat[c] = "joined"
    /\ seat' = [seat EXCEPT ![c] = "away"]
    /\ UNCHANGED <<disposal, sets, table, regs, msgs, called, due, task, tail, serials, offs>>

\* The seat's client is back, or its seat is released.
SeatMoves(c) ==
    /\ \/ seat[c] = "away" /\ disposal = "no" /\ seat' = [seat EXCEPT ![c] = "joined"]
       \/ seat[c] # "left" /\ seat' = [seat EXCEPT ![c] = "left"]
    /\ UNCHANGED <<disposal, sets, table, regs, msgs, called, due, task, tail, serials, offs>>

SeatStep == \E c \in Seat : Violation(c) \/ SeatMoves(c)

\* dispose(): from here queued tasks are dropped, while the seats that are not
\* released yet still send.
Dispose ==
    /\ disposal = "no"
    /\ disposal' = "closing"
    /\ UNCHANGED <<seat, sets, table, regs, msgs, called, due, task, tail, serials, offs>>

\* _dispose, when onDispose has run: the tables are cleared, not the Sets.
Disposed ==
    /\ disposal = "closing" /\ \A c \in Seat : seat[c] = "left"
    /\ disposal' = "disposed"
    /\ table' = 0
    /\ UNCHANGED <<seat, sets, regs, msgs, called, due, task, tail, serials, offs>>

MessageNext ==
    \/ OnMessage(TRUE) \/ OnMessage(FALSE) \/ Off
    \/ Serial \/ RunNext \/ TaskEnd
    \/ ReceiveMessage \/ SeatStep
    \/ Dispose \/ Disposed

MessageSpec == MessageInit /\ [][MessageNext]_messageVars

-----------------------------------------------------------------------------
(* Properties. *)

\* A message calls exactly the registrations that stand, however often the others
\* were unsubscribed (addHandler, _dispatch).
HandlersReached == called = due

\* A serial task starts when every earlier one has ended, whichever client, timer or
\* handler queued it (_enqueue).
SerialInOrder ==
    \A j \in DOMAIN task : task[j].state # "queued"
        => \A i \in 1..(j - 1) : Settled(task[i])

\* A task is only dropped by a room that is disposing, and one that waits always has
\* one before it, or itself, that can go on: no task is forgotten (_enqueue).
NoneForgotten ==
    \A j \in DOMAIN task :
        /\ task[j].state = "dropped" => disposal # "no"
        /\ task[j].state = "queued"
            => \E i \in 1..j : \/ task[i].state = "running"
                               \/ task[i].state = "queued" /\ Ready(i)

\* Messages reach the handlers that stand, and the serial queue runs one task after the
\* other and forgets none (room.ts: _dispatch, _enqueue).
RoomMessagesSound == HandlersReached /\ SerialInOrder /\ NoneForgotten
=============================================================================
