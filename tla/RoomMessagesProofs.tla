------------------------- MODULE RoomMessagesProofs -------------------------
(***************************************************************************)
(* Proofs about RoomMessages, for any number of clients, registrations,    *)
(* messages and serial tasks.                                              *)
(***************************************************************************)
EXTENDS RoomMessages, TLAPS, SequenceTheorems, FiniteSetTheorems, WellFoundedInduction

\* A registration and a task.
Registrations == [set : Nat, serial : BOOLEAN, on : BOOLEAN]
Tasks == [after : Nat, state : {"queued", "running", "done", "dropped"}]

\* Every variable has its type.
MessageType ==
    /\ seat \in [Seat -> {"joined", "away", "left"}]
    /\ disposal \in {"no", "closing", "disposed"}
    /\ sets \in Seq(SUBSET Nat)
    /\ table \in 0..Len(sets)
    /\ regs \in Seq(Registrations)
    /\ task \in Seq(Tasks)

\* The registrations that were not ended.
On == {r \in DOMAIN regs : regs[r].on}

\* A Set has registrations that were added to it, and no others.
SetsSound == \A s \in DOMAIN sets : \A r \in sets[s] : r \in DOMAIN regs /\ regs[r].set = s

\* The table has the Set of exactly the registrations that stand; once the room is
\* disposed nobody is left to send a message.
TableSound ==
    /\ disposal # "disposed" => Standing = On
    /\ disposal = "disposed" => \A c \in Seat : seat[c] = "left"

\* Each task waits for the one before it.
Chained ==
    /\ tail = Len(task)
    /\ \A i \in DOMAIN task : task[i].after = i - 1

\* A task is only dropped by a room that is disposing.
Dropped == \A i \in DOMAIN task : task[i].state = "dropped" => disposal # "no"

\* The inductive invariant; NoneForgotten follows from it.
MessageInv == MessageType /\ SetsSound /\ TableSound /\ HandlersReached
              /\ Chained /\ Dropped /\ SerialInOrder

-----------------------------------------------------------------------------
(* The table of handlers.                                                  *)

\* What is in the type's Set are registrations, so finitely many.
LEMMA StandingFinite == ASSUME MessageType, SetsSound
  PROVE /\ Standing \subseteq DOMAIN regs
        /\ \A S \in SUBSET Standing : Cardinality(S) \in Nat
  <1>1. DOMAIN regs = 1..Len(regs) /\ Len(regs) \in Nat /\ DOMAIN sets = 1..Len(sets)
    BY DEF MessageType
  <1>2. Standing \subseteq DOMAIN regs
    BY <1>1 DEF Standing, SetsSound, MessageType
  <1>3. IsFiniteSet(1..Len(regs))
    BY <1>1, FS_Interval
  <1>4. ASSUME NEW S \in SUBSET Standing PROVE Cardinality(S) \in Nat
    <2>1. IsFiniteSet(S)
      BY <1>1, <1>2, <1>3, FS_Subset
    <2> QED BY <2>1, FS_CardinalityType
  <1> QED BY <1>2, <1>4

\* A new registration stands, in the type's Set.
LEMMA OnMessageStep == ASSUME MessageInv, NEW serial \in BOOLEAN, OnMessage(serial)
  PROVE MessageType' /\ SetsSound' /\ TableSound'
  <1> USE DEF MessageInv
  <1> DEFINE r == Len(regs) + 1
             s == IF table = 0 THEN Len(sets) + 1 ELSE table
             new == [set |-> s, serial |-> serial, on |-> TRUE]
  <1>1. /\ sets' = (IF table = 0 THEN Append(sets, {r}) ELSE [sets EXCEPT ![s] = @ \cup {r}])
        /\ table' = s /\ regs' = Append(regs, new)
        /\ UNCHANGED <<seat, disposal, task>>
    BY DEF OnMessage
  <1>2. /\ DOMAIN regs = 1..Len(regs) /\ Len(regs) \in Nat /\ Len(sets) \in Nat
        /\ DOMAIN sets = 1..Len(sets) /\ table \in 0..Len(sets) /\ s \in Nat \ {0}
        /\ sets \in Seq(SUBSET Nat) /\ regs \in Seq(Registrations)
    BY DEF MessageType
  <1>3. new \in Registrations /\ new.set = s /\ new.on
    BY <1>2 DEF Registrations
  <1> HIDE DEF new
  <1>4. /\ regs' \in Seq(Registrations) /\ DOMAIN regs' = 1..(Len(regs) + 1)
        /\ \A q \in 1..Len(regs) : regs'[q] = regs[q]
        /\ regs'[r] = new
    BY <1>1, <1>2, <1>3
  <1>5. /\ sets' \in Seq(SUBSET Nat) /\ Len(sets') \in Nat /\ DOMAIN sets' = 1..Len(sets')
        /\ s \in DOMAIN sets'
        /\ \A t \in DOMAIN sets' \ {s} : t \in DOMAIN sets /\ sets'[t] = sets[t]
        /\ sets'[s] = Standing \cup {r}
    <2>1. {r} \in SUBSET Nat
      BY <1>2
    <2>2. CASE table = 0
      BY <1>1, <1>2, <2>1, <2>2 DEF Standing
    <2>3. CASE table # 0
      <3>1. sets[table] \cup {r} \in SUBSET Nat /\ table \in 1..Len(sets)
        BY <1>2, <2>1, <2>3
      <3> QED BY <1>1, <1>2, <2>3, <3>1 DEF Standing
    <2> QED BY <2>2, <2>3
  <1>6. MessageType'
    BY <1>1, <1>2, <1>4, <1>5 DEF MessageType
  <1>7. SetsSound'
    <2>1. \A q \in Standing : q \in DOMAIN regs /\ regs[q].set = s
      BY <1>2 DEF Standing, SetsSound
    <2> QED BY <1>2, <1>3, <1>4, <1>5, <2>1 DEF SetsSound
  <1>8. TableSound'
    <2>1. On' = On \cup {r}
      BY <1>2, <1>3, <1>4 DEF On
    <2>2. Standing' = Standing \cup {r}
      BY <1>1, <1>2, <1>5 DEF Standing
    <2> QED BY <1>1, <2>1, <2>2 DEF TableSound
  <1> QED BY <1>6, <1>7, <1>8

\* Ending registrations takes them from their Sets, and an empty Set from the table.
LEMMA RegistrationsEnd ==
  ASSUME MessageInv, NEW gone \in SUBSET DOMAIN regs,
         UNCHANGED <<seat, disposal>>, task' \in Seq(Tasks),
         regs' \in Seq(Registrations), DOMAIN regs' = DOMAIN regs,
         \A r \in DOMAIN regs : regs'[r].set = regs[r].set /\ (regs'[r].on <=> regs[r].on /\ r \notin gone),
         sets' \in Seq(SUBSET Nat), DOMAIN sets' = DOMAIN sets,
         \A s \in DOMAIN sets : \A r : r \in sets'[s] <=> r \in sets[s] /\ r \notin gone,
         table' = table \/ (table # 0 /\ sets'[table] = {} /\ table' = 0)
  PROVE MessageType' /\ SetsSound' /\ TableSound'
  <1> USE DEF MessageInv
  <1>1. /\ DOMAIN sets = 1..Len(sets) /\ Len(sets) \in Nat /\ table \in 0..Len(sets)
        /\ Len(sets') = Len(sets)
    BY DEF MessageType
  <1>2. MessageType'
    BY <1>1 DEF MessageType
  <1>3. SetsSound'
    BY DEF SetsSound
  <1>4. On' = On \ gone
    BY DEF On
  <1>5. Standing' = Standing \ gone
    <2>1. CASE table = 0
      BY <2>1 DEF Standing
    <2>2. CASE table # 0
      <3>1. sets'[table] = sets[table] \ gone
        BY <1>1, <2>2
      <3> QED BY <2>2, <3>1 DEF Standing
    <2> QED BY <2>1, <2>2
  <1>6. TableSound'
    BY <1>4, <1>5 DEF TableSound
  <1> QED BY <1>2, <1>3, <1>6

\* An unsubscribe function ends its registration, or nothing when it was ended before.
LEMMA UnsubscribeStep == ASSUME MessageInv, NEW r \in DOMAIN regs, Unsubscribe(r)
  PROVE MessageType' /\ SetsSound' /\ TableSound'
  <1> DEFINE g == regs[r].set
  <1>1. /\ sets' = [sets EXCEPT ![g] = @ \ {r}]
        /\ table' = Emptied(g, sets') /\ regs' = [regs EXCEPT ![r].on = FALSE]
        /\ UNCHANGED <<seat, disposal, task>>
    BY DEF Unsubscribe
  <1>2. regs \in Seq(Registrations) /\ sets \in Seq(SUBSET Nat) /\ task \in Seq(Tasks)
    BY DEF MessageInv, MessageType
  <1>3. regs[r] \in Registrations
    BY <1>2
  <1>4. [regs[r] EXCEPT !.on = FALSE] \in Registrations
        /\ [regs[r] EXCEPT !.on = FALSE].set = g /\ ~[regs[r] EXCEPT !.on = FALSE].on
    BY <1>3 DEF Registrations
  <1>5. /\ regs' \in Seq(Registrations) /\ DOMAIN regs' = DOMAIN regs
        /\ \A q \in DOMAIN regs : regs'[q].set = regs[q].set /\ (regs'[q].on <=> regs[q].on /\ q \notin {r})
    <2>1. regs' = [regs EXCEPT ![r] = [regs[r] EXCEPT !.on = FALSE]]
      BY <1>1
    <2>2. regs' \in Seq(Registrations) /\ DOMAIN regs' = DOMAIN regs
      BY <1>2, <1>4, <2>1
    <2>3. \A q \in DOMAIN regs : regs'[q] = IF q = r THEN [regs[r] EXCEPT !.on = FALSE] ELSE regs[q]
      BY <1>2, <2>1
    <2> QED BY <1>4, <2>2, <2>3
  <1>6. /\ sets' \in Seq(SUBSET Nat) /\ DOMAIN sets' = DOMAIN sets
        /\ \A t \in DOMAIN sets : \A q : q \in sets'[t] <=> q \in sets[t] /\ q \notin {r}
    <2>1. ASSUME NEW t \in DOMAIN sets, r \in sets[t] PROVE t = g
      BY <2>1 DEF MessageInv, SetsSound
    <2>2. DOMAIN sets' = DOMAIN sets
      BY <1>1
    <2>3. \A t \in DOMAIN sets : sets'[t] = IF t = g THEN sets[t] \ {r} ELSE sets[t]
      BY <1>1
    <2>4. \A t \in DOMAIN sets : sets[t] \in SUBSET Nat
      BY <1>2
    <2>5. sets' \in Seq(SUBSET Nat)
      <3>1. CASE g \in DOMAIN sets
        <4>1. sets[g] \ {r} \in SUBSET Nat
          BY <2>4, <3>1
        <4> QED BY <1>1, <1>2, <3>1, <4>1
      <3>2. CASE g \notin DOMAIN sets
        <4>1. sets' = sets
          BY <1>1, <1>2, <3>2
        <4> QED BY <1>2, <4>1
      <3> QED BY <3>1, <3>2
    <2> QED BY <2>1, <2>2, <2>3, <2>5
  <1>7. table' = table \/ (table # 0 /\ sets'[table] = {} /\ table' = 0)
    BY <1>1 DEF Emptied
  <1>8. UNCHANGED <<seat, disposal>> /\ task' \in Seq(Tasks) /\ {r} \in SUBSET DOMAIN regs
    BY <1>1, <1>2
  <1> QED BY <1>5, <1>6, <1>7, <1>8, RegistrationsEnd

-----------------------------------------------------------------------------
(* The serial queue.                                                       *)

\* What enqueueing n tasks does to the queue.
LEMMA EnqueueEffect == ASSUME MessageType, Chained, NEW n \in Nat, Enqueue(n)
  PROVE /\ task' \in Seq(Tasks) /\ Len(task') = Len(task) + n
        /\ DOMAIN task' = 1..(Len(task) + n)
        /\ \A i \in DOMAIN task : task'[i] = task[i]
        /\ \A i \in DOMAIN task' \ DOMAIN task : task'[i].state = "queued" /\ task'[i].after = i - 1
        /\ tail' = Len(task')
  <1> DEFINE new == [i \in 1..n |-> [after |-> IF i = 1 THEN tail ELSE Len(task) + i - 1,
                                     state |-> "queued"]]
  <1>1. task \in Seq(Tasks) /\ Len(task) \in Nat /\ DOMAIN task = 1..Len(task) /\ tail = Len(task)
    BY DEF MessageType, Chained
  <1>2. \A i \in 1..n : new[i] = [after |-> Len(task) + i - 1, state |-> "queued"]
    BY <1>1
  <1>3. \A i \in 1..n : new[i] \in Tasks
    BY <1>1, <1>2 DEF Tasks
  <1>4. new \in Seq(Tasks) /\ Len(new) = n
    <2>1. new = [i \in 1..n |-> new[i]] /\ DOMAIN new = 1..n
      OBVIOUS
    <2> HIDE DEF new
    <2> QED BY <1>3, <2>1
  <1>5. task' = task \o new /\ tail' = IF n = 0 THEN tail ELSE Len(task) + n
    BY DEF Enqueue
  <1> HIDE DEF new
  <1>6. task' \in Seq(Tasks) /\ Len(task') = Len(task) + n
        /\ \A i \in 1..(Len(task) + n) : task'[i] = IF i <= Len(task) THEN task[i] ELSE new[i - Len(task)]
    BY <1>1, <1>4, <1>5, ConcatProperties
  <1>7. DOMAIN task' = 1..(Len(task) + n)
    BY <1>6
  <1>8. \A i \in DOMAIN task : task'[i] = task[i]
    BY <1>1, <1>6
  <1>9. ASSUME NEW i \in DOMAIN task' \ DOMAIN task
        PROVE task'[i].state = "queued" /\ task'[i].after = i - 1
    <2>1. i - Len(task) \in 1..n /\ ~(i <= Len(task)) /\ Len(task) + (i - Len(task)) - 1 = i - 1
      BY <1>1, <1>7
    <2>2. task'[i] = new[i - Len(task)]
      BY <1>6, <1>7, <2>1
    <2>3. new[i - Len(task)] = [after |-> Len(task) + (i - Len(task)) - 1, state |-> "queued"]
      BY <1>2, <2>1
    <2> QED BY <2>1, <2>2, <2>3
  <1>10. tail' = Len(task')
    BY <1>1, <1>5, <1>6
  <1> QED BY <1>6, <1>7, <1>8, <1>9, <1>10

\* Queued tasks leave the order of the others.
LEMMA EnqueueStep == ASSUME MessageInv, NEW n \in Nat, Enqueue(n), disposal' = disposal
  PROVE task' \in Seq(Tasks) /\ Chained' /\ Dropped' /\ SerialInOrder'
  <1>1. /\ task' \in Seq(Tasks) /\ Len(task') = Len(task) + n
        /\ DOMAIN task' = 1..(Len(task) + n)
        /\ \A i \in DOMAIN task : task'[i] = task[i]
        /\ \A i \in DOMAIN task' \ DOMAIN task : task'[i].state = "queued" /\ task'[i].after = i - 1
        /\ tail' = Len(task')
    BY EnqueueEffect DEF MessageInv
  <1>2. DOMAIN task = 1..Len(task) /\ Len(task) \in Nat
    BY DEF MessageInv, MessageType
  <1>3. Chained'
    BY <1>1 DEF MessageInv, Chained
  <1>4. Dropped'
    BY <1>1 DEF MessageInv, Dropped
  <1>5. SerialInOrder'
    <2> SUFFICES ASSUME NEW j \in DOMAIN task', task'[j].state # "queued", NEW i \in 1..(j - 1)
                 PROVE Settled(task'[i])
      BY DEF SerialInOrder, Settled
    <2>1. j \in DOMAIN task /\ task'[j] = task[j]
      BY <1>1
    <2>2. i \in DOMAIN task /\ task'[i] = task[i]
      BY <1>1, <1>2, <2>1
    <2>3. Settled(task[i])
      BY <2>1 DEF MessageInv, SerialInOrder
    <2> QED BY <2>2, <2>3
  <1> QED BY <1>1, <1>3, <1>4, <1>5

\* A task that changes state when all before it are settled leaves the others in order.
LEMMA TaskMoves ==
  ASSUME MessageInv, NEW i \in DOMAIN task, NEW x \in {"running", "done", "dropped"},
         task' = [task EXCEPT ![i].state = x], \A j \in 1..(i - 1) : Settled(task[j]),
         task[i].state \in {"queued", "running"},
         x = "running" => task[i].state = "queued", x = "dropped" => disposal # "no",
         UNCHANGED <<seat, disposal, sets, table, regs, called, due, tail>>
  PROVE MessageInv'
  <1> USE DEF MessageInv
  <1>1. task \in Seq(Tasks) /\ task[i] \in Tasks /\ DOMAIN task = 1..Len(task) /\ Len(task) \in Nat
    BY DEF MessageType
  <1>2. [task[i] EXCEPT !.state = x] \in Tasks /\ [task[i] EXCEPT !.state = x].state = x
        /\ [task[i] EXCEPT !.state = x].after = task[i].after
    BY <1>1 DEF Tasks
  <1>3. task' \in Seq(Tasks) /\ DOMAIN task' = DOMAIN task /\ Len(task') = Len(task)
        /\ \A j \in DOMAIN task : task'[j] = IF j = i THEN [task[i] EXCEPT !.state = x] ELSE task[j]
    <2>1. task' = [task EXCEPT ![i] = [task[i] EXCEPT !.state = x]]
      OBVIOUS
    <2> QED BY <1>1, <1>2, <2>1
  <1>4. MessageType' /\ SetsSound' /\ TableSound' /\ HandlersReached'
    BY <1>3 DEF MessageType, SetsSound, TableSound, HandlersReached, On, Standing
  <1>5. Chained' /\ Dropped'
    BY <1>2, <1>3 DEF Chained, Dropped
  <1>6. SerialInOrder'
    <2> SUFFICES ASSUME NEW j \in DOMAIN task, task'[j].state # "queued", NEW k \in 1..(j - 1)
                 PROVE Settled(task'[k])
      BY <1>3 DEF SerialInOrder, Settled
    <2>1. k \in DOMAIN task /\ k # j
      BY <1>1
    <2>2. CASE j = i
      BY <1>3, <2>1, <2>2
    <2>3. CASE j # i
      <3>1. task[j].state # "queued" /\ Settled(task[k])
        BY <1>3, <2>3 DEF SerialInOrder
      <3>2. CASE k # i
        BY <1>3, <2>1, <3>1, <3>2
      <3>3. CASE k = i
        <4>1. FALSE
          BY <3>1, <3>3 DEF Settled
        <4> QED BY <4>1
      <3> QED BY <3>2, <3>3
    <2> QED BY <2>2, <2>3
  <1> QED BY <1>4, <1>5, <1>6

\* A task that is called, or dropped, has every earlier one behind it.
LEMMA RunStep == ASSUME MessageInv, NEW i \in DOMAIN task, Run(i) PROVE MessageInv'
  <1>1. DOMAIN task = 1..Len(task) /\ Len(task) \in Nat /\ task[i].after = i - 1
    BY DEF MessageInv, MessageType, Chained
  <1>2. \A j \in 1..(i - 1) : Settled(task[j])
    <2> SUFFICES ASSUME NEW j \in 1..(i - 1) PROVE Settled(task[j])
      OBVIOUS
    <2>1. i - 1 \in DOMAIN task /\ i - 1 # 0
      BY <1>1
    <2>2. Settled(task[i - 1])
      BY <1>1, <2>1 DEF Run, Ready
    <2>3. CASE j = i - 1
      BY <2>2, <2>3
    <2>4. CASE j # i - 1
      <3>1. j \in 1..((i - 1) - 1)
        BY <1>1, <2>4
      <3>2. task[i - 1].state # "queued"
        BY <2>2 DEF Settled
      <3> QED BY <2>1, <3>1, <3>2 DEF MessageInv, SerialInOrder
    <2> QED BY <2>3, <2>4
  <1> DEFINE x == IF disposal = "no" THEN "running" ELSE "dropped"
  <1>3. /\ task' = [task EXCEPT ![i].state = x] /\ task[i].state = "queued"
        /\ UNCHANGED <<seat, disposal, sets, table, regs, called, due, tail>>
    BY DEF Run
  <1>4. x \in {"running", "done", "dropped"} /\ (x = "dropped" => disposal # "no")
    OBVIOUS
  <1> HIDE DEF x
  <1> QED BY <1>2, <1>3, <1>4, TaskMoves

\* A task that ends has been called in its turn.
LEMMA TaskEndsStep == ASSUME MessageInv, NEW i \in DOMAIN task, TaskEnds(i) PROVE MessageInv'
  <1>1. /\ task' = [task EXCEPT ![i].state = "done"] /\ task[i].state = "running"
        /\ UNCHANGED <<seat, disposal, sets, table, regs, called, due, tail>>
    BY DEF TaskEnds
  <1>2. \A j \in 1..(i - 1) : Settled(task[j])
    BY <1>1 DEF MessageInv, SerialInOrder
  <1> QED BY <1>1, <1>2, TaskMoves

-----------------------------------------------------------------------------
(* Messages.                                                               *)

\* A message calls the registrations that stand, and ends those its handlers end.
LEMMA ReceiveStep == ASSUME MessageInv, NEW c \in Seat, NEW quits \in SUBSET Standing,
                            Receive(c, quits)
  PROVE MessageInv'
  <1>0. MessageType /\ SetsSound /\ TableSound /\ HandlersReached
    BY DEF MessageInv
  <1>1. Standing \subseteq DOMAIN regs /\ Cardinality({r \in Standing : regs[r].serial}) \in Nat
    <2>1. {r \in Standing : regs[r].serial} \in SUBSET Standing
      OBVIOUS
    <2> QED BY <1>0, <2>1, StandingFinite
  <1>2. /\ task' \in Seq(Tasks) /\ Chained' /\ Dropped' /\ SerialInOrder'
    <2>1. Enqueue(Cardinality({r \in Standing : regs[r].serial})) /\ disposal' = disposal
      BY DEF Receive
    <2> QED BY <1>1, <2>1, EnqueueStep
  <1>3. HandlersReached'
    <2>1. disposal # "disposed"
      BY <1>0 DEF Receive, TableSound
    <2>2. Standing = {r \in DOMAIN regs : regs[r].on}
      BY <1>0, <2>1 DEF TableSound, On
    <2> QED BY <1>0, <2>2 DEF Receive, HandlersReached
  <1>4. /\ regs' = [r \in DOMAIN regs |-> [regs[r] EXCEPT !.on = @ /\ r \notin quits]]
        /\ sets' = [s \in DOMAIN sets |-> sets[s] \ quits]
        /\ table' = (IF table # 0 /\ sets'[table] = {} THEN 0 ELSE table)
        /\ UNCHANGED <<seat, disposal>>
    BY DEF Receive
  <1>5. /\ regs \in Seq(Registrations) /\ DOMAIN regs = 1..Len(regs) /\ Len(regs) \in Nat
        /\ sets \in Seq(SUBSET Nat) /\ DOMAIN sets = 1..Len(sets) /\ Len(sets) \in Nat
    BY <1>0 DEF MessageType
  <1>6. /\ regs' \in Seq(Registrations) /\ DOMAIN regs' = DOMAIN regs
        /\ \A r \in DOMAIN regs : regs'[r].set = regs[r].set
                                  /\ (regs'[r].on <=> regs[r].on /\ r \notin quits)
    <2>1. ASSUME NEW r \in DOMAIN regs
          PROVE /\ regs'[r] \in Registrations /\ regs'[r].set = regs[r].set
                /\ (regs'[r].on <=> regs[r].on /\ r \notin quits)
      <3>1. regs[r] \in Registrations /\ regs'[r] = [regs[r] EXCEPT !.on = @ /\ r \notin quits]
        BY <1>4, <1>5
      <3> QED BY <3>1 DEF Registrations
    <2>2. DOMAIN regs' = 1..Len(regs) /\ regs' = [r \in 1..Len(regs) |-> regs'[r]]
      BY <1>4, <1>5
    <2>3. regs' \in Seq(Registrations)
      BY <1>5, <2>1, <2>2
    <2> QED BY <1>5, <2>1, <2>2, <2>3
  <1>7. /\ sets' \in Seq(SUBSET Nat) /\ DOMAIN sets' = DOMAIN sets
        /\ \A s \in DOMAIN sets : \A r : r \in sets'[s] <=> r \in sets[s] /\ r \notin quits
    <2>1. \A s \in DOMAIN sets : sets[s] \ quits \in SUBSET Nat
      BY <1>5
    <2>2. sets' \in Seq(SUBSET Nat)
      BY <1>4, <1>5, <2>1
    <2> QED BY <1>4, <2>2
  <1>8. MessageType' /\ SetsSound' /\ TableSound'
    <2>1. quits \in SUBSET DOMAIN regs
      BY <1>1
    <2>2. table' = table \/ (table # 0 /\ sets'[table] = {} /\ table' = 0)
      BY <1>4
    <2> QED BY <1>2, <1>4, <1>6, <1>7, <2>1, <2>2, RegistrationsEnd
  <1> QED BY <1>2, <1>3, <1>8 DEF MessageInv

-----------------------------------------------------------------------------
(* The invariant.                                                          *)

\* At first there are no handlers and no tasks.
LEMMA MessageInvInit == ASSUME MessageInit PROVE MessageInv
  <1>1. DOMAIN sets = {} /\ DOMAIN regs = {} /\ DOMAIN task = {} /\ Len(task) = 0 /\ Len(sets) = 0
    BY DEF MessageInit
  <1>2. MessageType
    BY <1>1 DEF MessageInit, MessageType
  <1>3. SetsSound /\ TableSound /\ HandlersReached
    BY <1>1 DEF MessageInit, SetsSound, TableSound, HandlersReached, Standing, On
  <1>4. Chained /\ Dropped /\ SerialInOrder
    BY <1>1 DEF MessageInit, Chained, Dropped, SerialInOrder
  <1> QED BY <1>2, <1>3, <1>4 DEF MessageInv

\* Every step keeps the invariant.
LEMMA MessageInvNext == ASSUME MessageInv, [MessageNext]_messageVars PROVE MessageInv'
  <1>1. ASSUME NEW serial \in BOOLEAN, OnMessage(serial) PROVE MessageInv'
    <2>1. UNCHANGED <<disposal, called, due, task, tail>>
      BY <1>1 DEF OnMessage
    <2>2. MessageType' /\ SetsSound' /\ TableSound'
      BY <1>1, OnMessageStep
    <2> QED BY <2>1, <2>2 DEF MessageInv, HandlersReached, Chained, Dropped, SerialInOrder, Settled
  <1>2. CASE Off
    <2>1. PICK r \in DOMAIN regs : Unsubscribe(r)
      BY <1>2 DEF Off
    <2>2. UNCHANGED <<disposal, called, due, task, tail>>
      BY <2>1 DEF Unsubscribe
    <2>3. MessageType' /\ SetsSound' /\ TableSound'
      BY <2>1, UnsubscribeStep
    <2> QED BY <2>2, <2>3 DEF MessageInv, HandlersReached, Chained, Dropped, SerialInOrder, Settled
  <1>3. CASE Serial
    <2>1. Enqueue(1) /\ UNCHANGED <<seat, disposal, sets, table, regs, called, due>>
      BY <1>3 DEF Serial
    <2>2. task' \in Seq(Tasks) /\ Chained' /\ Dropped' /\ SerialInOrder'
      BY <2>1, EnqueueStep
    <2> QED BY <2>1, <2>2 DEF MessageInv, MessageType, SetsSound, TableSound, HandlersReached,
                              On, Standing
  <1>4. CASE RunNext \/ TaskEnd
    BY <1>4, RunStep, TaskEndsStep DEF RunNext, TaskEnd
  <1>5. CASE ReceiveMessage
    BY <1>5, ReceiveStep DEF ReceiveMessage
  <1>6. CASE SeatStep
    <2>1. PICK c \in Seat : Violation(c) \/ SeatMoves(c)
      BY <1>6 DEF SeatStep
    <2>2. UNCHANGED <<disposal, sets, table, regs, called, due, task, tail>>
      BY <2>1 DEF Violation, SeatMoves
    <2>3. seat' \in [Seat -> {"joined", "away", "left"}]
      BY <2>1 DEF Violation, SeatMoves, MessageInv, MessageType
    <2>4. disposal = "disposed" => \A d \in Seat : seat'[d] = "left"
      BY <2>1 DEF Violation, SeatMoves, MessageInv, MessageType, TableSound
    <2> QED BY <2>2, <2>3, <2>4 DEF MessageInv, MessageType, SetsSound, TableSound, HandlersReached,
                                    On, Standing, Chained, Dropped, SerialInOrder, Settled
  <1>7. CASE Dispose
    <2>1. /\ disposal = "no" /\ disposal' = "closing"
          /\ UNCHANGED <<seat, sets, table, regs, called, due, task, tail>>
      BY <1>7 DEF Dispose
    <2> QED BY <2>1 DEF MessageInv, MessageType, SetsSound, TableSound, HandlersReached,
                        On, Standing, Chained, Dropped, SerialInOrder, Settled
  <1>8. CASE Disposed
    <2>1. /\ disposal' = "disposed" /\ table' = 0 /\ \A c \in Seat : seat[c] = "left"
          /\ UNCHANGED <<seat, sets, regs, called, due, task, tail>>
      BY <1>8 DEF Disposed
    <2>2. Len(sets) \in Nat
      BY DEF MessageInv, MessageType
    <2>3. MessageType'
      BY <2>1, <2>2 DEF MessageInv, MessageType
    <2> QED BY <2>1, <2>3 DEF MessageInv, SetsSound, TableSound, HandlersReached,
                              Chained, Dropped, SerialInOrder, Settled
  <1>9. CASE UNCHANGED messageVars
    BY <1>9 DEF messageVars, MessageInv, MessageType, SetsSound, TableSound, HandlersReached,
                On, Standing, Chained, Dropped, SerialInOrder, Settled
  <1> QED BY <1>1, <1>2, <1>3, <1>4, <1>5, <1>6, <1>7, <1>8, <1>9 DEF MessageNext

\* A set of naturals that is not empty has a least member.
LEMMA LeastNatural == ASSUME NEW T \in SUBSET Nat, T # {}
  PROVE \E x \in T : \A y \in T : ~(y < x)
  <1>1. PICK x \in T : \A y \in T : ~(<<y, x>> \in OpToRel(<, Nat))
    BY WFMin, NatLessThanWellFounded
  <1>2. ASSUME NEW y \in T, y < x PROVE FALSE
    <2>1. <<y, x>> \in OpToRel(<, Nat)
      BY <1>2 DEF OpToRel
    <2> QED BY <1>1, <2>1
  <1> QED BY <1>2

\* The first task of a queue that has not settled runs, or waits for nothing: no task
\* is forgotten.
LEMMA FirstCanGoOn == ASSUME MessageInv PROVE NoneForgotten
  <1> SUFFICES ASSUME NEW j \in DOMAIN task, task[j].state = "queued"
               PROVE \E i \in 1..j : \/ task[i].state = "running"
                                     \/ task[i].state = "queued" /\ Ready(i)
    BY DEF NoneForgotten, MessageInv, Dropped
  <1>1. DOMAIN task = 1..Len(task) /\ Len(task) \in Nat /\ task \in Seq(Tasks)
    BY DEF MessageInv, MessageType
  <1> DEFINE T == {i \in 1..j : ~Settled(task[i])}
  <1>2. j \in T /\ T \in SUBSET Nat
    BY <1>1 DEF Settled
  <1>3. PICK i \in T : \A y \in T : ~(y < i)
    BY <1>2, LeastNatural
  <1>4. i \in 1..j /\ i \in DOMAIN task /\ ~Settled(task[i])
    BY <1>1, <1>3
  <1>5. task[i].state \in {"running", "queued"}
    <2>1. task[i] \in Tasks
      BY <1>1, <1>4
    <2> QED BY <1>4, <2>1 DEF Settled, Tasks
  <1>6. Ready(i)
    <2>1. task[i].after = i - 1
      BY <1>4 DEF MessageInv, Chained
    <2>2. i - 1 # 0 => Settled(task[i - 1])
      <3> SUFFICES ASSUME i - 1 # 0, ~Settled(task[i - 1]) PROVE FALSE
        OBVIOUS
      <3>1. i - 1 \in 1..j /\ i - 1 < i
        BY <1>1, <1>4
      <3> QED BY <1>3, <3>1
    <2> QED BY <2>1, <2>2 DEF Ready
  <1> QED BY <1>4, <1>5, <1>6

\* A message calls exactly the registrations that stand, a serial task starts when every
\* earlier one has ended, a task is dropped only by a disposing room, and a waiting task
\* always has one before it, or itself, that can go on (room.ts onMessage, _dispatch and
\* _enqueue).
THEOREM MessagesAreSound == MessageSpec => []RoomMessagesSound
  <1>1. MessageInit => MessageInv
    BY MessageInvInit
  <1>2. MessageInv /\ [MessageNext]_messageVars => MessageInv'
    BY MessageInvNext
  <1>3. MessageInv => RoomMessagesSound
    BY FirstCanGoOn DEF RoomMessagesSound, MessageInv
  <1> QED BY <1>1, <1>2, <1>3, PTL DEF MessageSpec

=============================================================================
