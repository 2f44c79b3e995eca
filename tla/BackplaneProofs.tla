---------------------------- MODULE BackplaneProofs ----------------------------
(***************************************************************************)
(* What a subscription through RedisBackplane is worth, for any number of  *)
(* callbacks and commands.  The proofs are about an application that waits *)
(* for unsubscribe() before it subscribes again (~Overlap): when it does   *)
(* not, the UNSUBSCRIBE may reach Redis after the new SUBSCRIBE and end    *)
(* the channel for callbacks whose subscribe() resolved.                   *)
(***************************************************************************)
EXTENDS Backplane, SequenceTheorems, TLAPS

\* A command sent to Redis.
Commands == [op : {"SUBSCRIBE", "UNSUBSCRIBE"}, id : Nat]

\* The tables of the backplane and the commands it sends.
BackplaneType ==
    /\ callbacks \subseteq Callback
    /\ promise \in Seq({"pending", "ok", "failed"})
    /\ subscribed \in 0 .. Len(promise)
    /\ commands \in Seq(Commands)
    /\ redis \in BOOLEAN /\ leftOn \in BOOLEAN /\ shut \in BOOLEAN
    /\ call \in [Callback -> {"idle", "waiting", "ok", "failed", "void"}]
    /\ awaits \in [Callback -> 0 .. Len(promise)]
    /\ leaving \in {"idle", "waiting", "sent", "done", "failed"}
    /\ leavingFor \in 0 .. Len(promise)

\* A call waits for a SUBSCRIBE that was sent, and resolves the way it did.
CallsSettle ==
    /\ \A c \in Callback : call[c] # "idle" => awaits[c] # 0
    /\ \A c \in Callback : call[c] = "ok" => promise[awaits[c]] = "ok"

\* An unsubscribe() under way took the map entry: it waits for that SUBSCRIBE.
LeavesAlone ==
    /\ leaving \in {"waiting", "sent"} => subscribed = 0
    /\ leaving = "waiting" => leavingFor # 0

\* The SUBSCRIBE that the backplane counts on: the one in the map, or the one an
\* unsubscribe() waits for.
Counted(i) == i # 0 /\ (subscribed = i \/ (leaving = "waiting" /\ leavingFor = i))

\* One command is in flight at most: the SUBSCRIBE that is pending, or the
\* UNSUBSCRIBE of the unsubscribe() that sent it.
OneInFlight ==
    ~shut =>
      /\ Len(commands) <= 1
      /\ commands # <<>> =>
            IF commands[1].op = "SUBSCRIBE"
            THEN promise[commands[1].id] = "pending" /\ Counted(commands[1].id)
            ELSE leaving = "sent"
      /\ \A i \in 1 .. Len(promise) :
            promise[i] = "pending" => commands # <<>> /\ commands[1] = [op |-> "SUBSCRIBE", id |-> i]
      /\ leaving = "sent" => commands # <<>> /\ commands[1].op = "UNSUBSCRIBE"

\* Redis delivers the channel exactly as long as a SUBSCRIBE that succeeded counts,
\* its UNSUBSCRIBE is on the way, or the last UNSUBSCRIBE failed.
Delivered ==
    /\ shut => ~redis /\ subscribed = 0
    /\ ~shut => (redis <=> \/ leaving = "sent" \/ leftOn
                           \/ \E i \in 1 .. Len(promise) : Counted(i) /\ promise[i] = "ok")

\* The callbacks in the table: those whose subscribe() waits, or resolved ok for the
\* SUBSCRIBE in the map.
Registered ==
    /\ \A c \in callbacks :
          \/ call[c] \in {"waiting", "ok"} /\ awaits[c] = subscribed
          \/ call[c] = "waiting" /\ promise[awaits[c]] = "failed"
    /\ \A c \in Callback :
          call[c] \in {"waiting", "ok"} /\ awaits[c] = subscribed => c \in callbacks

\* The inductive invariant.
BackplaneInv ==
    BackplaneType /\ CallsSettle /\ LeavesAlone /\ OneInFlight /\ Delivered /\ Registered

-----------------------------------------------------------------------------

\* subscribe, up to its await: the callback is registered and, when the map is empty, the
\* only command in flight is its SUBSCRIBE.
LEMMA SubscribeKeeps ==
    ASSUME BackplaneInv, ~Overlap, Subscribe
    PROVE  BackplaneInv'
<1>1. BackplaneType'
  <2> DEFINE id == IF subscribed = 0 THEN Len(promise) + 1 ELSE subscribed
             first == subscribed = 0
  <2>1. PICK c \in Callback :
           /\ callbacks' = callbacks \cup {c}
           /\ subscribed' = id
           /\ promise' = IF first THEN Append(promise, "pending") ELSE promise
           /\ commands' = IF first THEN Append(commands, [op |-> "SUBSCRIBE", id |-> id]) ELSE commands
           /\ call' = [call EXCEPT ![c] = "waiting"]
           /\ awaits' = [awaits EXCEPT ![c] = id]
           /\ UNCHANGED <<redis, leaving, leavingFor, leftOn, shut>>
    BY DEF Subscribe
  <2>2. Len(promise) \in Nat /\ Len(promise') \in Nat /\ Len(promise) <= Len(promise')
           /\ id \in 1 .. Len(promise') /\ promise' \in Seq({"pending", "ok", "failed"})
    BY <2>1 DEF BackplaneInv, BackplaneType
  <2>3. [op |-> "SUBSCRIBE", id |-> id] \in Commands
    BY <2>2 DEF Commands
  <2>4. commands' \in Seq(Commands)
    BY <2>1, <2>3 DEF BackplaneInv, BackplaneType
  <2>5. subscribed' \in 0 .. Len(promise') /\ awaits' \in [Callback -> 0 .. Len(promise')]
           /\ leavingFor' \in 0 .. Len(promise') /\ callbacks' \subseteq Callback
           /\ call' \in [Callback -> {"idle", "waiting", "ok", "failed", "void"}]
    BY <2>1, <2>2 DEF BackplaneInv, BackplaneType
  <2>6. redis' \in BOOLEAN /\ leftOn' \in BOOLEAN /\ shut' \in BOOLEAN /\ leaving' \in {"idle", "waiting", "sent", "done", "failed"}
    BY <2>1 DEF BackplaneInv, BackplaneType
  <2> QED  BY <2>2, <2>4, <2>5, <2>6 DEF BackplaneType
<1>2. CallsSettle'
  BY DEF BackplaneInv, BackplaneType, CallsSettle, Subscribe
<1>3. LeavesAlone'
  BY DEF LeavesAlone, Resolved, Subscribe
<1>4. OneInFlight'
  BY DEF BackplaneInv, OneInFlight, Registered, Counted, Resolved, Subscribe
<1>5. Delivered'
  BY DEF BackplaneInv, Delivered, Counted, Resolved, Subscribe
<1>6. Registered'
  BY DEF BackplaneInv, BackplaneType, CallsSettle, Registered, Subscribe
<1> QED  BY <1>1, <1>2, <1>3, <1>4, <1>5, <1>6 DEF BackplaneInv

\* subscribe, after its await: a failure empties the map only of its own SUBSCRIBE.
LEMMA ResumedKeeps ==
    ASSUME BackplaneInv, Resumed
    PROVE  BackplaneInv'
<1>1. BackplaneType'
  BY DEF BackplaneInv, BackplaneType, CallsSettle, Resumed
<1>2. CallsSettle'
  BY DEF BackplaneInv, CallsSettle, Resumed
<1>3. LeavesAlone'
  BY DEF BackplaneInv, LeavesAlone, Resumed
<1>4. OneInFlight'
  BY DEF BackplaneInv, OneInFlight, Counted, Resumed
<1>5. Delivered'
  BY DEF BackplaneInv, Delivered, Counted, Resumed
<1>6. Registered'
  <2>1. PICK c \in Callback :
           /\ call[c] = "waiting"
           /\ promise[awaits[c]] # "pending"
           /\ call' = [call EXCEPT ![c] = promise[awaits[c]]]
           /\ IF promise[awaits[c]] = "failed"
              THEN /\ callbacks' = callbacks \ {c}
                   /\ subscribed' = IF subscribed = awaits[c] THEN 0 ELSE subscribed
              ELSE UNCHANGED <<callbacks, subscribed>>
           /\ UNCHANGED <<promise, awaits>>
    BY DEF Resumed
  <2>2. awaits[c] \in 1 .. Len(promise) /\ promise[awaits[c]] \in {"ok", "failed"}
    BY <2>1 DEF BackplaneInv, BackplaneType, CallsSettle
  <2>3. \A d \in Callback : d # c => call'[d] = call[d]
    BY <2>1 DEF BackplaneInv, BackplaneType
  <2>4. call'[c] = promise[awaits[c]]
    BY <2>1 DEF BackplaneInv, BackplaneType
  <2>5. CASE promise[awaits[c]] = "ok"
    BY <2>1, <2>2, <2>3, <2>4, <2>5 DEF BackplaneInv, BackplaneType, Registered
  <2>6. CASE promise[awaits[c]] = "failed"
    <3>1. \A d \in Callback : call[d] = "ok" => awaits[d] # awaits[c]
      BY <2>6 DEF BackplaneInv, CallsSettle
    <3>2. \A d \in Callback : call[d] \in {"waiting", "ok"} => awaits[d] # 0
      BY DEF BackplaneInv, CallsSettle
    <3>3. CASE subscribed = awaits[c]
      BY <2>1, <2>2, <2>3, <2>4, <2>6, <3>1, <3>2, <3>3 DEF BackplaneInv, BackplaneType, Registered
    <3>4. CASE subscribed # awaits[c]
      BY <2>1, <2>2, <2>3, <2>4, <2>6, <3>4 DEF BackplaneInv, BackplaneType, Registered
    <3> QED  BY <3>3, <3>4
  <2> QED  BY <2>2, <2>5, <2>6
<1> QED  BY <1>1, <1>2, <1>3, <1>4, <1>5, <1>6 DEF BackplaneInv

\* unsubscribe takes over the SUBSCRIBE of the map.
LEMMA UnsubscribeKeeps ==
    ASSUME BackplaneInv, Unsubscribe
    PROVE  BackplaneInv'
<1>1. BackplaneType'
  BY DEF BackplaneInv, BackplaneType, Unsubscribe
<1>2. CallsSettle'
  BY DEF BackplaneInv, CallsSettle, Unsubscribe
<1>3. LeavesAlone'
  BY DEF LeavesAlone, Resolved, Unsubscribe
<1>4. OneInFlight'
  BY DEF BackplaneInv, OneInFlight, Counted, Resolved, Unsubscribe
<1>5. Delivered'
  BY DEF BackplaneInv, Delivered, Counted, Resolved, Unsubscribe
<1>6. Registered'
  BY DEF BackplaneInv, CallsSettle, Registered, Unsubscribe
<1> QED  BY <1>1, <1>2, <1>3, <1>4, <1>5, <1>6 DEF BackplaneInv

\* unsubscribe sends its command when nothing else is in flight.
LEMMA UnsubscribeGoesOnKeeps ==
    ASSUME BackplaneInv, UnsubscribeGoesOn
    PROVE  BackplaneInv'
<1>1. BackplaneType'
  <2>1. [op |-> "UNSUBSCRIBE", id |-> leavingFor] \in Commands
    BY DEF BackplaneInv, BackplaneType, Commands
  <2>2. commands \in Seq(Commands)
    BY DEF BackplaneInv, BackplaneType
  <2>3. commands' = commands \/ commands' = Append(commands, [op |-> "UNSUBSCRIBE", id |-> leavingFor])
    BY DEF UnsubscribeGoesOn
  <2>4. commands' \in Seq(Commands)
    BY <2>1, <2>2, <2>3
  <2> QED  BY <2>4 DEF BackplaneInv, BackplaneType, UnsubscribeGoesOn
<1>2. CallsSettle'
  BY DEF BackplaneInv, CallsSettle, UnsubscribeGoesOn
<1>3. LeavesAlone'
  BY DEF BackplaneInv, LeavesAlone, UnsubscribeGoesOn
<1>4. OneInFlight'
  BY DEF BackplaneInv, LeavesAlone, OneInFlight, Counted, UnsubscribeGoesOn
<1>5. Delivered'
  BY DEF BackplaneInv, BackplaneType, LeavesAlone, Delivered, Counted, UnsubscribeGoesOn
<1>6. Registered'
  BY DEF BackplaneInv, Registered, UnsubscribeGoesOn
<1> QED  BY <1>1, <1>2, <1>3, <1>4, <1>5, <1>6 DEF BackplaneInv

\* The command that Redis answers is the only one in flight.
LEMMA AnswersTheOnly ==
    ASSUME BackplaneInv, NEW op, Answers(op)
    PROVE  /\ Head(commands) = commands[1] /\ commands[1].op = op
           /\ commands' = <<>> /\ Len(commands') = 0
<1>1. commands \in Seq(Commands) /\ Len(commands) <= 1 /\ commands # <<>>
  BY DEF BackplaneInv, BackplaneType, OneInFlight, Answers
<1>2. Len(commands) = 1
  <2>1. Len(commands) \in Nat \ {0}
    BY <1>1, EmptySeq
  <2>2. Len(commands) <= 1
    BY <1>1
  <2>3. \A n \in Nat \ {0} : n <= 1 => n = 1
    OBVIOUS
  <2> QED  BY <2>1, <2>2, <2>3, Zenon
<1>3. Head(commands) = commands[1]
  BY <1>1
<1>4. Len(Tail(commands)) = 0 /\ Tail(commands) \in Seq(Commands)
  BY <1>1, <1>2
<1> QED  BY <1>3, <1>4, EmptySeq DEF Answers

\* Redis answers the SUBSCRIBE that is pending: it counts, and no UNSUBSCRIBE is in flight.
LEMMA RedisSubscribesKeeps ==
    ASSUME BackplaneInv, RedisSubscribes
    PROVE  BackplaneInv'
<1> DEFINE id == commands[1].id
<1>1. PICK ok \in BOOLEAN :
         /\ Answers("SUBSCRIBE")
         /\ redis' = (redis \/ ok)
         /\ promise' = [promise EXCEPT ![Head(commands).id] = IF ok THEN "ok" ELSE "failed"]
         /\ UNCHANGED <<leaving, leftOn>>
  BY DEF RedisSubscribes
<1>2. Head(commands) = commands[1] /\ commands[1].op = "SUBSCRIBE" /\ commands' = <<>> /\ Len(commands') = 0
  BY <1>1, AnswersTheOnly
<1>3. /\ ~shut /\ commands # <<>>
      /\ UNCHANGED <<callbacks, subscribed, call, awaits, leavingFor, shut>>
  BY <1>1 DEF Answers
<1>4. id \in 1 .. Len(promise) /\ promise[id] = "pending" /\ Counted(id) /\ leaving # "sent"
  BY <1>2, <1>3 DEF BackplaneInv, BackplaneType, OneInFlight, Counted
<1>5. promise' \in Seq({"pending", "ok", "failed"}) /\ Len(promise') = Len(promise)
  <2>1. promise \in Seq({"pending", "ok", "failed"})
    BY DEF BackplaneInv, BackplaneType
  <2> QED  BY <1>1, <1>2, <1>4, <2>1, ExceptSeq, SMTT(30)
<1>6. /\ promise'[id] = IF ok THEN "ok" ELSE "failed"
      /\ \A i \in 1 .. Len(promise) : i # id => promise'[i] = promise[i]
  BY <1>1, <1>2, <1>4 DEF BackplaneInv, BackplaneType
<1>7. BackplaneType'
  <2>1. commands' \in Seq(Commands)
    BY <1>2
  <2>2. redis' \in BOOLEAN /\ leftOn' \in BOOLEAN /\ shut' \in BOOLEAN
    BY <1>1, <1>3 DEF BackplaneInv, BackplaneType
  <2> QED  BY <1>1, <1>3, <1>5, <2>1, <2>2 DEF BackplaneInv, BackplaneType
<1>8. CallsSettle'
  BY <1>3, <1>4, <1>6 DEF BackplaneInv, BackplaneType, CallsSettle
<1>9. LeavesAlone'
  BY <1>1, <1>3 DEF BackplaneInv, LeavesAlone
<1>10. OneInFlight'
  <2>1. \A i \in 1 .. Len(promise) : promise[i] = "pending" => commands[1] = [op |-> "SUBSCRIBE", id |-> i]
    BY <1>3 DEF BackplaneInv, OneInFlight
  <2>2. \A i \in 1 .. Len(promise') : promise'[i] # "pending"
    <3>1. \A i : [op |-> "SUBSCRIBE", id |-> i].id = i
      OBVIOUS
    <3>2. \A i \in 1 .. Len(promise) : i # id => promise[i] # "pending"
      BY <2>1, <3>1, Zenon
    <3> QED  BY <1>5, <1>6, <3>2
  <2> QED  BY <1>1, <1>2, <1>4, <2>2 DEF OneInFlight
<1>11. Delivered'
  BY <1>1, <1>3, <1>4, <1>5, <1>6 DEF BackplaneInv, BackplaneType, LeavesAlone, Delivered, Counted
<1>12. Registered'
  BY <1>3, <1>4, <1>6 DEF BackplaneInv, BackplaneType, CallsSettle, Registered
<1> QED  BY <1>7, <1>8, <1>9, <1>10, <1>11, <1>12 DEF BackplaneInv

\* Redis answers the UNSUBSCRIBE: it delivers on exactly when that failed.
LEMMA RedisUnsubscribesKeeps ==
    ASSUME BackplaneInv, RedisUnsubscribes
    PROVE  BackplaneInv'
<1>1. PICK ok \in BOOLEAN :
         /\ Answers("UNSUBSCRIBE")
         /\ redis' = (redis /\ ~ok)
         /\ leaving' = IF ok THEN "done" ELSE "failed"
         /\ leftOn' = ~ok
         /\ UNCHANGED promise
  BY DEF RedisUnsubscribes
<1>2. commands[1].op = "UNSUBSCRIBE" /\ commands' = <<>> /\ Len(commands') = 0
  BY <1>1, AnswersTheOnly
<1>3. /\ ~shut /\ commands # <<>>
      /\ UNCHANGED <<callbacks, subscribed, call, awaits, leavingFor, shut>>
  BY <1>1 DEF Answers
<1>4. leaving = "sent" /\ redis
  BY <1>2, <1>3 DEF BackplaneInv, OneInFlight, Delivered
<1>5. BackplaneType'
  <2>1. commands' \in Seq(Commands)
    BY <1>2
  <2>2. redis' \in BOOLEAN /\ leftOn' \in BOOLEAN /\ shut' \in BOOLEAN
    BY <1>1, <1>3 DEF BackplaneInv, BackplaneType
  <2> QED  BY <1>1, <1>3, <2>1, <2>2 DEF BackplaneInv, BackplaneType
<1>6. CallsSettle'
  BY <1>1, <1>3 DEF BackplaneInv, CallsSettle
<1>7. LeavesAlone'
  BY <1>1 DEF LeavesAlone
<1>8. OneInFlight'
  <2>1. \A i \in 1 .. Len(promise) : promise[i] = "pending" => commands[1] = [op |-> "SUBSCRIBE", id |-> i]
    BY <1>3 DEF BackplaneInv, OneInFlight
  <2>2. \A i \in 1 .. Len(promise) : promise[i] # "pending"
    <3>1. \A i : [op |-> "SUBSCRIBE", id |-> i].op # "UNSUBSCRIBE"
      OBVIOUS
    <3> QED  BY <1>2, <2>1, <3>1, Zenon
  <2> QED  BY <1>1, <1>2, <2>2 DEF OneInFlight
<1>9. Delivered'
  BY <1>1, <1>3, <1>4 DEF BackplaneInv, LeavesAlone, Delivered, Counted
<1>10. Registered'
  BY <1>1, <1>3 DEF BackplaneInv, Registered
<1> QED  BY <1>5, <1>6, <1>7, <1>8, <1>9, <1>10 DEF BackplaneInv

\* close ends everything in flight.
LEMMA BackplaneClosesKeeps ==
    ASSUME BackplaneInv, BackplaneCloses
    PROVE  BackplaneInv'
<1>1. BackplaneType'
  <2>1. promise' \in Seq({"pending", "ok", "failed"}) /\ Len(promise') = Len(promise)
    <3>1. /\ Len(promise) \in Nat /\ DOMAIN promise = 1 .. Len(promise)
          /\ \A i \in 1 .. Len(promise) : promise[i] \in {"pending", "ok", "failed"}
      BY DEF BackplaneInv, BackplaneType
    <3>2. promise' = [i \in 1 .. Len(promise) |-> IF promise[i] = "pending" THEN "failed" ELSE promise[i]]
      BY <3>1 DEF BackplaneCloses
    <3> QED  BY <3>1, <3>2
  <2>2. commands' \in Seq(Commands)
    BY DEF BackplaneCloses
  <2>3. redis' \in BOOLEAN /\ leftOn' \in BOOLEAN /\ shut' \in BOOLEAN
    BY DEF BackplaneCloses
  <2> QED  BY <2>1, <2>2, <2>3 DEF BackplaneInv, BackplaneType, BackplaneCloses
<1>2. CallsSettle'
  BY DEF BackplaneInv, CallsSettle, BackplaneCloses
<1>3. LeavesAlone'
  BY DEF BackplaneInv, LeavesAlone, BackplaneCloses
<1>4. OneInFlight'
  BY DEF OneInFlight, BackplaneCloses
<1>5. Delivered'
  BY DEF Delivered, BackplaneCloses
<1>6. Registered'
  BY DEF BackplaneInv, CallsSettle, Registered, BackplaneCloses
<1> QED  BY <1>1, <1>2, <1>3, <1>4, <1>5, <1>6 DEF BackplaneInv

\* What the backplane owes the cluster: a subscribe() that resolved ok is served until
\* the next unsubscribe() or close(); and once unsubscribe() resolved, which wins over the
\* SUBSCRIBEs in flight, nothing reaches the application, and Redis delivers on only if an
\* UNSUBSCRIBE failed (RedisBackplane.subscribe, unsubscribe, close).  Nothing subscribes
\* while an unsubscribe() has yet to resolve.
THEOREM SubscriptionsAreSound ==
    ASSUME ~Overlap
    PROVE  BackplaneSpec => []BackplaneSound
<1>1. BackplaneInit => BackplaneInv
  <2> SUFFICES ASSUME BackplaneInit PROVE BackplaneInv
    OBVIOUS
  <2>1. Len(promise) = 0 /\ Len(commands) = 0
    BY DEF BackplaneInit
  <2>2. BackplaneType
    <3>1. promise \in Seq({"pending", "ok", "failed"}) /\ commands \in Seq(Commands)
      BY DEF BackplaneInit
    <3>2. redis \in BOOLEAN /\ leftOn \in BOOLEAN /\ shut \in BOOLEAN
      BY DEF BackplaneInit
    <3>3. /\ callbacks \subseteq Callback /\ subscribed \in 0 .. 0 /\ leavingFor \in 0 .. 0
          /\ call \in [Callback -> {"idle", "waiting", "ok", "failed", "void"}]
          /\ awaits \in [Callback -> 0 .. 0]
          /\ leaving \in {"idle", "waiting", "sent", "done", "failed"}
      BY DEF BackplaneInit
    <3> QED  BY <2>1, <3>1, <3>2, <3>3 DEF BackplaneType
  <2>3. CallsSettle /\ LeavesAlone /\ Registered
    BY DEF BackplaneInit, CallsSettle, LeavesAlone, Registered
  <2>4. OneInFlight
    BY <2>1 DEF BackplaneInit, OneInFlight
  <2>5. Delivered
    BY <2>1 DEF BackplaneInit, Delivered
  <2> QED  BY <2>2, <2>3, <2>4, <2>5 DEF BackplaneInv
<1>2. BackplaneInv /\ [BackplaneNext]_backplaneVars => BackplaneInv'
  <2> SUFFICES ASSUME BackplaneInv, [BackplaneNext]_backplaneVars PROVE BackplaneInv'
    OBVIOUS
  <2>1. CASE UNCHANGED backplaneVars
    BY <2>1 DEF backplaneVars, BackplaneInv, BackplaneType, CallsSettle, LeavesAlone, OneInFlight,
                Delivered, Registered, Counted
  <2>2. CASE BackplaneNext
    BY <2>2, SubscribeKeeps, ResumedKeeps, UnsubscribeKeeps, UnsubscribeGoesOnKeeps,
       RedisSubscribesKeeps, RedisUnsubscribesKeeps, BackplaneClosesKeeps DEF BackplaneNext
  <2> QED  BY <2>1, <2>2
<1>3. BackplaneInv => BackplaneSound
  BY DEF BackplaneInv, BackplaneSound, SubscriptionsLive, UnsubscribeWins, BackplaneType,
         CallsSettle, Delivered, Registered, Counted
<1> QED  BY <1>1, <1>2, <1>3, PTL DEF BackplaneSpec
=============================================================================
