------------------------------- MODULE Backplane -------------------------------
\* A process's subscription to one channel through RedisBackplane
\* (packages/backplane/src/redis.ts) and its callback table (channels.ts).
\*
\* The subscriber connection sends commands in order and Redis answers them in
\* order.  A SUBSCRIBE is one promise, shared by the callbacks that wait for it.
\* subscribe() overlaps other subscribe() calls and unsubscribe() overlaps a
\* subscribe() in flight; Overlap says whether subscribe() may also be called while
\* an unsubscribe() has yet to resolve.

EXTENDS Integers, Sequences, FiniteSets

CONSTANTS Callback,     \* the callbacks the application subscribes
          Overlap,
          MaxCommands   \* bound on the SUBSCRIBEs of one behaviour

VARIABLES callbacks,    \* Channels: the callbacks of the channel
          subscribed,   \* _subscribed: the SUBSCRIBE in the map, 0 for none
          promise,      \* promise[i]: the i-th SUBSCRIBE, "pending", "ok" or "failed"
          commands,     \* commands on their way to Redis
          redis,        \* Redis delivers the channel to this connection
          call,         \* call[c]: subscribe(c): idle, waiting, ok, failed, or void
                        \* once unsubscribe() was called after it
          awaits,       \* awaits[c]: the SUBSCRIBE that call waits for
          leaving,      \* unsubscribe(): idle, waiting for a SUBSCRIBE, sent, done, or
                        \* failed (OPERATION_FAILED)
          leavingFor,   \* the SUBSCRIBE it waits for
          leftOn,       \* an UNSUBSCRIBE failed, and none has succeeded since
          shut          \* _closed

backplaneVars == <<callbacks, subscribed, promise, commands, redis, call, awaits, leaving,
                   leavingFor, leftOn, shut>>

BackplaneInit ==
    /\ callbacks = {}
    /\ subscribed = 0
    /\ promise = <<>>
    /\ commands = <<>>
    /\ redis = FALSE
    /\ call = [c \in Callback |-> "idle"]
    /\ awaits = [c \in Callback |-> 0]
    /\ leaving = "idle"
    /\ leavingFor = 0
    /\ leftOn = FALSE
    /\ shut = FALSE

----------------------------------------------------------------------------

\* No unsubscribe() has yet to resolve.
Resolved == leaving \in {"idle", "done", "failed"}

\* subscribe, up to its await: the callback is added, and the channel is subscribed
\* in Redis unless it is already.
Subscribe ==
    \E c \in Callback :
        LET first == subscribed = 0
            id == IF first THEN Len(promise) + 1 ELSE subscribed
        IN /\ ~shut
           /\ call[c] \in {"idle", "failed", "void"}
           /\ Overlap \/ Resolved
           /\ first => Len(promise) < MaxCommands
           /\ callbacks' = callbacks \cup {c}
           /\ subscribed' = id
           /\ promise' = IF first THEN Append(promise, "pending") ELSE promise
           /\ commands' = IF first THEN Append(commands, [op |-> "SUBSCRIBE", id |-> id]) ELSE commands
           /\ call' = [call EXCEPT ![c] = "waiting"]
           /\ awaits' = [awaits EXCEPT ![c] = id]
           /\ UNCHANGED <<redis, leaving, leavingFor, leftOn, shut>>

\* The failed subscribe() takes the map entry with it whatever is in it by now.
Resumed_DropsAny ==
    \E c \in Callback :
        /\ call[c] = "waiting"
        /\ promise[awaits[c]] # "pending"
        /\ call' = [call EXCEPT ![c] = promise[awaits[c]]]
        /\ IF promise[awaits[c]] = "failed"
           THEN /\ callbacks' = callbacks \ {c}
                /\ subscribed' = 0
           ELSE UNCHANGED <<callbacks, subscribed>>
        /\ UNCHANGED <<promise, commands, redis, awaits, leaving, leavingFor, leftOn, shut>>

\* subscribe, after its await: a failure takes the callback back, and the entry of
\* the map if it is still this one.
Resumed ==
    \E c \in Callback :
        /\ call[c] = "waiting"
        /\ promise[awaits[c]] # "pending"
        /\ call' = [call EXCEPT ![c] = promise[awaits[c]]]
        /\ IF promise[awaits[c]] = "failed"
           THEN /\ callbacks' = callbacks \ {c}
                /\ subscribed' = IF subscribed = awaits[c] THEN 0 ELSE subscribed
           ELSE UNCHANGED <<callbacks, subscribed>>
        /\ UNCHANGED <<promise, commands, redis, awaits, leaving, leavingFor, leftOn, shut>>

\* unsubscribe, up to its await.  The calls before it no longer promise anything.
Unsubscribe ==
    /\ ~shut
    /\ Resolved
    /\ callbacks' = {}
    /\ call' = [c \in Callback |-> IF call[c] = "ok" THEN "void" ELSE call[c]]
    /\ leaving' = IF subscribed = 0 THEN "done" ELSE "waiting"
    /\ leavingFor' = subscribed
    /\ subscribed' = 0
    /\ UNCHANGED <<promise, commands, redis, awaits, leftOn, shut>>

\* unsubscribe, after the SUBSCRIBE it waited for.  A connection that was closed
\* meanwhile refuses the command.
UnsubscribeGoesOn ==
    /\ leaving = "waiting"
    /\ promise[leavingFor] # "pending"
    /\ \/ /\ promise[leavingFor] = "ok" /\ ~shut
          /\ commands' = Append(commands, [op |-> "UNSUBSCRIBE", id |-> leavingFor])
          /\ leaving' = "sent"
       \/ /\ promise[leavingFor] = "ok" /\ shut
          /\ leaving' = "failed"
          /\ UNCHANGED commands
       \/ /\ promise[leavingFor] = "failed"
          /\ leaving' = "done"
          /\ UNCHANGED commands
    /\ UNCHANGED <<callbacks, subscribed, promise, redis, call, awaits, leavingFor, leftOn, shut>>

\* Redis answers the next command, op.
Answers(op) ==
    /\ commands # <<>> /\ Head(commands).op = op
    /\ ~shut
    /\ commands' = Tail(commands)
    /\ UNCHANGED <<callbacks, subscribed, call, awaits, leavingFor, shut>>

\* The end of _redisSubscribe: the SUBSCRIBE succeeded or failed.
RedisSubscribes ==
    \E ok \in BOOLEAN :
        /\ Answers("SUBSCRIBE")
        /\ redis' = (redis \/ ok)
        /\ promise' = [promise EXCEPT ![Head(commands).id] = IF ok THEN "ok" ELSE "failed"]
        /\ UNCHANGED <<leaving, leftOn>>

\* The end of unsubscribe: the UNSUBSCRIBE succeeded, or failed and Redis delivers on.
\* Either way the callbacks and the map entry are gone.
RedisUnsubscribes ==
    \E ok \in BOOLEAN :
        /\ Answers("UNSUBSCRIBE")
        /\ redis' = (redis /\ ~ok)
        /\ leaving' = IF ok THEN "done" ELSE "failed"
        /\ leftOn' = ~ok
        /\ UNCHANGED promise

\* close: both connections end, and with them what was in flight.
BackplaneCloses ==
    /\ ~shut
    /\ shut' = TRUE
    /\ callbacks' = {}
    /\ subscribed' = 0
    /\ redis' = FALSE
    /\ promise' = [i \in DOMAIN promise |-> IF promise[i] = "pending" THEN "failed" ELSE promise[i]]
    /\ commands' = <<>>
    /\ leaving' = IF leaving = "sent" THEN "failed" ELSE leaving
    /\ leftOn' = FALSE
    /\ call' = [c \in Callback |-> IF call[c] = "ok" THEN "void" ELSE call[c]]
    /\ UNCHANGED <<awaits, leavingFor>>

BackplaneNext ==
    \/ Subscribe
    \/ Resumed
    \/ Unsubscribe
    \/ UnsubscribeGoesOn
    \/ RedisSubscribes
    \/ RedisUnsubscribes
    \/ BackplaneCloses

BackplaneSpec == BackplaneInit /\ [][BackplaneNext]_backplaneVars

----------------------------------------------------------------------------

\* A subscribe() that resolved ok, with no unsubscribe() or close() since, gets what
\* is published: Redis delivers the channel here, and the callback is in the table.
\* One that resolved after an unsubscribe() that overlapped it is not counted.
SubscriptionsLive ==
    \A c \in Callback :
        (call[c] = "ok" /\ awaits[c] = subscribed) => redis /\ c \in callbacks

\* Once unsubscribe() resolved and nothing has subscribed again, also when it
\* overlapped a SUBSCRIBE in flight: nothing reaches the application, and Redis
\* delivers the channel no more, unless an UNSUBSCRIBE failed.  Then it does until
\* one succeeds, whatever a repeated unsubscribe() says: the map entry is gone.
UnsubscribeWins ==
    (leaving \in {"done", "failed"} /\ subscribed = 0 /\ \A c \in Callback : call[c] # "waiting") =>
        /\ callbacks = {}
        /\ redis => leftOn

\* A subscription that was confirmed is live, and an unsubscribe has the last word
\* (backplane/src/redis.ts).
BackplaneSound == SubscriptionsLive /\ UnsubscribeWins
==============================================================================
