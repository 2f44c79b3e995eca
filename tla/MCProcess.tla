------------------------------- MODULE MCProcess -------------------------------
\* The parts of one server process that do not share state, each checked on its own
\* in one run: `part` says which of them moves.
EXTENDS SimulationLoop, RoomMessages, AppEvents, TLC

CONSTANTS Rate, Capacity, Size, Authenticates, QueueLimit, MaxNow, MaxSent,
          Content, Fields, Classes, Durable, MaxSaves, MaxMoment,
          Proc, Defines, Private, Kind, First, MaxCalls, MaxClients, MaxChurn

VARIABLES part,
          now, sock, clients, conn, bucket, frames, waiting, queued, sentFrames, admitted, joins,
          routed, answered,
          moment, up, tree, calls, entry, saves, acked, loaded,
          rooms, creating, lock, draining, churn, call, behind

Gate == INSTANCE Gateway WITH wire <- frames
Store == INSTANCE StateStore
Match == INSTANCE Matchmaker

gate == <<now, sock, clients, conn, bucket, frames, waiting, queued, sentFrames, admitted, joins,
          routed, answered>>
store == <<moment, up, tree, calls, entry, saves, acked, loaded>>
match == <<rooms, creating, lock, draining, churn, call, behind>>
vars == <<part, gate, loopVars, store, match, messageVars, eventVars>>

Rates == [b \in {"frames", "bytes", "joins"} |-> IF b = "bytes" THEN 2 ELSE 1]
Capacities == [b \in {"frames", "bytes", "joins"} |-> IF b = "joins" THEN 1 ELSE 2]

\* Two versions of the state class: the second has one more field and one class less.
FieldsOf == <<{"score"}, {"score", "bonus"}>>
ClassesOf == <<{"Unit", "Tank"}, {"Unit"}>>
ContentOf ==
    << {[num |-> [score |-> "1"], units |-> <<[class |-> "Tank", hp |-> "1"]>>],
        [num |-> [score |-> "NaN"], units |-> <<>>]},
       {[num |-> [score |-> "0", bonus |-> "NaN"], units |-> <<[class |-> "Unit", hp |-> "1"]>>]} >>

Kinds == {<<"reserve", "type", FALSE>>, <<"reserve", "where", FALSE>>, <<"reserve", "key", FALSE>>,
          <<"reserve", "key", TRUE>>, <<"joinOrCreate", "type", TRUE>>, <<"createRoom", "key", FALSE>>,
          <<"createRoom", "type", TRUE>>, <<"joinRoom", "key", FALSE>>, <<"reserveById", "type", FALSE>>}
FirstRooms == {<<"type", 0>>, <<"key", 1>>}
AnyProcess == Permutations(Proc)

Init ==
    /\ part \in {"gateway", "loop", "store", "matchmaker", "messages", "events"}
    /\ Gate!GatewayInit
    /\ LoopInit
    /\ Store!StoreInit
    /\ Match!MatchInit
    /\ MessageInit
    /\ EventInit
    /\ part # "matchmaker" => rooms[1] = Match!NoRoom
    /\ part # "loop" => rate = CHOOSE r \in StepMs : TRUE

Next ==
    \/ part = "gateway" /\ Gate!GatewayNext /\ UNCHANGED <<part, loopVars, store, match, messageVars, eventVars>>
    \/ part = "loop" /\ LoopNext /\ UNCHANGED <<part, gate, store, match, messageVars, eventVars>>
    \/ part = "store" /\ Store!StoreNext /\ UNCHANGED <<part, gate, loopVars, match, messageVars, eventVars>>
    \/ part = "matchmaker" /\ Match!MatchNext /\ UNCHANGED <<part, gate, loopVars, store, messageVars, eventVars>>
    \/ part = "messages" /\ MessageNext /\ UNCHANGED <<part, gate, loopVars, store, match, eventVars>>
    \/ part = "events" /\ EventNext /\ UNCHANGED <<part, gate, loopVars, store, match, messageVars>>

Spec == Init /\ [][Next]_vars

\* A connection stays within its limits, ends with its socket, and each of its joins
\* is answered or routed once, or is no array and ends it (server.ts, limits.ts,
\* websocket.ts).
GatewaySound == Gate!GatewaySound

\* What a restarted room loads is a state it saved, whole (room.ts, plain.ts, the stores).
LoadsASave == Store!LoadsASave

\* One room per key, claims end with their call, no call is stuck, and a draining
\* process gets no new room (matchmaker.ts, server.ts).
MatchSound == Match!MatchSound

\* docs/guides/matchmaking.md: at most one room of the type has a given key, across
\* the cluster.
KeyedOnce == Match!KeyedOnce
=============================================================================
