------------------------------- MODULE RoomProxy -------------------------------
\* A handle on a room that another process owns (packages/core/src/cluster/proxy.ts):
\* calls are forwarded over the backplane (node.ts, roomOp), the owner runs them
\* (server.ts, _clusterRoomOp), and what the room is like is cached here.
\*
\* The channel to the owner and the one back deliver in order. A request whose answer
\* only gets logged is not kept in `open`.

EXTENDS Integers, Sequences, FiniteSets

CONSTANTS Guest,          \* seats of the room, each taken at most once
          RoomCap,        \* maxClients
          MaxProxyCalls,  \* bound on calls of the proxy
          MaxOwnSteps,    \* bound on what the owner does to the room by itself
          MaxLostCalls    \* bound on lost messages and dropped peers

VARIABLES remote,         \* the room where it runs
          cache,          \* RoomProxy._info
          asked,          \* requests on their way to the owner
          answers,        \* answers on their way back
          open,           \* requests that wait for their answer
          serial,         \* ids given to requests
          drift,          \* fields the cache may have wrong: the owner changed them, or a
                          \* call about them was lost or overtaken by the answer of a refresh
          mine,           \* guests whose presence this proxy set last
          unsure,         \* guests whose presence the owner changed, or a call about was lost
          fetched,        \* the last answer to fetchPresence
          kicked,         \* kicks called and not lost
          heard,          \* broadcasts by who got them
          ownSteps, lostCalls

proxyVars == <<remote, cache, asked, answers, open, serial, drift, mine, unsure, fetched, kicked,
               heard, ownSteps, lostCalls>>

Field == {"locked", "private", "disposed", "seats"}
NoCache == [made |-> "asking", locked |-> FALSE, private |-> FALSE, disposed |-> FALSE, seats |-> 0]
NotFetched == [got |-> {}, wanted |-> {}, unsure |-> Guest]
Call(op) == [op |-> op, v |-> FALSE, who |-> "nobody"]

\* _roomInfo: the fields that change.
Info(r) == [made |-> "made", locked |-> r.locked, private |-> r.private, disposed |-> r.disposed,
            seats |-> Cardinality(r.seats)]

\* isAvailable, of the room and of the proxy.
Available(i) == ~i.disposed /\ ~i.locked /\ ~i.private /\ i.seats < RoomCap

\* _proxyFor has asked the owner what the room is like.
ProxyInit ==
    /\ \E first \in SUBSET Guest :
         remote = [there |-> TRUE, locked |-> FALSE, private |-> FALSE, disposed |-> FALSE,
                   seats |-> first, seen |-> first, presence |-> {}]
    /\ cache = NoCache
    /\ asked = <<[rid |-> 1, call |-> Call("info")]>>
    /\ answers = <<>>
    /\ open = {[rid |-> 1, op |-> "info", since |-> {}, wanted |-> {}]}
    /\ serial = 1
    /\ drift = {}
    /\ mine = {}
    /\ unsure = {}
    /\ fetched = NotFetched
    /\ kicked = {}
    /\ heard = {}
    /\ ownSteps = 0
    /\ lostCalls = 0

----------------------------------------------------------------------------
(* Calls of the proxy. *)

\* A call about field f overtakes every refresh that is under way.
Overtakes(f) == {[o EXCEPT !.since = @ \cup f] : o \in open}

\* The owner changed f: a refresh that read the room before has the old value.
Unread(o) == \A i \in 1..Len(asked) : asked[i].rid # o.rid
Changes(f) == {IF Unread(o) THEN [o EXCEPT !.since = @ \cup f] ELSE o : o \in open}

\* roomOp: a request on the owner's channel.
Send(call) ==
    /\ cache.made = "made"
    /\ serial < MaxProxyCalls
    /\ serial' = serial + 1
    /\ asked' = Append(asked, [rid |-> serial + 1, call |-> call])
    /\ UNCHANGED <<remote, answers, fetched, heard, ownSteps, lostCalls>>

\* What the proxy remembers of its own call: dispose only once it was answered.
Remember_Later(call) ==
    [cache EXCEPT !.locked = IF call.op = "lock" THEN call.v ELSE @,
                  !.private = IF call.op = "visibility" THEN call.v ELSE @]

\* What the proxy remembers of its own call.
Remember(call) ==
    [cache EXCEPT !.locked = IF call.op = "lock" THEN call.v ELSE @,
                  !.private = IF call.op = "visibility" THEN call.v ELSE @,
                  !.disposed = IF call.op = "dispose" THEN TRUE ELSE @]

About(call) ==
    CASE call.op = "lock" -> {"locked"}
      [] call.op = "visibility" -> {"private"}
      [] call.op = "dispose" -> {"disposed"}
      [] OTHER -> {}

\* lock, unlock, makePrivate, makePublic, dispose.
Controls ==
    \E call \in [op : {"lock", "visibility"}, v : BOOLEAN, who : {"nobody"}] \cup {Call("dispose")} :
        /\ Send(call)
        /\ cache' = Remember(call)
        /\ open' = Overtakes(About(call))
        /\ drift' = drift \ About(call)
        /\ UNCHANGED <<mine, unsure, kicked>>

\* setPresence, removePresence.
SetsPresence ==
    \E g \in Guest, set \in BOOLEAN :
        /\ Send([op |-> "presence", v |-> set, who |-> g])
        /\ mine' = IF set THEN mine \cup {g} ELSE mine \ {g}
        /\ UNCHANGED <<cache, open, drift, unsure, kicked>>

\* disconnectClient: a kick by the session id of a seat that was taken, and may be gone.
Kicks ==
    \E g \in remote.seen :
        /\ Send([Call("kick") EXCEPT !.who = g])
        /\ kicked' = kicked \cup {<<g, serial'>>}
        /\ UNCHANGED <<cache, open, drift, mine, unsure>>

\* broadcastMessage, broadcastRawMessage.
Broadcasts ==
    \E g \in Guest \cup {"nobody"} :
        /\ Send([Call("broadcast") EXCEPT !.who = g])
        /\ UNCHANGED <<cache, open, drift, mine, unsure, kicked>>

\* refresh, fetchPresence: the caller waits for the answer.
Asks ==
    \E op \in {"info", "presenceAll"} :
        /\ Send(Call(op))
        /\ open' = open \cup {[rid |-> serial', op |-> op, since |-> {}, wanted |-> mine]}
        /\ UNCHANGED <<cache, drift, mine, unsure, kicked>>

----------------------------------------------------------------------------
(* The owner. *)

Released(r, g) == [r EXCEPT !.seats = @ \ {g}, !.presence = @ \ {g}]

\* room.dispose releases the first seat before it waits for that seat's onLeave.
Disposing(r) ==
    LET closing == [r EXCEPT !.disposed = TRUE]
    IN IF r.disposed \/ r.seats = {} THEN {closing} ELSE {Released(closing, g) : g \in r.seats}

\* _clusterRoomOp: what the room can be after a call.
Ran(r, call) ==
    CASE call.op = "lock" -> {[r EXCEPT !.locked = call.v]}
      [] call.op = "visibility" -> {[r EXCEPT !.private = call.v]}
      [] call.op = "dispose" -> Disposing(r)
      [] call.op = "presence" ->
           {[r EXCEPT !.presence = IF call.v THEN @ \cup {call.who} ELSE @ \ {call.who}]}
      [] call.op = "kick" -> {Released(r, call.who)}
      [] OTHER -> {r}

\* _broadcastByName reaches every seat but the excepted one; a payload the contract does
\* not have reaches nobody.
Reached(r, q) ==
    IF q.call.op # "broadcast" THEN {{}}
    ELSE {{}, {<<g, q.rid>> : g \in r.seats \ {q.call.who}}}

\* "op?": the call runs and is answered; a room that is gone is answered ROOM_NOT_FOUND.
OwnerRuns ==
    /\ asked # <<>>
    /\ LET q == Head(asked) IN
       /\ asked' = Tail(asked)
       /\ \E r \in (IF remote.there THEN Ran(remote, q.call) ELSE {remote}),
             reached \in (IF remote.there THEN Reached(remote, q) ELSE {{}}) :
            LET changed == IF r.seats # remote.seats THEN {"seats"} ELSE {}
            IN /\ remote' = r
               /\ heard' = heard \cup reached
               /\ answers' = Append(answers, [rid |-> q.rid, ok |-> r.there, info |-> Info(r),
                                              presence |-> r.presence])
               /\ drift' = drift \cup changed
               /\ open' = Changes(changed)
               /\ unsure' = unsure \cup (remote.seats \ r.seats)
    /\ UNCHANGED <<cache, serial, mine, fetched, kicked, ownSteps, lostCalls>>

\* What the room's own code and clients do to it.
OwnerActs ==
    /\ remote.there
    /\ ownSteps < MaxOwnSteps
    /\ ownSteps' = ownSteps + 1
    /\ \E r \in {[remote EXCEPT !.locked = ~@], [remote EXCEPT !.private = ~@]}
               \cup (IF remote.disposed THEN {} ELSE Disposing(remote))
               \cup {Released(remote, g) : g \in remote.seats}
               \cup {[remote EXCEPT !.seats = @ \cup {g}, !.seen = @ \cup {g}] :
                       g \in {h \in Guest \ remote.seen : /\ ~remote.disposed /\ ~remote.locked
                                                        /\ Cardinality(remote.seats) < RoomCap}} :
            LET changed == {f \in Field : Info(r)[f] # Info(remote)[f]}
            IN /\ remote' = r
               /\ drift' = drift \cup changed
               /\ open' = Changes(changed)
               /\ unsure' = unsure \cup (remote.seats \ r.seats)
    /\ UNCHANGED <<cache, asked, answers, serial, mine, fetched, kicked, heard, lostCalls>>

\* _dispose goes on: the other seats are released, then the room is gone.
DisposalGoesOn ==
    /\ remote.there
    /\ remote.disposed
    /\ \E r \in IF remote.seats = {} THEN {[remote EXCEPT !.there = FALSE, !.presence = {}]}
                ELSE {Released(remote, g) : g \in remote.seats} :
          /\ remote' = r
          /\ drift' = drift \cup {"seats"}
          /\ open' = Changes({"seats"})
          /\ unsure' = unsure \cup Guest
    /\ UNCHANGED <<cache, asked, answers, serial, mine, fetched, kicked, heard, ownSteps, lostCalls>>

----------------------------------------------------------------------------
(* Answers. *)

\* refresh and _proxyFor: the description is replaced. One that fails leaves it as it was;
\* without a first one there is no proxy.
Adopt(m) == IF m.ok THEN m.info
            ELSE IF cache.made = "asking" THEN [cache EXCEPT !.made = "failed"] ELSE cache

\* deliver: an answer nobody waits for is ignored.
Receives ==
    /\ answers # <<>>
    /\ answers' = Tail(answers)
    /\ LET m == Head(answers)
           waits == {o \in open : o.rid = m.rid}
       IN /\ open' = open \ waits
          /\ IF \E o \in waits : o.op = "info"
             THEN /\ cache' = Adopt(m)
                  /\ drift' = IF m.ok THEN UNION {o.since : o \in waits} ELSE drift
             ELSE UNCHANGED <<cache, drift>>
          /\ IF m.ok /\ \E o \in waits : o.op = "presenceAll"
             THEN fetched' = [got |-> m.presence, wanted |-> UNION {o.wanted : o \in waits},
                              unsure |-> unsure]
             ELSE UNCHANGED fetched
    /\ UNCHANGED <<remote, asked, serial, mine, unsure, kicked, heard, ownSteps, lostCalls>>

\* The request times out, or every one does since the owner is taken for dead.
GivesUp ==
    /\ \E given \in {{o} : o \in open} \cup (IF lostCalls < MaxLostCalls THEN {open} ELSE {}) :
         /\ given # {}
         /\ open' = open \ given
         /\ lostCalls' = lostCalls + (IF Cardinality(given) > 1 THEN 1 ELSE 0)
    /\ cache' = IF cache.made = "asking" THEN [cache EXCEPT !.made = "failed"] ELSE cache
    /\ UNCHANGED <<remote, asked, answers, serial, drift, mine, unsure, fetched, kicked, heard, ownSteps>>

\* The backplane loses a request.
Loses ==
    /\ asked # <<>>
    /\ lostCalls < MaxLostCalls
    /\ lostCalls' = lostCalls + 1
    /\ LET q == Head(asked) IN
       /\ asked' = Tail(asked)
       /\ drift' = drift \cup About(q.call)
       /\ unsure' = IF q.call.op = "presence" THEN unsure \cup {q.call.who} ELSE unsure
       /\ kicked' = {k \in kicked : k[2] # q.rid}
    /\ UNCHANGED <<remote, cache, answers, open, serial, mine, fetched, heard, ownSteps>>

ProxyNext ==
    \/ Controls
    \/ SetsPresence
    \/ Kicks
    \/ Broadcasts
    \/ Asks
    \/ OwnerRuns
    \/ OwnerActs
    \/ DisposalGoesOn
    \/ Receives
    \/ GivesUp
    \/ Loses

----------------------------------------------------------------------------
(* Properties. *)

Quiet == asked = <<>> /\ answers = <<>>

\* With nothing on its way the proxy describes the room as it is, in every field the owner
\* did not change by itself since and no lost or overtaken call was about; so it is
\* available exactly when the room is.
CacheAgrees ==
    (cache.made = "made" /\ Quiet /\ remote.there) =>
        /\ \A f \in Field \ drift : cache[f] = Info(remote)[f]
        /\ drift = {} => (Available(cache) <=> Available(Info(remote)))

\* fetchPresence returns what this proxy's earlier calls made of it.
ReadsItsWrites == \A g \in Guest \ fetched.unsure : g \in fetched.got <=> g \in fetched.wanted

\* A seat hears no broadcast that was called after a kick of that seat.
KickedHearsNothing == \A k \in kicked, h \in heard : k[1] = h[1] => h[2] < k[2]

ProxySound == CacheAgrees /\ ReadsItsWrites /\ KickedHearsNothing
=============================================================================
