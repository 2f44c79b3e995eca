------------------------------ MODULE AppEvents ------------------------------
\* Application events (packages/core/src/server.ts: publish, subscribe,
\* _deliverApp; cluster/node.ts: publishApp, the "app" message): a message
\* published on one process goes to the handlers of every process of the cluster.
\*
\* One channel.  A process's own handlers are called in a microtask, those of the
\* others when the backplane brings the message.  The backplane keeps the order of
\* one publisher; a publication that fails is logged and forgotten.

EXTENDS Integers, Sequences, FiniteSets

CONSTANTS Node,         \* the processes
          MaxEvents,    \* bound on messages published
          MaxSubs,      \* bound on calls of subscribe
          MaxUnsubs     \* bound on calls of unsubscribe functions

VARIABLES member,       \* the processes whose cluster node runs
          wire,         \* wire[p][q]: messages of p on their way to q
          micro,        \* micro[p]: p's own messages, each in a queued microtask
          groups,       \* the handler Sets made so far, each a set of subscriptions
          channel,      \* _subscribers of each process: the Set of the channel, 0 for none
          subs,         \* the subscriptions, in order
          events,       \* messages published
          got,          \* what each subscription's handler was called with, in order
          owed,         \* what it should be called with, in no order
          unsubs        \* calls of unsubscribe functions

eventVars == <<member, wire, micro, groups, channel, subs, events, got, owed, unsubs>>

EventInit ==
    /\ member = Node
    /\ wire = [p \in Node |-> [q \in Node |-> <<>>]]
    /\ micro = [p \in Node |-> <<>>]
    /\ groups = <<>>
    /\ channel = [p \in Node |-> 0]
    /\ subs = <<>> /\ got = <<>> /\ owed = <<>>
    /\ events = 0 /\ unsubs = 0

\* The subscriptions that stand on the processes P: made, and never ended.
Subscribed(P) == {s \in DOMAIN subs : subs[s].at \in P /\ subs[s].on}

\* The handlers the channel's Set of process p holds.
Held(p) == IF channel[p] = 0 THEN {} ELSE groups[channel[p]]

-----------------------------------------------------------------------------
(* subscribe and the function it returns. *)

Subscribe_NewSet(p) ==
    /\ Len(subs) < MaxSubs
    /\ groups' = Append(groups, {Len(subs) + 1})
    /\ channel' = [channel EXCEPT ![p] = Len(groups) + 1]
    /\ subs' = Append(subs, [at |-> p, group |-> Len(groups) + 1, on |-> TRUE, cut |-> FALSE])
    /\ got' = Append(got, <<>>)
    /\ owed' = Append(owed, {})
    /\ UNCHANGED <<member, wire, micro, events, unsubs>>

\* The channel's Set takes the handler; the first handler makes the Set.
Subscribe(p) ==
    /\ Len(subs) < MaxSubs
    /\ LET s == Len(subs) + 1
           g == IF channel[p] = 0 THEN Len(groups) + 1 ELSE channel[p]
       IN /\ groups' = IF channel[p] = 0 THEN Append(groups, {s}) ELSE [groups EXCEPT ![g] = @ \cup {s}]
          /\ channel' = [channel EXCEPT ![p] = g]
          /\ subs' = Append(subs, [at |-> p, group |-> g, on |-> TRUE, cut |-> FALSE])
    /\ got' = Append(got, <<>>)
    /\ owed' = Append(owed, {})
    /\ UNCHANGED <<member, wire, micro, events, unsubs>>

\* An empty Set takes the channel with it, whichever Set the channel has by now: the
\* subscriptions of that one are cut off.
UnsubscribeApp(s) ==
    /\ unsubs < MaxUnsubs
    /\ unsubs' = unsubs + 1
    /\ LET p == subs[s].at
           g == subs[s].group
           empty == groups[g] \ {s} = {}
       IN /\ groups' = [groups EXCEPT ![g] = @ \ {s}]
          /\ channel' = IF empty THEN [channel EXCEPT ![p] = 0] ELSE channel
          /\ subs' = [t \in DOMAIN subs |->
                        [subs[t] EXCEPT !.on = @ /\ t # s,
                                        !.cut = @ \/ (empty /\ t \in Held(p) \ {s})]]
    /\ owed' = [owed EXCEPT ![s] = {}]
    /\ UNCHANGED <<member, wire, micro, events, got>>

Unsub == \E s \in DOMAIN subs : UnsubscribeApp(s)

-----------------------------------------------------------------------------
(* publish and delivery. *)

\* publish: INVALID_STATE without a running node; otherwise to the backplane, which
\* may fail, and to this process's own handlers in a microtask.
Publish(p, sent) ==
    /\ p \in member /\ events < MaxEvents
    /\ LET e == [from |-> p, n |-> events + 1]
           others == IF sent THEN member \ {p} ELSE {}
       IN /\ events' = e.n
          /\ wire' = [wire EXCEPT ![p] = [q \in Node |-> IF q \in others THEN Append(@[q], e) ELSE @[q]]]
          /\ micro' = [micro EXCEPT ![p] = Append(@, e)]
          /\ owed' = [s \in DOMAIN subs |-> IF s \in Subscribed(others \cup {p}) THEN owed[s] \cup {e} ELSE owed[s]]
    /\ UNCHANGED <<member, groups, channel, subs, got, unsubs>>

\* _deliverApp: a copy of the channel's Set is called.
DeliverApp(p, e) ==
    got' = [s \in DOMAIN subs |-> IF s \in Held(p) THEN Append(got[s], e) ELSE got[s]]

\* The microtask publish queued.
OwnDelivery(p) ==
    /\ micro[p] # <<>>
    /\ DeliverApp(p, Head(micro[p]))
    /\ micro' = [micro EXCEPT ![p] = Tail(@)]
    /\ UNCHANGED <<member, wire, groups, channel, subs, events, owed, unsubs>>

\* A peer's "app" message.
AppMessage(p, q) ==
    /\ q \in member /\ wire[p][q] # <<>>
    /\ DeliverApp(q, Head(wire[p][q]))
    /\ wire' = [wire EXCEPT ![p][q] = Tail(@)]
    /\ UNCHANGED <<member, micro, groups, channel, subs, events, owed, unsubs>>

\* stop(): the node leaves; what the others have not brought it yet is never
\* delivered, and its handlers stay registered.
StopNode(p) ==
    /\ p \in member
    /\ member' = member \ {p}
    /\ owed' = [s \in DOMAIN subs |-> IF subs[s].at = p THEN {e \in owed[s] : e.from = p} ELSE owed[s]]
    /\ wire' = [q \in Node |-> [wire[q] EXCEPT ![p] = <<>>]]
    /\ UNCHANGED <<micro, groups, channel, subs, events, got, unsubs>>

StartNode(p) ==
    /\ p \notin member
    /\ member' = member \cup {p}
    /\ UNCHANGED <<wire, micro, groups, channel, subs, events, got, owed, unsubs>>

EventNext ==
    \/ \E p \in Node : Subscribe(p) \/ Publish(p, TRUE) \/ Publish(p, FALSE)
                       \/ OwnDelivery(p) \/ StopNode(p) \/ StartNode(p)
    \/ \E p, q \in Node : AppMessage(p, q)
    \/ Unsub

EventSpec == EventInit /\ [][EventNext]_eventVars

-----------------------------------------------------------------------------
(* Properties. *)

\* "Messages from one process arrive in the order it sent them" (server.ts:801), and
\* none arrives twice.
InOrder ==
    \A s \in DOMAIN subs : \A i, j \in DOMAIN got[s] :
        i < j /\ got[s][i].from = got[s][j].from => got[s][i].n < got[s][j].n

InFlight(p) == (UNION {{wire[q][p][i] : i \in DOMAIN wire[q][p]} : q \in Node})
                 \cup {micro[p][i] : i \in DOMAIN micro[p]}

\* A handler that is subscribed on a running process gets every message that was
\* published meanwhile, unless a second call of another's unsubscribe function cut
\* it off (subscribe, _deliverApp).
NoneMissed ==
    \A s \in DOMAIN subs : subs[s].on /\ ~subs[s].cut
        => \A e \in owed[s] : e \in InFlight(subs[s].at) \/ \E i \in DOMAIN got[s] : got[s][i] = e

\* Application events reach the handlers that stand, in order (server.ts: publish,
\* subscribe, _deliverApp).
AppEventsSound == InOrder /\ NoneMissed
=============================================================================
