-------------------------- MODULE AppEventsProofs --------------------------
(***************************************************************************)
(* Proofs about AppEvents, for any processes, handlers and messages.       *)
(***************************************************************************)
EXTENDS AppEvents, TLAPS, SequenceTheorems

\* A message and a subscription.
Events == [from : Node, n : Nat]
Subs   == [at : Node, group : Nat, on : BOOLEAN, cut : BOOLEAN]

\* Every variable has its type.
EventType ==
    /\ member \subseteq Node /\ events \in Nat
    /\ wire \in [Node -> [Node -> Seq(Events)]]
    /\ micro \in [Node -> Seq(Events)]
    /\ groups \in Seq(SUBSET Nat)
    /\ channel \in [Node -> 0..Len(groups)]
    /\ subs \in Seq(Subs)
    /\ got \in Seq(Seq(Events)) /\ Len(got) = Len(subs)
    /\ owed \in Seq(SUBSET Events) /\ Len(owed) = Len(subs)

\* A Set holds handlers that were added to it.
GroupsSound ==
    /\ \A s \in 1..Len(subs) : subs[s].group \in 1..Len(groups)
    /\ \A g \in 1..Len(groups) : \A t \in groups[g] : t \in 1..Len(subs) /\ subs[t].group = g

\* A Set that a process's channel has is of handlers of this process, and of no other
\* channel.
ChannelsSound ==
    /\ \A s \in 1..Len(subs), p \in Node : subs[s].group = channel[p] => subs[s].at = p
    /\ \A p, q \in Node : channel[p] = channel[q] /\ channel[p] # 0 => p = q

\* A handler that was not ended and not cut off is in the Set of its channel.
Standing(s) == subs[s].on /\ ~subs[s].cut
StandingHeld ==
    \A s \in 1..Len(subs), p \in Node : Standing(s) /\ subs[s].at = p => s \in Held(p)

\* A queue holds messages of p, oldest first, of which the last was the nth or earlier.
Oldest(w, p, n) ==
    /\ \A i \in 1..Len(w) : w[i].from = p /\ w[i].n <= n
    /\ \A i, j \in 1..Len(w) : i < j => w[i].n < w[j].n

\* The messages of p on their way to the handlers of q.
Lane(p, q) == IF p = q THEN micro[p] ELSE wire[p][q]

\* The wires and the microtasks keep the order of the publisher.
LanesOrdered ==
    \A p, q \in Node : Oldest(Lane(p, q), p, events) /\ wire[p][p] = <<>>

\* What a handler got, w, has the messages of each process in order, up to the nth.
Sorted(w, n) ==
    /\ \A i \in 1..Len(w) : w[i].n <= n
    /\ \A i, j \in 1..Len(w) : i < j /\ w[i].from = w[j].from => w[i].n < w[j].n

GotSorted == \A s \in 1..Len(subs) : Sorted(got[s], events)

\* The messages of p in w are older than those in r.
Before(w, p, r) ==
    \A i \in 1..Len(w), j \in 1..Len(r) : w[i].from = p => w[i].n < r[j].n

\* What a handler got is older than what is on its way to it.
GotFirst ==
    \A s \in 1..Len(subs), p, q \in Node : subs[s].at = q => Before(got[s], p, Lane(p, q))

In(w, e)     == \E i \in 1..Len(w) : w[i] = e
Coming(e, q) == \E p \in Node : In(Lane(p, q), e)

\* What a standing handler is owed, it has or will get.
OwedComes ==
    \A s \in 1..Len(subs), q \in Node : Standing(s) /\ subs[s].at = q =>
        \A e \in owed[s] : Coming(e, q) \/ In(got[s], e)

\* The inductive invariant.
EventInv ==
    /\ EventType /\ GroupsSound /\ ChannelsSound /\ StandingHeld
    /\ LanesOrdered /\ GotSorted /\ GotFirst /\ OwedComes

-----------------------------------------------------------------------------
(* Queues.                                                                 *)

\* The lanes hold messages.
LEMMA LaneType == ASSUME EventType, NEW p \in Node, NEW q \in Node PROVE Lane(p, q) \in Seq(Events)
  BY DEF EventType, Lane

\* What is in flight to q is on one of its lanes.
LEMMA InFlightLanes == ASSUME EventType, LanesOrdered, NEW q \in Node, NEW e
    PROVE  e \in InFlight(q) <=> Coming(e, q)
  <1>1. \A p \in Node : DOMAIN wire[p][q] = 1..Len(wire[p][q]) /\ DOMAIN micro[q] = 1..Len(micro[q])
    BY DEF EventType
  <1>2. wire[q][q] = <<>>
    BY DEF LanesOrdered
  <1>3. e \in InFlight(q) <=> \/ \E p \in Node : \E i \in 1..Len(wire[p][q]) : wire[p][q][i] = e
                            \/ \E i \in 1..Len(micro[q]) : micro[q][i] = e
    <2> DEFINE From(p) == {wire[p][q][i] : i \in DOMAIN wire[p][q]}
               Mine    == {micro[q][i] : i \in DOMAIN micro[q]}
               All     == UNION {From(p) : p \in Node}
    <2>1. InFlight(q) = All \cup Mine
      BY DEF InFlight
    <2>2. \A p \in Node : e \in From(p) <=> \E i \in 1..Len(wire[p][q]) : wire[p][q][i] = e
      BY <1>1
    <2>3. e \in Mine <=> \E i \in 1..Len(micro[q]) : micro[q][i] = e
      BY <1>1
    <2> HIDE DEF From, Mine
    <2>4. e \in All <=> \E p \in Node : e \in From(p)
      <3>1. ASSUME e \in UNION {From(p) : p \in Node} PROVE \E p \in Node : e \in From(p)
        <4>1. PICK S \in {From(p) : p \in Node} : e \in S
          BY <3>1
        <4>2. PICK p \in Node : S = From(p)
          BY <4>1
        <4> QED BY <4>1, <4>2
      <3>2. ASSUME NEW p \in Node, e \in From(p) PROVE e \in UNION {From(r) : r \in Node}
        <4>1. From(p) \in {From(r) : r \in Node}
          OBVIOUS
        <4> QED BY <3>2, <4>1
      <3> QED BY <3>1, <3>2
    <2> HIDE DEF All
    <2>5. e \in InFlight(q) <=> e \in All \/ e \in Mine
      BY <2>1
    <2> QED BY <2>2, <2>3, <2>4, <2>5
  <1>4. ~\E i \in 1..Len(wire[q][q]) : wire[q][q][i] = e
    BY <1>2
  <1> QED BY <1>3, <1>4 DEF Lane, Coming, In

\* A queue that ends with a new message.
LEMMA OldestAppend == ASSUME NEW w \in Seq(Events), NEW p \in Node, NEW n \in Nat, Oldest(w, p, n),
                             NEW e \in Events, e.from = p, e.n = n + 1
                      PROVE  Oldest(Append(w, e), p, n + 1)
  <1> DEFINE v == Append(w, e)
  <1>1. Len(w) \in Nat /\ Len(v) = Len(w) + 1 /\ v[Len(w) + 1] = e /\ \A i \in 1..Len(w) : v[i] = w[i]
    OBVIOUS
  <1>2. \A i \in 1..Len(w) : w[i].from = p /\ w[i].n \in Nat /\ w[i].n <= n
    <2>1. \A i \in 1..Len(w) : w[i] \in Events
      OBVIOUS
    <2> QED BY <2>1 DEF Oldest, Events
  <1>3. \A i, j \in 1..Len(w) : i < j => w[i].n < w[j].n
    BY DEF Oldest
  <1> HIDE DEF v
  <1>4. \A i \in 1..Len(v) : v[i].from = p /\ v[i].n <= n + 1
    BY <1>1, <1>2
  <1>5. \A i, j \in 1..Len(v) : i < j => v[i].n < v[j].n
    <2> SUFFICES ASSUME NEW i \in 1..Len(v), NEW j \in 1..Len(v), i < j PROVE v[i].n < v[j].n
      OBVIOUS
    <2>1. i \in 1..Len(w)
      BY <1>1
    <2>2. CASE j = Len(w) + 1
      BY <1>1, <1>2, <2>1, <2>2
    <2>3. CASE j \in 1..Len(w)
      BY <1>1, <1>3, <2>1, <2>3
    <2> QED BY <1>1, <2>2, <2>3
  <1> QED BY <1>4, <1>5 DEF Oldest, v

\* A queue that lost its first message.
LEMMA OldestTail == ASSUME NEW w \in Seq(Events), NEW p \in Node, NEW n \in Nat, Oldest(w, p, n), w # <<>>
                    PROVE  /\ Oldest(Tail(w), p, n) /\ Head(w) \in Events /\ Head(w).from = p
                           /\ Head(w).n <= n
                           /\ \A j \in 1..Len(Tail(w)) : Head(w).n < Tail(w)[j].n
                           /\ \A j \in 1..Len(Tail(w)) : j + 1 \in 1..Len(w) /\ Tail(w)[j] = w[j + 1]
                           /\ \A e : In(w, e) => e = Head(w) \/ In(Tail(w), e)
  <1>1. Len(w) >= 1 /\ Head(w) = w[1] /\ Len(Tail(w)) = Len(w) - 1 /\ Len(w) \in Nat
    BY EmptySeq
  <1>2. \A j \in 1..Len(Tail(w)) : Tail(w)[j] = w[j + 1] /\ j + 1 \in 1..Len(w)
    BY <1>1
  <1>3. Oldest(Tail(w), p, n)
    BY <1>1, <1>2 DEF Oldest
  <1>4. \A i \in 1..Len(w) : i = 1 \/ (i - 1 \in 1..Len(Tail(w)) /\ Tail(w)[i - 1] = w[i])
    BY <1>1, <1>2
  <1>5. Head(w) \in Events /\ Head(w).from = p /\ Head(w).n <= n
    BY <1>1 DEF Oldest
  <1>6. \A j \in 1..Len(Tail(w)) : Head(w).n < Tail(w)[j].n
    BY <1>1, <1>2 DEF Oldest
  <1>7. \A e : In(w, e) => e = Head(w) \/ In(Tail(w), e)
    BY <1>1, <1>4 DEF In
  <1> QED BY <1>1, <1>2, <1>3, <1>5, <1>6, <1>7

\* A function on 1..n is a sequence of length n.
LEMMA MapIsSeq == ASSUME NEW T, NEW n \in Nat, NEW f \in [1..n -> T] PROVE f \in Seq(T) /\ Len(f) = n
  OBVIOUS

-----------------------------------------------------------------------------
(* subscribe and the function it returns.                                  *)

\* A new subscription changes no other, and none of what others got or are owed.
LEMMA SubscribeKeeps == ASSUME EventInv, NEW p \in Node, Subscribe(p) PROVE EventInv'
  <1> USE DEF EventInv
  <1> DEFINE s == Len(subs) + 1
             g == IF channel[p] = 0 THEN Len(groups) + 1 ELSE channel[p]
             x == [at |-> p, group |-> g, on |-> TRUE, cut |-> FALSE]
  <1>1. /\ Len(subs) \in Nat /\ Len(groups) \in Nat /\ Len(got) = Len(subs) /\ Len(owed) = Len(subs)
        /\ DOMAIN subs = 1..Len(subs) /\ DOMAIN groups = 1..Len(groups)
        /\ channel[p] \in 0..Len(groups)
    BY DEF EventType
  <1>2. /\ subs' = Append(subs, x) /\ got' = Append(got, <<>>) /\ owed' = Append(owed, {})
        /\ channel' = [channel EXCEPT ![p] = g]
        /\ groups' = IF channel[p] = 0 THEN Append(groups, {s}) ELSE [groups EXCEPT ![g] = @ \cup {s}]
        /\ UNCHANGED <<member, wire, micro, events, unsubs>>
    BY DEF Subscribe
  <1>3. x \in Subs /\ g \in Nat /\ g # 0
    BY <1>1 DEF Subs
  <1>4. /\ groups' \in Seq(SUBSET Nat) /\ Len(groups') \in {Len(groups), g}
        /\ Len(groups') >= Len(groups) /\ g \in 1..Len(groups') /\ s \in groups'[g]
        /\ \A h \in 1..Len(groups) : groups[h] \subseteq groups'[h]
        /\ \A h \in 1..Len(groups') : \A t \in groups'[h] :
              (h \in 1..Len(groups) /\ t \in groups[h]) \/ (h = g /\ t = s)
    <2>1. CASE channel[p] = 0
      <3>1. groups' = Append(groups, {s}) /\ g = Len(groups) + 1 /\ {s} \in SUBSET Nat
        BY <1>1, <1>2, <2>1
      <3>2. groups' \in Seq(SUBSET Nat) /\ Len(groups') = g /\ groups'[g] = {s}
            /\ \A h \in 1..Len(groups) : groups'[h] = groups[h]
        BY <1>1, <3>1 DEF EventType
      <3>3. \A h \in 1..Len(groups') : h = g \/ h \in 1..Len(groups)
        BY <1>1, <3>1, <3>2
      <3> HIDE DEF g, s
      <3> QED BY <1>1, <3>1, <3>2, <3>3
    <2>2. CASE channel[p] # 0
      BY <1>1, <1>2, <2>2, ExceptSeq DEF EventType
    <2> QED BY <2>1, <2>2
  <1>5. /\ subs' \in Seq(Subs) /\ Len(subs') = s /\ subs'[s] = x /\ s \in Nat
        /\ \A t \in 1..Len(subs) : subs'[t] = subs[t]
        /\ got' \in Seq(Seq(Events)) /\ Len(got') = s /\ got'[s] = <<>>
        /\ \A t \in 1..Len(subs) : got'[t] = got[t]
        /\ owed' \in Seq(SUBSET Events) /\ Len(owed') = s /\ owed'[s] = {}
        /\ \A t \in 1..Len(subs) : owed'[t] = owed[t]
    BY <1>1, <1>2, <1>3 DEF EventType
  <1>6. DOMAIN subs' = 1..s /\ DOMAIN groups' = 1..Len(groups') /\ \A t \in 1..s : t = s \/ t \in 1..Len(subs)
    <2>1. \A t \in 1..s : t = s \/ t \in 1..Len(subs)
      BY <1>1
    <2> HIDE DEF s, g, x
    <2>2. DOMAIN subs' = 1..s
      BY <1>5
    <2>3. DOMAIN groups' = 1..Len(groups')
      BY <1>4
    <2> QED BY <2>1, <2>2, <2>3
  <1> HIDE DEF s, g, x
  <1>7. x.at = p /\ x.group = g
    BY DEF x
  <1>8. EventType'
    <2>1. Len(groups') \in Nat /\ g \in 0..Len(groups') /\ 0..Len(groups) \subseteq 0..Len(groups')
      BY <1>1, <1>4
    <2>2. channel' \in [Node -> 0..Len(groups')]
      BY <1>2, <2>1 DEF EventType
    <2> QED BY <1>2, <1>4, <1>5, <2>2 DEF EventType
  <1>9. GroupsSound'
    <2>1. ASSUME NEW t \in 1..s PROVE subs'[t].group \in 1..Len(groups')
      <3>1. t \in 1..Len(subs) => subs[t].group \in 1..Len(groups)
        BY DEF GroupsSound
      <3>2. 1..Len(groups) \subseteq 1..Len(groups')
        BY <1>1, <1>4
      <3> QED BY <1>4, <1>5, <1>6, <1>7, <3>1, <3>2
    <2>2. ASSUME NEW h \in 1..Len(groups'), NEW t \in groups'[h] PROVE t \in 1..s /\ subs'[t].group = h
      <3>1. h \in 1..Len(groups) /\ t \in groups[h] => t \in 1..Len(subs) /\ subs[t].group = h
        BY DEF GroupsSound
      <3>2. s \in 1..s /\ 1..Len(subs) \subseteq 1..s
        BY <1>1 DEF s
      <3> QED BY <1>4, <1>5, <1>7, <2>2, <3>1, <3>2, ZenonT(30)
    <2> QED BY <1>5, <2>1, <2>2, SMTT(30) DEF GroupsSound
  <1>10. g = channel[p] \/ (channel[p] = 0 /\ g = Len(groups) + 1)
    BY DEF g
  <1>11. \A r \in Node : channel'[r] = IF r = p THEN g ELSE channel[r]
    BY <1>2 DEF EventType
  <1>12. \A r \in Node : channel[r] \in 0..Len(groups)
    BY DEF EventType
  <1>13. ChannelsSound'
    <2>1. ASSUME NEW t \in 1..s, NEW r \in Node, subs'[t].group = channel'[r] PROVE subs'[t].at = r
      <3>1. CASE t = s
        <4>1. channel'[r] = g
          BY <1>5, <1>7, <2>1, <3>1
        <4>2. r = p
          BY <1>1, <1>3, <1>10, <1>11, <1>12, <4>1 DEF ChannelsSound
        <4> QED BY <1>5, <1>7, <3>1, <4>2
      <3>2. CASE t \in 1..Len(subs)
        <4>1. subs[t].group \in 1..Len(groups) /\ subs'[t] = subs[t]
          BY <1>1, <1>5, <3>2 DEF GroupsSound
        <4>2. channel'[r] = channel[r]
          BY <1>1, <1>10, <1>11, <2>1, <4>1
        <4> QED BY <1>1, <2>1, <3>2, <4>1, <4>2 DEF ChannelsSound
      <3> QED BY <1>6, <3>1, <3>2
    <2>2. ASSUME NEW r \in Node, NEW q \in Node, channel'[r] = channel'[q], channel'[r] # 0 PROVE r = q
      BY <1>1, <1>10, <1>11, <1>12, <2>2 DEF ChannelsSound
    <2> QED BY <1>5, <2>1, <2>2 DEF ChannelsSound
  <1>14. \A t \in 1..Len(subs) : Standing(t)' <=> Standing(t)
    BY <1>5 DEF Standing
  <1>15. StandingHeld'
    <2> SUFFICES ASSUME NEW t \in 1..s, NEW r \in Node, Standing(t)', subs'[t].at = r PROVE t \in Held(r)'
      BY <1>5 DEF StandingHeld
    <2>1. CASE t = s
      BY <1>3, <1>4, <1>5, <1>7, <1>11, <2>1 DEF Held
    <2>2. CASE t \in 1..Len(subs)
      <3>1. t \in Held(r)
        BY <1>5, <1>14, <2>2 DEF StandingHeld
      <3>2. channel[r] # 0 /\ t \in groups[channel[r]]
        BY <3>1 DEF Held
      <3>3. channel'[r] = channel[r] /\ channel[r] \in 1..Len(groups)
        BY <1>10, <1>11, <1>12, <3>2
      <3>4. t \in groups'[channel[r]]
        BY <1>1, <1>4, <3>2, <3>3
      <3> QED BY <3>2, <3>3, <3>4 DEF Held
    <2> QED BY <1>6, <2>1, <2>2
  <1>16. \A r, q \in Node : Lane(r, q)' = Lane(r, q)
    BY <1>2 DEF Lane
  <1>17. LanesOrdered'
    BY <1>2, <1>16 DEF LanesOrdered
  <1>18. GotSorted'
    BY <1>2, <1>5, <1>6 DEF GotSorted, Sorted
  <1>19. GotFirst'
    <2> SUFFICES ASSUME NEW t \in 1..s, NEW r \in Node, NEW q \in Node, subs'[t].at = q
                 PROVE  Before(got'[t], r, Lane(r, q))
      BY <1>5, <1>16, ZenonT(30) DEF GotFirst
    <2>1. CASE t = s
      BY <1>5, <2>1 DEF Before
    <2>2. CASE t \in 1..Len(subs)
      BY <1>5, <2>2 DEF GotFirst
    <2> QED BY <1>6, <2>1, <2>2
  <1>20. \A q \in Node, e \in Events : Coming(e, q)' <=> Coming(e, q)
    BY <1>16 DEF Coming
  <1>21. OwedComes'
    <2> SUFFICES ASSUME NEW t \in 1..s, NEW q \in Node, Standing(t)', subs'[t].at = q, NEW e \in owed'[t]
                 PROVE  Coming(e, q)' \/ In(got'[t], e)
      BY <1>5 DEF OwedComes
    <2>1. t \in 1..Len(subs) /\ e \in Events
      BY <1>1, <1>5, <1>6 DEF EventType
    <2> QED BY <1>5, <1>14, <1>20, <2>1 DEF OwedComes
  <1> QED BY <1>8, <1>9, <1>13, <1>15, <1>17, <1>18, <1>19, <1>21

\* A subscription that ends takes no other with it, but those that are cut off.
LEMMA UnsubscribeKeeps == ASSUME EventInv, NEW s \in DOMAIN subs, UnsubscribeApp(s) PROVE EventInv'
  <1> USE DEF EventInv
  <1> DEFINE p == subs[s].at
             g == subs[s].group
             empty == groups[g] \ {s} = {}
             Ended(t) == [subs[t] EXCEPT !.on = @ /\ t # s,
                                         !.cut = @ \/ (empty /\ t \in Held(p) \ {s})]
  <1>1. /\ Len(subs) \in Nat /\ DOMAIN subs = 1..Len(subs) /\ s \in 1..Len(subs)
        /\ \A t \in 1..Len(subs) : subs[t] \in Subs /\ Ended(t) \in Subs
        /\ p \in Node /\ g \in 1..Len(groups)
    <2>1. Len(subs) \in Nat /\ DOMAIN subs = 1..Len(subs) /\ s \in 1..Len(subs)
      BY DEF EventType
    <2>2. \A t \in 1..Len(subs) : subs[t] \in Subs
      BY DEF EventType
    <2>3. \A t \in 1..Len(subs) : Ended(t) \in Subs
      BY <2>2, Zenon DEF Subs
    <2>4. g \in 1..Len(groups)
      BY <2>1 DEF GroupsSound
    <2> QED BY <2>1, <2>2, <2>3, <2>4 DEF Subs
  <1>2. /\ groups' = [groups EXCEPT ![g] = @ \ {s}]
        /\ channel' = IF empty THEN [channel EXCEPT ![p] = 0] ELSE channel
        /\ subs' = [t \in 1..Len(subs) |-> Ended(t)]
        /\ owed' = [owed EXCEPT ![s] = {}]
        /\ UNCHANGED <<member, wire, micro, events, got>>
    BY <1>1, Zenon DEF UnsubscribeApp
  <1>3. subs' \in Seq(Subs) /\ Len(subs') = Len(subs)
    <2>1. subs' \in [1..Len(subs) -> Subs]
      BY <1>1, <1>2, Zenon
    <2> QED BY <1>1, <2>1, MapIsSeq
  <1>4. \A t \in 1..Len(subs) : /\ subs'[t].at = subs[t].at /\ subs'[t].group = subs[t].group
                                /\ subs'[t].on <=> (subs[t].on /\ t # s)
                                /\ subs'[t].cut <=> (subs[t].cut \/ (empty /\ t \in Held(p) \ {s}))
    BY <1>1, <1>2 DEF Subs
  <1>5. \A t \in 1..Len(subs) : Standing(t)' => Standing(t) /\ t # s /\ ~(empty /\ t \in Held(p))
    BY <1>4 DEF Standing
  <1> HIDE DEF p, g, empty, Ended
  <1>6. /\ groups' \in Seq(SUBSET Nat) /\ Len(groups') = Len(groups)
        /\ \A h \in 1..Len(groups) : groups'[h] = IF h = g THEN groups[h] \ {s} ELSE groups[h]
    <2>1. groups \in Seq(SUBSET Nat) /\ groups[g] \ {s} \in SUBSET Nat
      BY <1>1 DEF EventType
    <2>2. groups' = [groups EXCEPT ![g] = groups[g] \ {s}]
      BY <1>2
    <2>3. groups' \in Seq(SUBSET Nat) /\ Len(groups') = Len(groups)
      BY <1>1, <2>1, <2>2, ExceptSeq
    <2>4. \A h \in 1..Len(groups) : h \in DOMAIN groups
      BY <2>1
    <2> QED BY <2>2, <2>3, <2>4
  <1>7. /\ owed' \in Seq(SUBSET Events) /\ Len(owed') = Len(subs)
        /\ \A t \in 1..Len(subs) : t # s => owed'[t] = owed[t]
    <2>1. owed \in Seq(SUBSET Events) /\ Len(owed) = Len(subs) /\ {} \in SUBSET Events
      BY DEF EventType
    <2> QED BY <1>1, <1>2, <2>1, ExceptSeq
  <1>8. /\ channel \in [Node -> 0..Len(groups)] /\ channel' \in [Node -> 0..Len(groups)]
        /\ \A r \in Node : channel'[r] = IF empty /\ r = p THEN 0 ELSE channel[r]
    <2>1. channel \in [Node -> 0..Len(groups)] /\ 0 \in 0..Len(groups)
      BY DEF EventType
    <2> QED BY <1>1, <1>2, <2>1
  <1>9. EventType'
    BY <1>2, <1>3, <1>6, <1>7, <1>8 DEF EventType
  <1>10. GroupsSound'
    <2>1. ASSUME NEW h \in 1..Len(groups), NEW t \in groups'[h] PROVE t \in 1..Len(subs) /\ subs'[t].group = h
      <3>1. t \in groups[h]
        BY <1>6, <2>1
      <3>2. t \in 1..Len(subs) /\ subs[t].group = h
        BY <3>1 DEF GroupsSound
      <3> QED BY <1>4, <3>2
    <2>2. ASSUME NEW t \in 1..Len(subs) PROVE subs'[t].group \in 1..Len(groups)
      BY <1>4 DEF GroupsSound
    <2> QED BY <1>3, <1>6, <2>1, <2>2 DEF GroupsSound
  <1>11. ChannelsSound'
    <2>1. ASSUME NEW t \in 1..Len(subs), NEW r \in Node, subs'[t].group = channel'[r] PROVE subs'[t].at = r
      <3>1. subs[t].group \in 1..Len(groups)
        BY DEF GroupsSound
      <3>2. channel'[r] = channel[r]
        BY <1>4, <1>8, <2>1, <3>1
      <3> QED BY <1>4, <2>1, <3>2 DEF ChannelsSound
    <2>2. ASSUME NEW r \in Node, NEW q \in Node, channel'[r] = channel'[q], channel'[r] # 0 PROVE r = q
      BY <1>8, <2>2 DEF ChannelsSound
    <2> QED BY <1>3, <2>1, <2>2 DEF ChannelsSound
  <1>12. StandingHeld'
    <2> SUFFICES ASSUME NEW t \in 1..Len(subs), NEW r \in Node, Standing(t)', subs'[t].at = r
                 PROVE  t \in Held(r)'
      BY <1>3 DEF StandingHeld
    <2>1. t \in Held(r) /\ t # s
      BY <1>4, <1>5 DEF StandingHeld
    <2>2. channel[r] # 0 /\ t \in groups[channel[r]] /\ channel[r] \in 1..Len(groups)
      BY <1>8, <2>1 DEF Held
    <2>3. channel'[r] = channel[r]
      BY <1>5, <1>8, <2>1
    <2>4. t \in groups'[channel[r]]
      BY <1>6, <2>1, <2>2
    <2> QED BY <2>2, <2>3, <2>4 DEF Held
  <1>13. \A r, q \in Node : Lane(r, q)' = Lane(r, q)
    BY <1>2 DEF Lane
  <1>14. LanesOrdered'
    BY <1>2, <1>13 DEF LanesOrdered
  <1>15. GotSorted'
    BY <1>2, <1>3 DEF GotSorted
  <1>16. GotFirst'
    BY <1>2, <1>3, <1>4, <1>13 DEF GotFirst
  <1>17. \A q \in Node, e \in Events : Coming(e, q)' <=> Coming(e, q)
    BY <1>13 DEF Coming
  <1>18. OwedComes'
    <2> SUFFICES ASSUME NEW t \in 1..Len(subs), NEW q \in Node, Standing(t)', subs'[t].at = q,
                        NEW e \in owed'[t]
                 PROVE  Coming(e, q)' \/ In(got'[t], e)
      BY <1>3 DEF OwedComes
    <2>1. Standing(t) /\ subs[t].at = q /\ e \in owed[t] /\ got'[t] = got[t]
      BY <1>2, <1>4, <1>5, <1>7
    <2>2. e \in Events
      BY <1>7 DEF EventType
    <2> QED BY <1>17, <2>1, <2>2 DEF OwedComes
  <1> QED BY <1>9, <1>10, <1>11, <1>12, <1>14, <1>15, <1>16, <1>18

-----------------------------------------------------------------------------
(* publish and delivery.                                                   *)

\* Steps of these kinds leave the tables alone.
LEMMA TablesKept == ASSUME EventInv, UNCHANGED <<groups, channel, subs>>
                    PROVE  GroupsSound' /\ ChannelsSound' /\ StandingHeld'
                           /\ \A t : Standing(t)' <=> Standing(t)
  BY DEF EventInv, GroupsSound, ChannelsSound, StandingHeld, Standing, Held

\* A message is put at the end of every lane it takes.
LEMMA PublishKeeps == ASSUME EventInv, NEW p \in Node, Publish(p, TRUE) \/ Publish(p, FALSE)
                      PROVE  EventInv'
  <1> USE DEF EventInv
  <1>0. PICK e \in Events : e = [from |-> p, n |-> events + 1]
    <2>1. events + 1 \in Nat
      BY DEF EventType
    <2>2. [from |-> p, n |-> events + 1] \in Events
      BY <2>1 DEF Events
    <2> QED BY <2>2
  <1>1. PICK others \in SUBSET member :
          /\ p \notin others /\ events' = e.n
          /\ wire' = [wire EXCEPT ![p] = [q \in Node |-> IF q \in others THEN Append(@[q], e) ELSE @[q]]]
          /\ micro' = [micro EXCEPT ![p] = Append(@, e)]
          /\ owed' = [s \in DOMAIN subs |->
                        IF s \in Subscribed(others \cup {p}) THEN owed[s] \cup {e} ELSE owed[s]]
          /\ UNCHANGED <<member, groups, channel, subs, got, unsubs>>
    <2>1. CASE Publish(p, TRUE)
      <3>1. member \ {p} \in SUBSET member /\ p \notin member \ {p}
        OBVIOUS
      <3> QED BY <1>0, <2>1, <3>1, Zenon DEF Publish
    <2>2. CASE Publish(p, FALSE)
      <3>1. {} \in SUBSET member /\ p \notin {}
        OBVIOUS
      <3> QED BY <1>0, <2>2, <3>1, Zenon DEF Publish
    <2> QED BY <2>1, <2>2
  <1>2. e \in Events /\ e.from = p /\ e.n = events + 1 /\ events \in Nat /\ events' = events + 1
    BY <1>0, <1>1 DEF EventType, Events
  <1>3. Len(subs) \in Nat /\ DOMAIN subs = 1..Len(subs) /\ others \subseteq Node
    BY DEF EventType
  <1>4. /\ wire' \in [Node -> [Node -> Seq(Events)]] /\ micro' \in [Node -> Seq(Events)]
        /\ \A r, q \in Node : wire'[r][q] = IF r = p /\ q \in others
                                            THEN Append(wire[r][q], e) ELSE wire[r][q]
        /\ \A r \in Node : micro'[r] = IF r = p THEN Append(micro[r], e) ELSE micro[r]
    <2>1. /\ wire \in [Node -> [Node -> Seq(Events)]] /\ micro \in [Node -> Seq(Events)]
          /\ \A q \in Node : Append(wire[p][q], e) \in Seq(Events) /\ Append(micro[p], e) \in Seq(Events)
      BY <1>2 DEF EventType
    <2>2. wire' = [wire EXCEPT ![p] = [q \in Node |-> IF q \in others THEN Append(wire[p][q], e)
                                                     ELSE wire[p][q]]]
      BY <1>1
    <2>3. micro' = [micro EXCEPT ![p] = Append(micro[p], e)]
      BY <1>1
    <2> QED BY <2>1, <2>2, <2>3
  <1>5. \A r, q \in Node : Lane(r, q)' = IF r = p /\ q \in others \cup {p} THEN Append(Lane(r, q), e)
                                         ELSE Lane(r, q)
    BY <1>1, <1>4 DEF Lane
  <1>6. /\ owed' \in Seq(SUBSET Events) /\ Len(owed') = Len(subs)
        /\ \A t \in 1..Len(subs) : owed'[t] \subseteq owed[t] \cup {e}
                                   /\ (subs[t].at \notin others \cup {p} => owed'[t] = owed[t])
    <2>1. owed' \in [1..Len(subs) -> SUBSET Events]
      BY <1>1, <1>2, <1>3 DEF EventType
    <2>2. \A t \in 1..Len(subs) : owed'[t] \subseteq owed[t] \cup {e}
                                   /\ (subs[t].at \notin others \cup {p} => owed'[t] = owed[t])
      BY <1>1, <1>3 DEF Subscribed
    <2> QED BY <1>3, <2>1, <2>2, MapIsSeq
  <1>7. EventType'
    BY <1>1, <1>2, <1>4, <1>6 DEF EventType
  <1>8. GroupsSound' /\ ChannelsSound' /\ StandingHeld' /\ \A t : Standing(t)' <=> Standing(t)
    BY <1>1, TablesKept
  <1>9. \A r, q \in Node : Lane(r, q) \in Seq(Events) /\ Oldest(Lane(r, q), r, events)
    BY LaneType DEF LanesOrdered
  <1>10. LanesOrdered'
    <2> SUFFICES ASSUME NEW r \in Node, NEW q \in Node
                 PROVE  Oldest(Lane(r, q)', r, events') /\ wire'[r][r] = <<>>
      BY DEF LanesOrdered
    <2>1. wire'[r][r] = <<>>
      BY <1>1, <1>4 DEF LanesOrdered
    <2>2. \A i \in 1..Len(Lane(r, q)) : Lane(r, q)[i].n \in Nat
      <3>1. \A i \in 1..Len(Lane(r, q)) : Lane(r, q)[i] \in Events
        BY <1>9
      <3> QED BY <3>1 DEF Events
    <2>3. Oldest(Lane(r, q), r, events + 1)
      BY <1>2, <1>9, <2>2, SMTT(30) DEF Oldest
    <2>4. r = p => Oldest(Append(Lane(r, q), e), r, events + 1)
      BY <1>2, <1>9, OldestAppend
    <2> QED BY <1>2, <1>5, <2>1, <2>3, <2>4
  <1>11. \A t \in 1..Len(subs) : got[t] \in Seq(Events) /\ \A i \in 1..Len(got[t]) : got[t][i].n \in Nat
    <2>1. \A t \in 1..Len(subs) : got[t] \in Seq(Events)
      BY <1>3 DEF EventType
    <2>2. \A t \in 1..Len(subs) : \A i \in 1..Len(got[t]) : got[t][i] \in Events
      BY <2>1
    <2> QED BY <2>1, <2>2 DEF Events
  <1>12. GotSorted'
    BY <1>1, <1>2, <1>11 DEF GotSorted, Sorted
  <1>13. GotFirst'
    <2> SUFFICES ASSUME NEW t \in 1..Len(subs), NEW r \in Node, NEW q \in Node, subs[t].at = q,
                        NEW i \in 1..Len(got[t]), NEW j \in 1..Len(Lane(r, q)'), got[t][i].from = r
                 PROVE  got[t][i].n < Lane(r, q)'[j].n
      BY <1>1 DEF GotFirst, Before
    <2>1. j \in 1..Len(Lane(r, q)) => got[t][i].n < Lane(r, q)[j].n
      BY DEF GotFirst, Before
    <2>2. got[t][i].n <= events /\ got[t][i].n \in Nat
      BY <1>11 DEF GotSorted, Sorted
    <2>3. CASE Lane(r, q)' = Append(Lane(r, q), e)
      <3>1. \/ j \in 1..Len(Lane(r, q)) /\ Lane(r, q)'[j] = Lane(r, q)[j]
            \/ Lane(r, q)'[j] = e
        <4>1. Lane(r, q) \in Seq(Events) /\ Len(Append(Lane(r, q), e)) = Len(Lane(r, q)) + 1
              /\ Len(Lane(r, q)) \in Nat
          BY <1>2, <1>9
        <4>2. \A k \in 1..Len(Lane(r, q)) + 1 : Append(Lane(r, q), e)[k] = IF k \in 1..Len(Lane(r, q))
                                                                      THEN Lane(r, q)[k] ELSE e
          BY <1>2, <4>1
        <4> QED BY <2>3, <4>1, <4>2
      <3> QED BY <1>2, <2>1, <2>2, <3>1, SMTT(30)
    <2>4. CASE Lane(r, q)' = Lane(r, q)
      BY <2>1, <2>4
    <2> QED BY <1>5, <2>3, <2>4
  <1>14. \A x \in Events, q \in Node : Coming(x, q) => Coming(x, q)'
    <2> SUFFICES ASSUME NEW x \in Events, NEW q \in Node, NEW r \in Node, In(Lane(r, q), x)
                 PROVE  In(Lane(r, q)', x)
      BY DEF Coming
    <2>1. CASE Lane(r, q)' = Append(Lane(r, q), e)
      <3>1. PICK i \in 1..Len(Lane(r, q)) : Lane(r, q)[i] = x
        BY DEF In
      <3>2. Lane(r, q) \in Seq(Events)
        BY <1>9
      <3>3. i \in 1..Len(Append(Lane(r, q), e)) /\ Append(Lane(r, q), e)[i] = Lane(r, q)[i]
        BY <1>2, <3>2
      <3> QED BY <2>1, <3>1, <3>3 DEF In
    <2>2. CASE Lane(r, q)' = Lane(r, q)
      BY <2>2
    <2> QED BY <1>5, <2>1, <2>2
  <1>15. \A q \in others \cup {p} : Coming(e, q)'
    <2> TAKE q \in others \cup {p}
    <2>1. q \in Node /\ Lane(p, q)' = Append(Lane(p, q), e) /\ Lane(p, q) \in Seq(Events)
      BY <1>3, <1>5, <1>9
    <2>2. Len(Append(Lane(p, q), e)) = Len(Lane(p, q)) + 1 /\ Len(Lane(p, q)) \in Nat
          /\ Append(Lane(p, q), e)[Len(Lane(p, q)) + 1] = e
      BY <1>2, <2>1
    <2>3. In(Lane(p, q)', e)
      BY <2>1, <2>2 DEF In
    <2> QED BY <2>3 DEF Coming
  <1>16. OwedComes'
    <2> SUFFICES ASSUME NEW t \in 1..Len(subs), NEW q \in Node, Standing(t), subs[t].at = q,
                        NEW x \in owed'[t]
                 PROVE  Coming(x, q)' \/ In(got[t], x)
      BY <1>1, <1>8 DEF OwedComes
    <2>1. CASE x \in owed[t]
      <3>1. x \in Events
        BY <2>1 DEF EventType
      <3> QED BY <1>14, <2>1, <3>1 DEF OwedComes
    <2>2. CASE x \notin owed[t]
      <3>1. x = e
        <4>1. owed'[t] \subseteq owed[t] \cup {e}
          BY <1>6
        <4> QED BY <2>2, <4>1
      <3>2. q \in others \cup {p}
        <4>1. subs[t].at \notin others \cup {p} => owed'[t] = owed[t]
          BY <1>6
        <4> QED BY <2>2, <4>1
      <3> QED BY <1>15, <3>1, <3>2
    <2> QED BY <2>1, <2>2
  <1> QED BY <1>7, <1>8, <1>10, <1>12, <1>13, <1>16

\* The handlers a delivery on q calls are of q.
LEMMA HeldAt == ASSUME EventInv, NEW q \in Node, NEW t \in Held(q) PROVE t \in 1..Len(subs) /\ subs[t].at = q
  <1> USE DEF EventInv
  <1>1. channel[q] # 0 /\ t \in groups[channel[q]] /\ channel[q] \in 0..Len(groups)
    BY DEF Held, EventType
  <1>2. channel[q] \in 1..Len(groups)
    BY <1>1 DEF EventType
  <1>3. t \in 1..Len(subs) /\ subs[t].group = channel[q]
    BY <1>1, <1>2 DEF GroupsSound
  <1> QED BY <1>3 DEF ChannelsSound

\* The head of a lane is taken, and every handler of the channel gets it.
LEMMA DeliveryKeeps ==
    ASSUME EventInv, NEW p \in Node, NEW q \in Node, Lane(p, q) # <<>>,
           EventType', DeliverApp(q, Head(Lane(p, q))),
           UNCHANGED <<groups, channel, subs, events, owed>>,
           \A r, k \in Node : wire'[r][r] = <<>>
             /\ Lane(r, k)' = IF r = p /\ k = q THEN Tail(Lane(r, k)) ELSE Lane(r, k)
    PROVE  EventInv'
  <1> USE DEF EventInv
  <1> DEFINE w == Lane(p, q)
             h == Head(w)
  <1>1. /\ w \in Seq(Events) /\ Oldest(w, p, events) /\ events \in Nat
        /\ Len(subs) \in Nat /\ DOMAIN subs = 1..Len(subs)
    <2>1. w \in Seq(Events)
      BY LaneType
    <2>2. Oldest(w, p, events)
      BY DEF LanesOrdered
    <2>3. events \in Nat /\ Len(subs) \in Nat /\ DOMAIN subs = 1..Len(subs)
      BY DEF EventType
    <2> QED BY <2>1, <2>2, <2>3
  <1>2. /\ Oldest(Tail(w), p, events) /\ h \in Events /\ h.from = p /\ h.n <= events
        /\ \A j \in 1..Len(Tail(w)) : h.n < Tail(w)[j].n
        /\ \A j \in 1..Len(Tail(w)) : j + 1 \in 1..Len(w) /\ Tail(w)[j] = w[j + 1]
        /\ \A e : In(w, e) => e = h \/ In(Tail(w), e)
        /\ h = w[1] /\ 1 \in 1..Len(w)
    <2>1. h = w[1] /\ 1 \in 1..Len(w)
      BY <1>1, EmptySeq
    <2> QED BY <1>1, <2>1, OldestTail
  <1>3. \A t \in 1..Len(subs) : got'[t] = IF t \in Held(q) THEN Append(got[t], h) ELSE got[t]
    BY <1>1 DEF DeliverApp
  <1>4. \A r, k \in Node : Lane(r, k)' = IF r = p /\ k = q THEN Tail(w) ELSE Lane(r, k)
    OBVIOUS
  <1> HIDE DEF w, h
  <1>5. \A t \in 1..Len(subs) : got[t] \in Seq(Events)
          /\ \A i \in 1..Len(got[t]) : got[t][i] \in Events /\ got[t][i].n \in Nat
    <2>1. \A t \in 1..Len(subs) : got[t] \in Seq(Events)
      BY SMTT(30) DEF EventType
    <2>2. \A t \in 1..Len(subs) : \A i \in 1..Len(got[t]) : got[t][i] \in Events
      BY <2>1
    <2> QED BY <2>1, <2>2 DEF Events
  <1>6. \A t \in 1..Len(subs) : \/ got'[t] = got[t] /\ t \notin Held(q)
                                \/ /\ t \in Held(q) /\ subs[t].at = q
                                   /\ Len(got[t]) \in Nat /\ Len(got'[t]) = Len(got[t]) + 1
                                   /\ got'[t][Len(got[t]) + 1] = h
                                   /\ \A i \in 1..Len(got[t]) : got'[t][i] = got[t][i]
    <2> TAKE t \in 1..Len(subs)
    <2>1. CASE t \in Held(q)
      <3>1. subs[t].at = q
        BY <2>1, HeldAt
      <3>2. got'[t] = Append(got[t], h) /\ got[t] \in Seq(Events)
        BY <1>3, <1>5, <2>1
      <3> QED BY <1>2, <2>1, <3>1, <3>2
    <2>2. CASE t \notin Held(q)
      BY <1>3, <2>2
    <2> QED BY <2>1, <2>2
  <1>7. h.n \in Nat
    BY <1>2 DEF Events
  <1>8. ASSUME NEW t \in 1..Len(subs), subs[t].at = q PROVE Before(got[t], p, w)
    BY <1>8 DEF GotFirst, w
  <1>9. LanesOrdered'
    <2>1. \A r, k \in Node : Oldest(Lane(r, k), r, events)
      BY DEF LanesOrdered
    <2> QED BY <1>2, <1>4, <2>1, ZenonT(30) DEF LanesOrdered
  <1>10. GotSorted'
    <2> SUFFICES ASSUME NEW t \in 1..Len(subs) PROVE Sorted(got'[t], events)
      BY DEF GotSorted
    <2>1. Sorted(got[t], events)
      BY DEF GotSorted
    <2>2. CASE got'[t] = got[t]
      BY <2>1, <2>2
    <2>3. CASE got'[t] # got[t]
      <3>1. /\ subs[t].at = q /\ Len(got[t]) \in Nat /\ Len(got'[t]) = Len(got[t]) + 1
            /\ got'[t][Len(got[t]) + 1] = h
            /\ \A i \in 1..Len(got[t]) : got'[t][i] = got[t][i]
        BY <1>6, <2>3
      <3>2. \A i \in 1..Len(got[t]) : got[t][i].from = p => got[t][i].n < h.n
        BY <1>2, <1>8, <3>1 DEF Before
      <3>3. ASSUME NEW i \in 1..Len(got'[t]) PROVE got'[t][i].n <= events
        <4>1. i = Len(got[t]) + 1 \/ i \in 1..Len(got[t])
          BY <3>1
        <4> QED BY <1>2, <2>1, <3>1, <4>1 DEF Sorted
      <3>4. ASSUME NEW i \in 1..Len(got'[t]), NEW j \in 1..Len(got'[t]), i < j,
                   got'[t][i].from = got'[t][j].from
            PROVE  got'[t][i].n < got'[t][j].n
        <4>1. i \in 1..Len(got[t])
          BY <3>1, <3>4
        <4>2. CASE j = Len(got[t]) + 1
          BY <1>2, <3>1, <3>2, <3>4, <4>1, <4>2
        <4>3. CASE j \in 1..Len(got[t])
          BY <2>1, <3>1, <3>4, <4>1, <4>3 DEF Sorted
        <4> QED BY <3>1, <4>2, <4>3
      <3> QED BY <3>3, <3>4 DEF Sorted
    <2> QED BY <2>2, <2>3
  <1>11. GotFirst'
    <2> SUFFICES ASSUME NEW t \in 1..Len(subs), NEW r \in Node, NEW k \in Node, subs[t].at = k,
                        NEW i \in 1..Len(got'[t]), NEW j \in 1..Len(Lane(r, k)'), got'[t][i].from = r
                 PROVE  got'[t][i].n < Lane(r, k)'[j].n
      BY DEF GotFirst, Before
    <2>1. \E m \in 1..Len(Lane(r, k)) : Lane(r, k)'[j] = Lane(r, k)[m]
      BY <1>2, <1>4, SMTT(30) DEF w
    <2>2. CASE i \in 1..Len(got[t]) /\ got'[t][i] = got[t][i]
      BY <2>1, <2>2, ZenonT(30) DEF GotFirst, Before
    <2>3. CASE ~(i \in 1..Len(got[t]) /\ got'[t][i] = got[t][i])
      <3>1. got'[t][i] = h /\ k = q
        <4>1. got'[t] # got[t]
          BY <2>3
        <4>2. /\ subs[t].at = q /\ Len(got[t]) \in Nat /\ Len(got'[t]) = Len(got[t]) + 1
              /\ got'[t][Len(got[t]) + 1] = h
              /\ \A m \in 1..Len(got[t]) : got'[t][m] = got[t][m]
          BY <1>6, <4>1
        <4>3. i = Len(got[t]) + 1
          BY <2>3, <4>2, SMTT(30)
        <4> QED BY <4>2, <4>3
      <3>2. r = p
        BY <1>2, <3>1
      <3>3. Lane(r, k)' = Tail(w)
        BY <1>4, <3>1, <3>2
      <3> QED BY <1>2, <3>1, <3>3
    <2> QED BY <2>2, <2>3
  <1>12. GroupsSound' /\ ChannelsSound' /\ StandingHeld' /\ \A t : Standing(t)' <=> Standing(t)
    BY TablesKept
  <1>13. OwedComes'
    <2> SUFFICES ASSUME NEW t \in 1..Len(subs), NEW k \in Node, Standing(t), subs[t].at = k, NEW e \in owed[t]
                 PROVE  Coming(e, k)' \/ In(got'[t], e)
      BY <1>12 DEF OwedComes
    <2>1. Coming(e, k) \/ In(got[t], e)
      BY DEF OwedComes
    <2>2. CASE In(got[t], e)
      <3>1. PICK i \in 1..Len(got[t]) : got[t][i] = e
        BY <2>2 DEF In
      <3>2. i \in 1..Len(got'[t]) /\ got'[t][i] = got[t][i]
        BY <1>6
      <3> QED BY <3>1, <3>2 DEF In
    <2>3. CASE Coming(e, k)
      <3>1. PICK r \in Node : In(Lane(r, k), e)
        BY <2>3 DEF Coming
      <3>2. CASE r = p /\ k = q
        <4>1. e = h \/ In(Tail(w), e)
          BY <1>2, <3>1, <3>2 DEF w
        <4>2. t \in Held(q)
          BY <3>2 DEF StandingHeld
        <4>3. Len(got[t]) + 1 \in 1..Len(got'[t]) /\ got'[t][Len(got[t]) + 1] = h
          BY <1>6, <4>2
        <4>4. In(got'[t], h)
          BY <4>3 DEF In
        <4>5. In(Tail(w), e) => In(Lane(r, k)', e)
          BY <1>4, <3>2
        <4> QED BY <4>1, <4>4, <4>5 DEF Coming
      <3>3. CASE ~(r = p /\ k = q)
        <4>1. Lane(r, k)' = Lane(r, k)
          BY <1>4, <3>3
        <4>2. In(Lane(r, k)', e)
          BY <3>1, <4>1
        <4> QED BY <4>2 DEF Coming
      <3> QED BY <3>2, <3>3
    <2> QED BY <2>1, <2>2, <2>3
  <1> QED BY <1>9, <1>10, <1>11, <1>12, <1>13

\* What a delivery does to got keeps its type.
LEMMA GotType == ASSUME EventInv, NEW q \in Node, NEW e \in Events, DeliverApp(q, e)
                 PROVE  got' \in Seq(Seq(Events)) /\ Len(got') = Len(subs)
  <1>1. Len(subs) \in Nat /\ DOMAIN subs = 1..Len(subs) /\ \A t \in 1..Len(subs) : got[t] \in Seq(Events)
    BY DEF EventInv, EventType
  <1>2. \A t \in 1..Len(subs) : Append(got[t], e) \in Seq(Events)
    BY <1>1
  <1>3. got' \in [1..Len(subs) -> Seq(Events)]
    BY <1>1, <1>2 DEF DeliverApp
  <1> QED BY <1>1, <1>3, MapIsSeq

\* The microtask.
LEMMA OwnDeliveryKeeps == ASSUME EventInv, NEW p \in Node, OwnDelivery(p) PROVE EventInv'
  <1>1. /\ Lane(p, p) # <<>> /\ DeliverApp(p, Head(Lane(p, p)))
        /\ micro' = [micro EXCEPT ![p] = Tail(micro[p])]
        /\ UNCHANGED <<member, wire, groups, channel, subs, events, owed>>
    BY DEF OwnDelivery, Lane
  <1>2. micro \in [Node -> Seq(Events)] /\ micro[p] # <<>> /\ micro[p] \in Seq(Events)
    BY DEF EventInv, EventType, OwnDelivery
  <1>3. Head(Lane(p, p)) \in Events /\ Tail(micro[p]) \in Seq(Events)
    BY <1>2, EmptySeq DEF Lane
  <1>4. EventType'
    <2>1. micro' \in [Node -> Seq(Events)]
      BY <1>1, <1>2, <1>3
    <2>2. got' \in Seq(Seq(Events)) /\ Len(got') = Len(subs)
      BY <1>1, <1>3, GotType
    <2> QED BY <1>1, <2>1, <2>2 DEF EventInv, EventType
  <1>5. \A r, k \in Node : wire'[r][r] = <<>>
          /\ Lane(r, k)' = IF r = p /\ k = p THEN Tail(Lane(r, k)) ELSE Lane(r, k)
    BY <1>1, <1>2 DEF Lane, EventInv, LanesOrdered
  <1> QED BY <1>1, <1>4, <1>5, DeliveryKeeps

\* The message of a peer.
LEMMA AppMessageKeeps == ASSUME EventInv, NEW p \in Node, NEW q \in Node, AppMessage(p, q) PROVE EventInv'
  <1>1. p # q
    BY DEF AppMessage, EventInv, LanesOrdered
  <1>2. /\ Lane(p, q) # <<>> /\ DeliverApp(q, Head(Lane(p, q)))
        /\ wire' = [wire EXCEPT ![p] = [wire[p] EXCEPT ![q] = Tail(wire[p][q])]]
        /\ UNCHANGED <<member, micro, groups, channel, subs, events, owed>>
    BY <1>1 DEF AppMessage, Lane
  <1>3. wire \in [Node -> [Node -> Seq(Events)]] /\ wire[p][q] # <<>> /\ wire[p][q] \in Seq(Events)
    BY DEF EventInv, EventType, AppMessage
  <1>4. Head(Lane(p, q)) \in Events /\ Tail(wire[p][q]) \in Seq(Events)
    BY <1>1, <1>3, EmptySeq DEF Lane
  <1>5. EventType'
    <2>1. wire' \in [Node -> [Node -> Seq(Events)]]
      BY <1>2, <1>3, <1>4
    <2>2. got' \in Seq(Seq(Events)) /\ Len(got') = Len(subs)
      BY <1>2, <1>4, GotType
    <2> QED BY <1>2, <2>1, <2>2 DEF EventInv, EventType
  <1>6. \A r, k \in Node : wire'[r][k] = IF r = p /\ k = q THEN Tail(wire[r][k]) ELSE wire[r][k]
    BY <1>2, <1>3
  <1>7. \A r \in Node : wire[r][r] = <<>>
    BY DEF EventInv, LanesOrdered
  <1>8. \A r, k \in Node : wire'[r][r] = <<>>
          /\ Lane(r, k)' = IF r = p /\ k = q THEN Tail(Lane(r, k)) ELSE Lane(r, k)
    BY <1>1, <1>2, <1>6, <1>7 DEF Lane
  <1> QED BY <1>2, <1>5, <1>8, DeliveryKeeps

-----------------------------------------------------------------------------
(* stop and start.                                                         *)

\* The lanes to p from others are cleared, and its handlers are owed only its own.
LEMMA StopKeeps == ASSUME EventInv, NEW p \in Node, StopNode(p) PROVE EventInv'
  <1> USE DEF EventInv
  <1>1. /\ member' = member \ {p} /\ wire' = [q \in Node |-> [wire[q] EXCEPT ![p] = <<>>]]
        /\ owed' = [s \in DOMAIN subs |-> IF subs[s].at = p THEN {e \in owed[s] : e.from = p} ELSE owed[s]]
        /\ UNCHANGED <<micro, groups, channel, subs, events, got>>
    BY DEF StopNode
  <1>2. Len(subs) \in Nat /\ DOMAIN subs = 1..Len(subs) /\ events \in Nat
    BY DEF EventType
  <1>3. /\ wire' \in [Node -> [Node -> Seq(Events)]]
        /\ \A r, k \in Node : wire'[r][k] = IF k = p THEN <<>> ELSE wire[r][k]
    <2>1. wire \in [Node -> [Node -> Seq(Events)]] /\ <<>> \in Seq(Events)
      BY DEF EventType
    <2> QED BY <1>1, <2>1
  <1>4. \A r, k \in Node : Lane(r, k)' = IF k = p /\ r # p THEN <<>> ELSE Lane(r, k)
    BY <1>1, <1>3 DEF Lane
  <1>5. /\ owed' \in Seq(SUBSET Events) /\ Len(owed') = Len(subs)
        /\ \A t \in 1..Len(subs) : owed'[t] \subseteq owed[t]
                                   /\ (subs[t].at = p => \A e \in owed'[t] : e.from = p)
    <2>1. owed' \in [1..Len(subs) -> SUBSET Events]
      BY <1>1, <1>2 DEF EventType
    <2>2. \A t \in 1..Len(subs) : subs[t].at = p => \A e \in owed'[t] : e.from = p
      BY <1>1, <1>2
    <2>3. \A t \in 1..Len(subs) : owed'[t] \subseteq owed[t]
      BY <1>1, <1>2
    <2> QED BY <1>2, <2>1, <2>2, <2>3, MapIsSeq
  <1>6. EventType'
    BY <1>1, <1>3, <1>5 DEF EventType
  <1>7. GroupsSound' /\ ChannelsSound' /\ StandingHeld' /\ \A t : Standing(t)' <=> Standing(t)
    BY <1>1, TablesKept
  <1>8. \A r, k \in Node : Lane(r, k) \in Seq(Events) /\ Oldest(Lane(r, k), r, events) /\ wire[r][r] = <<>>
    BY LaneType DEF LanesOrdered
  <1>9. LanesOrdered'
    <2>1. \A r \in Node : Oldest(<<>>, r, events)
      BY DEF Oldest
    <2>2. \A r, k \in Node : Oldest(Lane(r, k)', r, events)
      BY <1>4, <1>8, <2>1
    <2>3. \A r \in Node : wire'[r][r] = <<>>
      BY <1>3, <1>8
    <2> QED BY <1>1, <2>2, <2>3 DEF LanesOrdered
  <1>10. GotSorted'
    BY <1>1 DEF GotSorted
  <1>11. GotFirst'
    <2>1. \A v, r : Before(v, r, <<>>)
      BY DEF Before
    <2> QED BY <1>1, <1>4, <2>1 DEF GotFirst
  <1>12. OwedComes'
    <2> SUFFICES ASSUME NEW t \in 1..Len(subs), NEW k \in Node, Standing(t), subs[t].at = k,
                        NEW e \in owed'[t]
                 PROVE  Coming(e, k)' \/ In(got[t], e)
      BY <1>1, <1>7 DEF OwedComes
    <2>1. Coming(e, k) \/ In(got[t], e)
      BY <1>5 DEF OwedComes
    <2>2. ASSUME Coming(e, k) PROVE Coming(e, k)'
      <3>1. PICK r \in Node : In(Lane(r, k), e)
        BY <2>2 DEF Coming
      <3>2. e.from = r
        BY <1>8, <3>1 DEF In, Oldest
      <3>3. k = p => r = p
        BY <1>5, <3>2
      <3>4. Lane(r, k)' = Lane(r, k)
        BY <1>4, <3>3
      <3>5. In(Lane(r, k)', e)
        BY <3>1, <3>4
      <3> QED BY <3>5 DEF Coming
    <2> QED BY <2>1, <2>2
  <1> QED BY <1>6, <1>7, <1>9, <1>10, <1>11, <1>12

\* A step that changes only who is a member, or nothing.
LEMMA QuietKeeps == ASSUME EventInv, member' \subseteq Node,
                           UNCHANGED <<wire, micro, groups, channel, subs, events, got, owed>>
                    PROVE  EventInv'
  <1> USE DEF EventInv
  <1>1. GroupsSound' /\ ChannelsSound' /\ StandingHeld' /\ \A t : Standing(t)' <=> Standing(t)
    BY TablesKept
  <1>2. \A r, k \in Node : Lane(r, k)' = Lane(r, k)
    BY DEF Lane
  <1>3. \A k \in Node : \A e : Coming(e, k)' <=> Coming(e, k)
    BY <1>2 DEF Coming
  <1>4. EventType'
    BY DEF EventType
  <1>5. LanesOrdered' /\ GotSorted' /\ GotFirst'
    BY <1>2 DEF LanesOrdered, GotSorted, GotFirst
  <1>6. OwedComes'
    BY <1>1, <1>3 DEF OwedComes
  <1> QED BY <1>1, <1>4, <1>5, <1>6

-----------------------------------------------------------------------------
(* The theorem.                                                            *)

\* The invariant holds at first.
LEMMA EventStart == ASSUME EventInit PROVE EventInv
  <1>1. /\ <<>> \in Seq(Events) /\ <<>> \in Seq(SUBSET Nat) /\ <<>> \in Seq(Subs) /\ <<>> \in Seq(Seq(Events))
        /\ <<>> \in Seq(SUBSET Events) /\ 1..Len(<<>>) = {} /\ Len(<<>>) = 0
    OBVIOUS
  <1>2. EventType
    BY <1>1 DEF EventInit, EventType
  <1>3. \A p, q \in Node : Lane(p, q) = <<>> /\ wire[p][p] = <<>>
    BY DEF EventInit, Lane
  <1>4. LanesOrdered
    BY <1>1, <1>3 DEF LanesOrdered, Oldest
  <1>5. Len(subs) = 0 /\ 1..Len(subs) = {} /\ 1..Len(groups) = {} /\ \A p \in Node : channel[p] = 0
    BY <1>1 DEF EventInit
  <1> QED BY <1>2, <1>4, <1>5
          DEF EventInv, GroupsSound, ChannelsSound, StandingHeld, GotSorted, GotFirst, OwedComes

\* Every action keeps the invariant.
LEMMA EventStep == ASSUME EventInv, [EventNext]_eventVars PROVE EventInv'
  <1>1. ASSUME NEW p \in Node, StartNode(p) PROVE EventInv'
    <2>1. member' \subseteq Node /\ UNCHANGED <<wire, micro, groups, channel, subs, events, got, owed>>
      BY <1>1 DEF StartNode, EventInv, EventType
    <2> QED BY <2>1, QuietKeeps
  <1>2. CASE UNCHANGED eventVars
    <2>1. member' \subseteq Node /\ UNCHANGED <<wire, micro, groups, channel, subs, events, got, owed>>
      BY <1>2 DEF eventVars, EventInv, EventType
    <2> QED BY <2>1, QuietKeeps
  <1>3. CASE Unsub
    BY <1>3, UnsubscribeKeeps DEF Unsub
  <1>4. CASE \E p, q \in Node : AppMessage(p, q)
    BY <1>4, AppMessageKeeps
  <1>5. CASE \E p \in Node : Subscribe(p) \/ Publish(p, TRUE) \/ Publish(p, FALSE)
                             \/ OwnDelivery(p) \/ StopNode(p) \/ StartNode(p)
    BY <1>1, <1>5, SubscribeKeeps, PublishKeeps, OwnDeliveryKeeps, StopKeeps
  <1> QED BY <1>2, <1>3, <1>4, <1>5 DEF EventNext

\* The invariant gives what the handlers are promised.
LEMMA EventSound == ASSUME EventInv PROVE AppEventsSound
  <1> USE DEF EventInv
  <1>1. DOMAIN subs = 1..Len(subs) /\ \A t \in 1..Len(subs) : DOMAIN got[t] = 1..Len(got[t])
    <2>1. DOMAIN subs = 1..Len(subs) /\ \A t \in 1..Len(subs) : got[t] \in Seq(Events)
      BY DEF EventType
    <2> QED BY <2>1
  <1>2. InOrder
    BY <1>1 DEF InOrder, GotSorted, Sorted
  <1>3. NoneMissed
    <2> SUFFICES ASSUME NEW s \in 1..Len(subs), Standing(s), NEW e \in owed[s], e \notin InFlight(subs[s].at)
                 PROVE  \E i \in 1..Len(got[s]) : got[s][i] = e
      BY <1>1 DEF NoneMissed, Standing
    <2>1. subs[s].at \in Node
      <3>1. subs[s] \in Subs
        BY DEF EventType
      <3> QED BY <3>1 DEF Subs
    <2>2. ~Coming(e, subs[s].at)
      BY <2>1, InFlightLanes
    <2> QED BY <2>1, <2>2 DEF OwedComes, In
  <1> QED BY <1>2, <1>3 DEF AppEventsSound

\* "Messages from one process arrive in the order it sent them" (server.ts:801), none
\* twice; and a handler that stands subscribed on a running process, and was not cut
\* off by a second call of another's unsubscribe function, misses none: for any
\* processes, with members that stop and start, publications that fail, and handlers
\* that come and go (publish, subscribe, _deliverApp; node.ts: publishApp).
THEOREM EventsAreDelivered == EventSpec => []AppEventsSound
  <1>1. EventInit => EventInv
    BY EventStart
  <1>2. EventInv /\ [EventNext]_eventVars => EventInv'
    BY EventStep
  <1>3. EventInv => AppEventsSound
    BY EventSound
  <1> QED BY <1>1, <1>2, <1>3, PTL DEF EventSpec
=============================================================================
