------------------------- MODULE ClusterJoinProofs -------------------------
(***************************************************************************)
(* Proofs about ClusterJoin: its types, and that the routes of the edge    *)
(* and the seats of the owners match, for any number of connections,       *)
(* joins, owners and faults.                                               *)
(***************************************************************************)
EXTENDS ClusterJoin, TLAPS, SequenceTheorems, FiniteSetTheorems

----------------------------------------------------------------------------
(* Queues of messages. *)

\* At most one message t for i is in q.
Once(q, t, i) ==
    \A a, b \in DOMAIN q : q[a] = Message(t, i) /\ q[b] = Message(t, i) => a = b

\* In q a message t for i comes before a message u for k.
Before(q, t, i, u, k) ==
    \A a, b \in DOMAIN q : q[a] = Message(t, i) /\ q[b] = Message(u, k) => a < b

\* r is q without its first message, the message u for k.
Popped(q, r, u, k) ==
    /\ Sends(q, u, k)
    /\ \A t, i : Sends(r, t, i) => Sends(q, t, i)
    /\ \A t, i : Sends(q, t, i) /\ ~(t = u /\ i = k) => Sends(r, t, i)
    /\ \A t, i : Once(q, t, i) => Once(r, t, i)
    /\ Once(q, u, k) => ~Sends(r, u, k)
    /\ \A t, i, v, w : Before(q, t, i, v, w) => Before(r, t, i, v, w)
    /\ \A t, i : Before(q, t, i, u, k) => ~Sends(q, t, i)

\* r is q with messages u for the members of J at its end, one for each.
Grown(q, r, u, J) ==
    /\ \A t, i : Sends(r, t, i) <=> Sends(q, t, i) \/ (t = u /\ i \in J)
    /\ \A t, i : Once(q, t, i) /\ ~(t = u /\ i \in J /\ Sends(q, t, i)) => Once(r, t, i)
    /\ \A t, i, v, w : t # v /\ Before(q, t, i, v, w) /\ ~(t = u /\ i \in J /\ Sends(q, v, w))
                        => Before(r, t, i, v, w)

\* Two messages are the same when type and id are.
LEMMA MessageEq ==
    ASSUME NEW t, NEW i, NEW u, NEW k
    PROVE  Message(t, i) = Message(u, k) <=> t = u /\ i = k
  BY DEF Message

\* What receiving the first message does to a queue.
LEMMA PopEffect ==
    ASSUME NEW S, NEW q \in Seq(S), q # <<>>, NEW u, NEW k, Head(q) = Message(u, k)
    PROVE  Popped(q, Tail(q), u, k)
<1> DEFINE r == Tail(q)
<1>1. /\ Len(q) \in Nat /\ Len(q) > 0 /\ DOMAIN q = 1 .. Len(q) /\ Head(q) = q[1]
      /\ DOMAIN r = 1 .. (Len(q) - 1) /\ \A a \in DOMAIN r : r[a] = q[a + 1]
  BY EmptySeq, HeadTailProperties
<1>2. 1 \in DOMAIN q /\ q[1] = Message(u, k)
  BY <1>1
<1>3. \A a \in DOMAIN r : a + 1 \in DOMAIN q /\ r[a] = q[a + 1] /\ a \in Int
  BY <1>1
<1>4. \A b \in DOMAIN q : b \in Int /\ (b = 1 \/ (b - 1 \in DOMAIN r /\ r[b - 1] = q[b] /\ b > 1))
  BY <1>1
<1> HIDE DEF r
<1>5. Sends(q, u, k)
  BY <1>2 DEF Sends
<1>6. \A t, i : Sends(r, t, i) => Sends(q, t, i)
  BY <1>3 DEF Sends
<1>7. \A t, i : Sends(q, t, i) /\ ~(t = u /\ i = k) => Sends(r, t, i)
  BY <1>2, <1>4, MessageEq DEF Sends
<1>8. \A t, i : Once(q, t, i) => Once(r, t, i)
  BY <1>3 DEF Once
<1>9. Once(q, u, k) => ~Sends(r, u, k)
  BY <1>2, <1>3 DEF Once, Sends
<1>10. \A t, i, v, w : Before(q, t, i, v, w) => Before(r, t, i, v, w)
  <2> SUFFICES ASSUME NEW t, NEW i, NEW v, NEW w, Before(q, t, i, v, w),
                      NEW a \in DOMAIN r, NEW b \in DOMAIN r,
                      r[a] = Message(t, i), r[b] = Message(v, w)
               PROVE  a < b
    BY DEF Before
  <2>1. a + 1 < b + 1
    BY <1>3 DEF Before
  <2> QED BY <1>3, <2>1
<1>11. \A t, i : Before(q, t, i, u, k) => ~Sends(q, t, i)
  <2> SUFFICES ASSUME NEW t, NEW i, Before(q, t, i, u, k), NEW a \in DOMAIN q, q[a] = Message(t, i)
               PROVE  FALSE
    BY DEF Sends
  <2>1. a < 1
    BY <1>2 DEF Before
  <2> QED BY <1>1, <2>1
<1> QED BY <1>5, <1>6, <1>7, <1>8, <1>9, <1>10, <1>11 DEF Popped, r

\* What sending the joins of s, each once, does to a queue.
LEMMA GrowEffect ==
    ASSUME NEW S, NEW q \in Seq(S), NEW u, NEW J, NEW s \in Seq(J),
           \A a, b \in DOMAIN s : s[a] = s[b] => a = b,
           J = {s[a] : a \in DOMAIN s}
    PROVE  Grown(q, q \o [a \in DOMAIN s |-> Message(u, s[a])], u, J)
<1> DEFINE m == [a \in DOMAIN s |-> Message(u, s[a])]
           r == q \o m
           n == Len(q)
<1>1. m \in Seq({Message(u, i) : i \in J}) /\ Len(m) = Len(s) /\ DOMAIN s = 1 .. Len(s)
  <2>1. Len(s) \in Nat /\ DOMAIN s = 1 .. Len(s) /\ \A a \in DOMAIN s : s[a] \in J
    OBVIOUS
  <2>2. m \in [1 .. Len(s) -> {Message(u, i) : i \in J}]
    BY <2>1
  <2> QED BY <2>1, <2>2, SeqDef
<1>2. n \in Nat /\ DOMAIN q = 1 .. n /\ Len(s) \in Nat
  OBVIOUS
<1>3. DOMAIN r = 1 .. (n + Len(s)) /\ \A a \in 1 .. (n + Len(s)) : r[a] = IF a <= n THEN q[a] ELSE m[a - n]
  BY <1>1, <1>2
<1>4. \A a \in DOMAIN q : a \in DOMAIN r /\ r[a] = q[a] /\ a <= n
  BY <1>2, <1>3
<1>5. \A a \in DOMAIN s : a + n \in DOMAIN r /\ r[a + n] = Message(u, s[a])
  BY <1>1, <1>2, <1>3
<1>i. \A a \in DOMAIN r : a \in Int
  BY <1>1, <1>2, <1>3
<1>6. \A a \in DOMAIN r :
         \/ a \in DOMAIN q /\ r[a] = q[a] /\ a <= n
         \/ a > n /\ \E d \in DOMAIN s : a = d + n /\ r[a] = Message(u, s[d])
  <2> SUFFICES ASSUME NEW a \in DOMAIN r
               PROVE  \/ a \in DOMAIN q /\ r[a] = q[a] /\ a <= n
                      \/ a > n /\ \E d \in DOMAIN s : a = d + n /\ r[a] = Message(u, s[d])
    OBVIOUS
  <2>1. CASE a <= n
    BY <1>2, <1>3, <2>1
  <2>2. CASE a > n
    <3>1. a - n \in DOMAIN s /\ r[a] = m[a - n] /\ a = (a - n) + n
      BY <1>1, <1>2, <1>3, <2>2
    <3> DEFINE d == a - n
    <3>2. d \in DOMAIN s /\ a = d + n /\ r[a] = m[d]
      BY <3>1
    <3>3. m[d] = Message(u, s[d])
      BY <3>2
    <3> HIDE DEF d, m, r, n
    <3> QED BY <2>2, <3>2, <3>3
  <2> QED BY <1>2, <1>3, <2>1, <2>2, SMTT(30)
<1>s. \A a \in DOMAIN s : s[a] \in J
  OBVIOUS
<1> HIDE DEF r, m, n
<1>7. ASSUME NEW t, NEW i
      PROVE  Sends(r, t, i) <=> Sends(q, t, i) \/ (t = u /\ i \in J)
  <2>1. ASSUME Sends(r, t, i) PROVE Sends(q, t, i) \/ (t = u /\ i \in J)
    <3>1. PICK a \in DOMAIN r : r[a] = Message(t, i)
      BY <2>1 DEF Sends
    <3>2. CASE a \in DOMAIN q /\ r[a] = q[a]
      BY <3>1, <3>2 DEF Sends
    <3>3. ASSUME NEW d \in DOMAIN s, r[a] = Message(u, s[d]) PROVE t = u /\ i \in J
      <4>2. Message(t, i) = Message(u, s[d])
        BY <3>1, <3>3
      <4>1. t = u /\ i = s[d]
        BY <4>2, MessageEq
      <4> QED BY <1>s, <4>1
    <3> QED BY <1>6, <3>2, <3>3
  <2>2. ASSUME Sends(q, t, i) PROVE Sends(r, t, i)
    BY <1>4, <2>2 DEF Sends
  <2>3. ASSUME t = u, i \in J PROVE Sends(r, t, i)
    <3>1. PICK a \in DOMAIN s : s[a] = i
      BY <2>3
    <3> QED BY <1>5, <2>3, <3>1 DEF Sends
  <2> QED BY <2>1, <2>2, <2>3
<1>8. ASSUME NEW t, NEW i, Once(q, t, i), ~(t = u /\ i \in J /\ Sends(q, t, i))
      PROVE  Once(r, t, i)
  <2> SUFFICES ASSUME NEW a \in DOMAIN r, NEW b \in DOMAIN r,
                      r[a] = Message(t, i), r[b] = Message(t, i)
               PROVE  a = b
    BY DEF Once
  <2>1. ASSUME NEW d \in DOMAIN s, Message(t, i) = Message(u, s[d])
        PROVE  s[d] = i /\ ~Sends(q, t, i)
    BY <1>s, <1>8, <2>1, MessageEq
  <2>2. ASSUME NEW d \in DOMAIN q, q[d] = Message(t, i)
        PROVE  Sends(q, t, i)
    BY <2>2 DEF Sends
  <2>3. CASE a \in DOMAIN q /\ r[a] = q[a] /\ b \in DOMAIN q /\ r[b] = q[b]
    BY <1>8, <2>3 DEF Once
  <2>4. ASSUME NEW d \in DOMAIN s, a = d + n, r[a] = Message(u, s[d]),
               NEW e \in DOMAIN s, b = e + n, r[b] = Message(u, s[e])
        PROVE  a = b
    <3>1. s[d] = i /\ s[e] = i
      BY <2>1, <2>4
    <3> QED BY <2>4, <3>1
  <2> QED BY <1>6, <2>1, <2>2, <2>3, <2>4
<1>9. ASSUME NEW t, NEW i, NEW v, NEW w, t # v, Before(q, t, i, v, w),
             ~(t = u /\ i \in J /\ Sends(q, v, w))
      PROVE  Before(r, t, i, v, w)
  <2> SUFFICES ASSUME NEW a \in DOMAIN r, NEW b \in DOMAIN r,
                      r[a] = Message(t, i), r[b] = Message(v, w)
               PROVE  a < b
    BY DEF Before
  <2>1. CASE a \in DOMAIN q /\ r[a] = q[a] /\ b \in DOMAIN q /\ r[b] = q[b]
    BY <1>9, <2>1 DEF Before
  <2>2. CASE a <= n /\ b > n
    BY <1>2, <1>i, <2>2
  <2>3. ASSUME NEW d \in DOMAIN s, r[a] = Message(u, s[d]) PROVE a < b
    <3>4. Message(t, i) = Message(u, s[d])
      BY <2>3
    <3>3. t = u /\ i = s[d]
      BY <3>4, MessageEq
    <3>1. t = u /\ i \in J
      BY <1>s, <3>3
    <3>2. b \in DOMAIN q /\ r[b] = q[b]
      BY <1>6, <1>9, <3>1, MessageEq
    <3> QED BY <1>9, <3>1, <3>2 DEF Sends
  <2> QED BY <1>6, <2>1, <2>2, <2>3
<1> QED BY <1>7, <1>8, <1>9 DEF Grown, r, m

\* What one message at the end does to a queue.
LEMMA AppendEffect ==
    ASSUME NEW S, NEW q \in Seq(S), NEW u, NEW k, Message(u, k) \in S
    PROVE  /\ Grown(q, Append(q, Message(u, k)), u, {k})
           /\ q \o <<Message(u, k)>> = Append(q, Message(u, k))
           /\ Append(q, Message(u, k)) \in Seq(S)
<1> DEFINE s == <<k>>
           m == [a \in DOMAIN s |-> Message(u, s[a])]
<1>1. s \in Seq({k}) /\ DOMAIN s = {1} /\ s[1] = k
  OBVIOUS
<1>2. m = <<Message(u, k)>>
  BY <1>1
<1>3. q \o <<Message(u, k)>> = Append(q, Message(u, k))
  OBVIOUS
<1>4. {k} = {s[a] : a \in DOMAIN s}
  BY <1>1
<1>5. \A a, b \in DOMAIN s : s[a] = s[b] => a = b
  BY <1>1
<1> HIDE DEF s
<1>6. Grown(q, q \o m, u, {k})
  BY <1>1, <1>4, <1>5, GrowEffect
<1>7. Append(q, Message(u, k)) \in Seq(S)
  OBVIOUS
<1>8. Grown(q, Append(q, Message(u, k)), u, {k})
  BY <1>2, <1>3, <1>6
<1> QED BY <1>3, <1>7, <1>8

\* A queue that nothing is sent to.
LEMMA SameEffect ==
    ASSUME NEW q, NEW u PROVE Grown(q, q, u, {})
  BY DEF Grown

----------------------------------------------------------------------------
(* Types. *)

\* What the edge sends to an owner, and what an owner sends to the edge.
ToOwnerMsg == [t : {"join?", "leave"}, id : Join] \cup [t : {"conn"}, id : Conn]
ToEdgeMsg == [t : {"join!", "refused", "failed", "JOIN_SUCCESS", "LEAVE"}, id : Join]

\* TypeOK by parts, with the messages that each queue may hold.
ProcTypes ==
    /\ alive \subseteq Proc /\ peers \in [Proc -> SUBSET Proc]
    /\ cut \subseteq Proc \X Proc /\ faults \in 0 .. MaxFaults
ReqType ==
    [st : {"none", "locating", "waiting", "ok", "err"}, at : Owner \cup {None},
     tried : SUBSET Owner]
EdgeTypes ==
    /\ open \subseteq Conn /\ owners \in [Conn -> SUBSET Owner] /\ route \subseteq Ref
    /\ req \in [Join -> ReqType]
OwnerTypes ==
    /\ current \in [Owner -> [Conn -> Join \cup {None}]]
    /\ object \in [Ref -> Join \cup {None}] /\ shut \in [Owner -> SUBSET Join]
    /\ seat \in [Ref -> {"none", "auth", "joining", "joined", "gone"}]
QueueTypes ==
    /\ toOwner \in [Owner -> Seq(ToOwnerMsg)] /\ toEdge \in [Owner -> Seq(ToEdgeMsg)]
ClientTypes ==
    /\ client \in [Join -> {"none", "asked", "joined", "failed", "left"}]
    /\ using \in [Join -> Owner \cup {None}] /\ leaving \subseteq Ref
    /\ \A j \in Join : client[j] = "joined" => using[j] \in Owner

\* A join that was not forwarded yet has asked no owner.
FreshRequests ==
    \A j \in Join : /\ req[j].st \in {"none", "locating"} => req[j].tried = {}
                    /\ client[j] = "none" => req[j].st = "none"

\* The inductive form of TypeOK.
Types == ProcTypes /\ EdgeTypes /\ OwnerTypes /\ QueueTypes /\ ClientTypes /\ FreshRequests

\* The two kinds of messages are messages.
LEMMA TypesImplyTypeOK == Types => TypeOK
<1> SUFFICES ASSUME Types PROVE TypeOK
  OBVIOUS
<1>1. ToOwnerMsg \subseteq Msg /\ ToEdgeMsg \subseteq Msg
  BY DEF ToOwnerMsg, ToEdgeMsg, Msg
<1>2. toOwner \in [Owner -> Seq(Msg)] /\ toEdge \in [Owner -> Seq(Msg)]
  <2>1. ASSUME NEW S, S \subseteq Msg, NEW q \in Seq(S) PROVE q \in Seq(Msg)
    BY <2>1
  <2> QED BY <1>1, <2>1 DEF Types, QueueTypes
<1> QED BY <1>2 DEF Types, TypeOK, ProcTypes, EdgeTypes, ReqType, OwnerTypes, ClientTypes

\* The messages that are sent have the types of their queues.
LEMMA MessageTypes ==
    /\ \A j \in Join : /\ Message("join?", j) \in ToOwnerMsg /\ Message("leave", j) \in ToOwnerMsg
                        /\ \A t \in {"join!", "refused", "failed", "JOIN_SUCCESS", "LEAVE"} :
                              Message(t, j) \in ToEdgeMsg
    /\ \A c \in Conn : Message("conn", c) \in ToOwnerMsg
  BY DEF Message, ToOwnerMsg, ToEdgeMsg

\* A cluster starts well typed.
LEMMA InitTypes == Init => Types
  BY ClusterJoinAssumption
  DEF Init, Types, ProcTypes, EdgeTypes, ReqType, OwnerTypes, QueueTypes, ClientTypes, FreshRequests,
      Proc

\* A message that arrives has a type and an id of its queue.
LEMMA HeadTypes ==
    ASSUME Types, NEW o \in Owner
    PROVE  /\ toEdge[o] # <<>> =>
                 /\ Head(toEdge[o]).id \in Join
                 /\ Head(toEdge[o]).t \in {"join!", "refused", "failed", "JOIN_SUCCESS", "LEAVE"}
                 /\ Head(toEdge[o]) = Message(Head(toEdge[o]).t, Head(toEdge[o]).id)
                 /\ Tail(toEdge[o]) \in Seq(ToEdgeMsg)
           /\ toOwner[o] # <<>> =>
                 /\ Head(toOwner[o]).t \in {"join?", "leave", "conn"}
                 /\ Head(toOwner[o]).t \in {"join?", "leave"} => Head(toOwner[o]).id \in Join
                 /\ Head(toOwner[o]).t = "conn" => Head(toOwner[o]).id \in Conn
                 /\ Head(toOwner[o]) = Message(Head(toOwner[o]).t, Head(toOwner[o]).id)
                 /\ Tail(toOwner[o]) \in Seq(ToOwnerMsg)
<1>1. toEdge[o] \in Seq(ToEdgeMsg) /\ toOwner[o] \in Seq(ToOwnerMsg)
  BY DEF Types, QueueTypes
<1>2. \A m \in ToEdgeMsg :
        /\ m.id \in Join /\ m.t \in {"join!", "refused", "failed", "JOIN_SUCCESS", "LEAVE"}
        /\ m = Message(m.t, m.id)
  BY DEF ToEdgeMsg, Message
<1>3. \A m \in ToOwnerMsg :
        /\ m.t \in {"join?", "leave", "conn"}
        /\ m.t \in {"join?", "leave"} => m.id \in Join
        /\ m.t = "conn" => m.id \in Conn
        /\ m = Message(m.t, m.id)
  BY DEF ToOwnerMsg, Message
<1>4. toEdge[o] # <<>> => Head(toEdge[o]) \in ToEdgeMsg /\ Tail(toEdge[o]) \in Seq(ToEdgeMsg)
  BY <1>1
<1>5. toOwner[o] # <<>> => Head(toOwner[o]) \in ToOwnerMsg /\ Tail(toOwner[o]) \in Seq(ToOwnerMsg)
  BY <1>1
<1> QED BY <1>2, <1>3, <1>4, <1>5

----------------------------------------------------------------------------
(* The edge moves joins on. *)

\* The joins of W are over at the owner they asked: j goes on to owner next[j],
\* which it has not asked before, or is given up when that is None.
Moves(W, next) ==
    /\ W \subseteq Join /\ next \in [W -> Owner \cup {None}]
    /\ \A j \in Join \ W : req'[j] = req[j]
    /\ \A j \in W :
          IF next[j] = None
          THEN /\ req'[j].st = "err" /\ req'[j].at = None /\ req'[j].tried = req[j].tried
               /\ ConnOf[j] \in open => client'[j] # "asked"
          ELSE /\ next[j] \notin req[j].tried
               /\ req'[j].st = "waiting" /\ req'[j].at = next[j]
               /\ req'[j].tried = req[j].tried \cup {next[j]}
               /\ next[j] \in owners'[ConnOf[j]]
    /\ \A c \in Conn : owners[c] \subseteq owners'[c]
    /\ \A p \in Owner : Grown(toOwner[p], toOwner'[p], "join?", {j \in W : next[j] = p})

\* The clients whose joins fail, or who are told to leave.
ClientsEnd ==
    \A j \in Join : \/ client'[j] = client[j]
                    \/ client[j] = "asked" /\ client'[j] = "failed"
                    \/ client[j] = "joined" /\ client'[j] = "left"

\* The tables of the edge that a move changes keep their types.
MoveTypes ==
    /\ owners' \in [Conn -> SUBSET Owner] /\ req' \in [Join -> ReqType]
    /\ toOwner' \in [Owner -> Seq(ToOwnerMsg)]
    /\ client' \in [Join -> {"none", "asked", "joined", "failed", "left"}]

\* A join that is forwarded is moved on.
LEMMA ForwardMoves ==
    ASSUME Types, NEW j \in Join, NEW o \in Owner, o \notin req[j].tried, Forward(j, o),
           UNCHANGED client
    PROVE  Moves({j}, [k \in {j} |-> o]) /\ MoveTypes
<1> DEFINE next == [k \in {j} |-> o]
<1>1. /\ Message("join?", j) \in ToOwnerMsg /\ o # None /\ ConnOf[j] \in Conn
  BY MessageTypes, ClusterJoinAssumption
<1>2. /\ req \in [Join -> ReqType] /\ owners \in [Conn -> SUBSET Owner]
      /\ toOwner \in [Owner -> Seq(ToOwnerMsg)]
  BY DEF Types, EdgeTypes, QueueTypes
<1>3. /\ req' \in [Join -> ReqType] /\ \A k \in Join \ {j} : req'[k] = req[k]
      /\ req'[j].st = "waiting" /\ req'[j].at = o /\ req'[j].tried = req[j].tried \cup {o}
  <2>1. req[j].tried \cup {o} \in SUBSET Owner
    BY <1>2 DEF ReqType
  <2> DEFINE e == [st |-> "waiting", at |-> o, tried |-> req[j].tried \cup {o}]
  <2>2. e \in ReqType /\ e.st = "waiting" /\ e.at = o /\ e.tried = req[j].tried \cup {o}
    BY <2>1 DEF ReqType
  <2>3. req' = [req EXCEPT ![j] = e]
    BY DEF Forward
  <2> HIDE DEF e
  <2> QED BY <1>2, <2>2, <2>3
<1>4. /\ owners' \in [Conn -> SUBSET Owner] /\ o \in owners'[ConnOf[j]]
      /\ \A c \in Conn : owners[c] \subseteq owners'[c]
  BY <1>1, <1>2 DEF Forward
<1>5. /\ toOwner' \in [Owner -> Seq(ToOwnerMsg)]
      /\ \A p \in Owner : Grown(toOwner[p], toOwner'[p], "join?", {k \in {j} : next[k] = p})
  <2>1. /\ toOwner'[o] = Append(toOwner[o], Message("join?", j))
        /\ toOwner' = [toOwner EXCEPT ![o] = Append(toOwner[o], Message("join?", j))]
    BY <1>2 DEF Forward
  <2>2. /\ Grown(toOwner[o], toOwner'[o], "join?", {j})
        /\ Append(toOwner[o], Message("join?", j)) \in Seq(ToOwnerMsg)
    BY <1>1, <1>2, <2>1, AppendEffect
  <2>3. ASSUME NEW p \in Owner, p # o
        PROVE  Grown(toOwner[p], toOwner'[p], "join?", {})
    <3>1. toOwner'[p] = toOwner[p]
      BY <1>2, <2>1, <2>3
    <3> QED BY <3>1, SameEffect
  <2>4. {k \in {j} : next[k] = o} = {j} /\ \A p \in Owner : p # o => {k \in {j} : next[k] = p} = {}
    OBVIOUS
  <2> QED BY <1>2, <2>1, <2>2, <2>3, <2>4
<1>6. client' = client /\ client \in [Join -> {"none", "asked", "joined", "failed", "left"}]
  BY DEF Types, ClientTypes
<1>7. next \in [{j} -> Owner \cup {None}] /\ next[j] = o
  OBVIOUS
<1>8. Moves({j}, next)
  <2> HIDE DEF next
  <2>1. \A k \in {j} :
          /\ next[k] # None /\ next[k] \notin req[k].tried
          /\ req'[k].st = "waiting" /\ req'[k].at = next[k]
          /\ req'[k].tried = req[k].tried \cup {next[k]} /\ next[k] \in owners'[ConnOf[k]]
    BY <1>1, <1>3, <1>4, <1>7
  <2> QED BY <1>3, <1>4, <1>5, <1>7, <2>1 DEF Moves
<1> QED BY <1>3, <1>4, <1>5, <1>6, <1>8 DEF MoveTypes

\* A join that is given up goes on to another owner if it creates a room.
LEMMA GiveUpMoves ==
    ASSUME Types, NEW j \in Join, NEW P \in SUBSET Owner, GiveUp(j, P)
    PROVE  /\ \E next : Moves({j}, next) /\ (next[j] # None => j \in Creates)
           /\ MoveTypes /\ ClientsEnd /\ UNCHANGED <<using, leaving>>
<1>0. /\ req \in [Join -> ReqType] /\ owners \in [Conn -> SUBSET Owner]
      /\ toOwner \in [Owner -> Seq(ToOwnerMsg)]
      /\ client \in [Join -> {"none", "asked", "joined", "failed", "left"}]
  BY DEF Types, EdgeTypes, QueueTypes, ClientTypes
<1>1. CASE Candidates(j, P) # {}
  <2>1. PICK o \in Candidates(j, P) : Forward(j, o)
    BY <1>1 DEF GiveUp
  <2>2. UNCHANGED clientVars
    BY <1>1 DEF GiveUp
  <2>3. o \in Owner /\ o \notin req[j].tried /\ j \in Creates
    BY <2>1 DEF Candidates
  <2>4. Moves({j}, [k \in {j} |-> o]) /\ MoveTypes
    BY <2>1, <2>2, <2>3, ForwardMoves DEF clientVars
  <2> QED BY <2>2, <2>3, <2>4 DEF ClientsEnd, clientVars
<1>2. CASE Candidates(j, P) = {}
  <2> DEFINE next == [k \in {j} |-> None]
  <2>1. /\ req' = [req EXCEPT ![j].st = "err", ![j].at = None]
        /\ client' = IF ConnOf[j] \in open THEN ClientFails(j) ELSE client
        /\ UNCHANGED <<owners, toOwner, using, leaving>>
    BY <1>2 DEF GiveUp
  <2>2. /\ req' \in [Join -> ReqType] /\ \A k \in Join \ {j} : req'[k] = req[k]
        /\ req'[j].st = "err" /\ req'[j].at = None /\ req'[j].tried = req[j].tried
    BY <1>0, <2>1, ZenonT(40) DEF ReqType
  <2>3. /\ client' \in [Join -> {"none", "asked", "joined", "failed", "left"}] /\ ClientsEnd
        /\ ConnOf[j] \in open => client'[j] # "asked"
    BY <1>0, <2>1 DEF ClientFails, ClientsEnd
  <2>4. \A p \in Owner : Grown(toOwner[p], toOwner'[p], "join?", {k \in {j} : next[k] = p})
    <3>1. \A p \in Owner : {k \in {j} : next[k] = p} = {}
      BY ClusterJoinAssumption
    <3> QED BY <2>1, <3>1, SameEffect
  <2>5. next \in [{j} -> Owner \cup {None}] /\ next[j] = None
    OBVIOUS
  <2>6. Moves({j}, next)
    <3> HIDE DEF next
    <3>1. \A k \in {j} :
            /\ next[k] = None /\ req'[k].st = "err" /\ req'[k].at = None /\ req'[k].tried = req[k].tried
            /\ ConnOf[k] \in open => client'[k] # "asked"
      BY <2>2, <2>3, <2>5
    <3>2. \A k \in Join \ {j} : req'[k] = req[k]
      BY <2>2
    <3>3. \A c \in Conn : owners[c] \subseteq owners'[c]
      BY <2>1
    <3> QED BY <2>4, <2>5, <3>1, <3>2, <3>3 DEF Moves
  <2> QED BY <1>0, <2>1, <2>2, <2>3, <2>5, <2>6 DEF MoveTypes
<1> QED BY <1>1, <1>2

\* The joins that wait for o.
WaitingAt(o) == {j \in Join : req[j].st = "waiting" /\ req[j].at = o}

\* When the edge drops an owner, all joins that wait for it are moved on.
LEMMA DropsMoves ==
    ASSUME Types, NEW o \in Owner, EdgeDrops(o)
    PROVE  /\ \E next : /\ Moves(WaitingAt(o), next)
                        /\ \A j \in WaitingAt(o) : next[j] # None => j \in Creates
           /\ MoveTypes /\ ClientsEnd
           /\ \A j \in Join : client[j] = "joined" /\ using[j] = o /\ <<j, o>> \in route
                                  => client'[j] = "left"
<1> DEFINE R == {x \in route : x[2] = o}
           W == WaitingAt(o)
           told == ClientsLeft(R)
           again(j) == Candidates(j, (peers[Edge] \ {o}) \cap Owner)
<1>0. /\ req \in [Join -> ReqType] /\ owners \in [Conn -> SUBSET Owner]
      /\ toOwner \in [Owner -> Seq(ToOwnerMsg)]
      /\ client \in [Join -> {"none", "asked", "joined", "failed", "left"}]
  BY DEF Types, EdgeTypes, QueueTypes, ClientTypes
<1>1. PICK next \in [W -> Owner \cup {None}], order \in [Owner -> SetToAllKPermutations(W)] :
        /\ \A j \in W : IF again(j) = {} THEN next[j] = None ELSE next[j] \in again(j)
        /\ \A p \in Owner : ToSet(order[p]) = {j \in W : next[j] = p}
        /\ req' = [j \in Join |-> IF j \notin W THEN req[j]
              ELSE IF next[j] = None THEN [req[j] EXCEPT !.st = "err", !.at = None]
              ELSE [req[j] EXCEPT !.at = next[j], !.tried = @ \cup {next[j]}]]
        /\ owners' = [c \in Conn |->
              owners[c] \cup ({next[j] : j \in W \cap JoinsOf(c)} \ {None})]
        /\ toOwner' = [p \in Owner |-> toOwner[p] \o
              [k \in DOMAIN order[p] |-> Message("join?", order[p][k])]]
        /\ client' = [j \in Join |->
              IF j \in W /\ next[j] = None /\ ConnOf[j] \in open /\ told[j] = "asked"
              THEN "failed" ELSE told[j]]
  BY DEF EdgeDrops, WaitingAt
<1>2. W \subseteq Join /\ \A j \in W : req[j].st = "waiting"
  BY SMTT(30) DEF WaitingAt
<1>3. \A j \in W : next[j] # None =>
        next[j] \in Owner /\ next[j] \notin req[j].tried /\ j \in Creates
  BY <1>1 DEF Candidates
<1>4. /\ \A j \in Join : client'[j] = IF j \in W /\ next[j] = None /\ ConnOf[j] \in open /\ told[j] = "asked"
                                      THEN "failed" ELSE told[j]
      /\ client' \in [Join -> {"none", "asked", "joined", "failed", "left"}]
      /\ \A j \in Join : told[j] = IF client[j] = "joined" /\ <<j, using[j]>> \in R THEN "left"
                                   ELSE client[j]
  <2>1. \A j \in Join : told[j] = IF client[j] = "joined" /\ <<j, using[j]>> \in R THEN "left"
                                 ELSE client[j]
    BY DEF ClientsLeft
  <2> HIDE DEF told
  <2> QED BY <1>0, <1>1, <2>1
<1>5. /\ ClientsEnd
      /\ \A j \in Join : client[j] = "joined" /\ using[j] = o /\ <<j, o>> \in route
                            => client'[j] = "left"
      /\ \A j \in W : next[j] = None /\ ConnOf[j] \in open => client'[j] # "asked"
  <2> HIDE DEF told, W
  <2>1. \A j \in Join : <<j, o>> \in route => <<j, o>> \in R
    OBVIOUS
  <2> HIDE DEF R
  <2> QED BY <1>2, <1>4, <2>1 DEF ClientsEnd
<1> HIDE DEF W, told, again, R
<1>6. /\ req' \in [Join -> ReqType] /\ \A j \in Join \ W : req'[j] = req[j]
      /\ \A j \in W :
            IF next[j] = None
            THEN req'[j].st = "err" /\ req'[j].at = None /\ req'[j].tried = req[j].tried
            ELSE /\ req'[j].st = "waiting" /\ req'[j].at = next[j]
                 /\ req'[j].tried = req[j].tried \cup {next[j]}
  <2>1. ASSUME NEW j \in W
        PROVE  /\ next[j] = None => /\ req'[j].st = "err" /\ req'[j].at = None
                                    /\ req'[j].tried = req[j].tried /\ req'[j] \in ReqType
               /\ next[j] # None => /\ req'[j].st = "waiting" /\ req'[j].at = next[j]
                                    /\ req'[j].tried = req[j].tried \cup {next[j]}
                                    /\ req'[j] \in ReqType
    <3>1. req[j] \in ReqType /\ j \in Join
      BY <1>0, <1>2
    <3>2. ASSUME next[j] = None
          PROVE  /\ req'[j].st = "err" /\ req'[j].at = None
                 /\ req'[j].tried = req[j].tried /\ req'[j] \in ReqType
      <4>1. req'[j] = [req[j] EXCEPT !.st = "err", !.at = None]
        BY <1>1, <3>1, <3>2
      <4> QED BY <3>1, <4>1 DEF ReqType
    <3>3. ASSUME next[j] # None
          PROVE  /\ req'[j].st = "waiting" /\ req'[j].at = next[j]
                 /\ req'[j].tried = req[j].tried \cup {next[j]} /\ req'[j] \in ReqType
      <4>1. req'[j] = [req[j] EXCEPT !.at = next[j], !.tried = req[j].tried \cup {next[j]}]
        BY <1>1, <3>1, <3>3
      <4>2. next[j] \in Owner /\ req[j].st = "waiting"
        BY <1>2, <1>3, <3>3
      <4>3. req[j].tried \cup {next[j]} \in SUBSET Owner
        BY <3>1, <4>2 DEF ReqType
      <4> DEFINE T == req[j].tried \cup {next[j]}
      <4>4. req'[j] = [req[j] EXCEPT !.at = next[j], !.tried = T]
        BY <4>1
      <4> HIDE DEF T
      <4>5. T \in SUBSET Owner
        BY <4>3 DEF T
      <4>6. /\ req'[j].st = "waiting" /\ req'[j].at = next[j] /\ req'[j].tried = T
            /\ req'[j] \in ReqType
        BY <3>1, <4>2, <4>4, <4>5 DEF ReqType
      <4> QED BY <4>6, SMTT(30) DEF T
    <3> QED BY <3>2, <3>3
  <2>2. \A j \in Join \ W : req'[j] = req[j] /\ req'[j] \in ReqType
    BY <1>0, <1>1
  <2>3. req' = [j \in Join |-> req'[j]]
    BY <1>1
  <2>4. \A j \in Join : req'[j] \in ReqType
    BY <2>1, <2>2
  <2>5. req' \in [Join -> ReqType]
    BY <2>3, <2>4
  <2> QED BY <2>1, <2>2, <2>5
<1>7. /\ owners' \in [Conn -> SUBSET Owner] /\ \A c \in Conn : owners[c] \subseteq owners'[c]
      /\ \A j \in W : next[j] # None => next[j] \in owners'[ConnOf[j]]
  <2>1. ASSUME NEW c \in Conn
        PROVE  /\ owners'[c] = owners[c] \cup ({next[j] : j \in W \cap JoinsOf(c)} \ {None})
               /\ owners'[c] \subseteq Owner
    <3>1. owners'[c] = owners[c] \cup ({next[j] : j \in W \cap JoinsOf(c)} \ {None})
      BY <1>1
    <3>2. owners[c] \subseteq Owner /\ {next[j] : j \in W \cap JoinsOf(c)} \subseteq Owner \cup {None}
      BY <1>0
    <3> QED BY <3>1, <3>2, SMTT(30)
  <2>2. ASSUME NEW j \in W, next[j] # None PROVE next[j] \in owners'[ConnOf[j]]
    <3>1. ConnOf[j] \in Conn /\ j \in JoinsOf(ConnOf[j])
      BY <1>2, ClusterJoinAssumption, SMTT(30) DEF JoinsOf
    <3> QED BY <2>1, <2>2, <3>1
  <2>3. owners' = [c \in Conn |-> owners'[c]]
    BY <1>1
  <2>4. owners' \in [Conn -> SUBSET Owner]
    BY <2>1, <2>3
  <2> QED BY <2>1, <2>2, <2>4
<1>8. ASSUME NEW p \in Owner
      PROVE  /\ toOwner'[p] \in Seq(ToOwnerMsg)
             /\ Grown(toOwner[p], toOwner'[p], "join?", {j \in W : next[j] = p})
  <2> DEFINE s == order[p]
             J == {j \in W : next[j] = p}
  <2>1. PICK V \in SUBSET W : s \in SetToSeqs(V)
    <3>1. order[p] \in SetToAllKPermutations(W)
      BY <1>1
    <3>2. order[p] \in UNION {SetToSeqs(v) : v \in SUBSET W}
      BY <3>1 DEF SetToAllKPermutations
    <3> QED BY <3>2, SMTT(30)
  <2>2. Cardinality(V) \in Nat
    BY <1>2, FS_Subset, FS_CardinalityType, ClusterJoinAssumption
  <2>3. /\ s \in [1 .. Cardinality(V) -> V]
        /\ \A a, b \in 1 .. Cardinality(V) : a # b => s[a] # s[b]
    BY <2>1, SMTT(30) DEF SetToSeqs
  <2>4. J = {s[a] : a \in DOMAIN s}
    BY <1>1 DEF ToSet
  <2> HIDE DEF J, s
  <2>5. s \in [1 .. Cardinality(V) -> J] /\ DOMAIN s = 1 .. Cardinality(V)
    BY <2>3, <2>4
  <2>6. s \in Seq(J)
    BY <2>2, <2>5, SeqDef
  <2>7. \A a, b \in DOMAIN s : s[a] = s[b] => a = b
    BY <2>3, <2>5
  <2>8. toOwner[p] \in Seq(ToOwnerMsg)
    BY <1>0, SMTT(30)
  <2>9. toOwner'[p] = toOwner[p] \o [k \in DOMAIN s |-> Message("join?", s[k])]
    BY <1>1 DEF s
  <2>10. Grown(toOwner[p], toOwner'[p], "join?", J)
    <3>1. Grown(toOwner[p], toOwner[p] \o [k \in DOMAIN s |-> Message("join?", s[k])], "join?", J)
      BY <2>4, <2>6, <2>7, <2>8, GrowEffect
    <3> QED BY <2>9, <3>1
  <2>11. [k \in DOMAIN s |-> Message("join?", s[k])] \in Seq(ToOwnerMsg)
    <3>1. \A k \in DOMAIN s : Message("join?", s[k]) \in ToOwnerMsg
      <4>1. J \subseteq Join
        BY <1>2 DEF J
      <4>2. \A k \in DOMAIN s : s[k] \in Join
        BY <2>5, <4>1
      <4> QED BY <4>2, MessageTypes
    <3>2. [k \in DOMAIN s |-> Message("join?", s[k])] \in [1 .. Cardinality(V) -> ToOwnerMsg]
      BY <2>5, <3>1
    <3> QED BY <2>2, <3>2, SeqDef
  <2>12. toOwner'[p] \in Seq(ToOwnerMsg)
    BY <2>8, <2>9, <2>11
  <2> QED BY <2>10, <2>12 DEF J
<1>9. toOwner' \in [Owner -> Seq(ToOwnerMsg)]
  <2>1. toOwner' = [p \in Owner |-> toOwner'[p]]
    BY <1>1
  <2> QED BY <1>8, <2>1
<1>10. Moves(W, next)
  <2>1. \A j \in W :
          IF next[j] = None
          THEN /\ req'[j].st = "err" /\ req'[j].at = None /\ req'[j].tried = req[j].tried
               /\ ConnOf[j] \in open => client'[j] # "asked"
          ELSE /\ next[j] \notin req[j].tried
               /\ req'[j].st = "waiting" /\ req'[j].at = next[j]
               /\ req'[j].tried = req[j].tried \cup {next[j]}
               /\ next[j] \in owners'[ConnOf[j]]
    BY <1>3, <1>5, <1>6, <1>7
  <2>2. \A q \in Owner : Grown(toOwner[q], toOwner'[q], "join?", {j \in W : next[j] = q})
    BY <1>8
  <2>3. next \in [W -> Owner \cup {None}]
    BY <1>1
  <2> QED BY <1>2, <1>6, <1>7, <2>1, <2>2, <2>3 DEF Moves
<1> QED BY <1>3, <1>4, <1>5, <1>6, <1>7, <1>9, <1>10 DEF MoveTypes, W

----------------------------------------------------------------------------
(* The steps, by what they do to the queues. *)

\* The edge takes a message t for j from o, or o one from the edge; o sends
\* messages t for the members of J, or the edge sends them to o.
EdgeGets(o, t, j) ==
    Popped(toEdge[o], toEdge'[o], t, j) /\ \A p \in Owner \ {o} : toEdge'[p] = toEdge[p]
OwnerGets(o, t, i) ==
    Popped(toOwner[o], toOwner'[o], t, i) /\ \A p \in Owner \ {o} : toOwner'[p] = toOwner[p]
OwnerPuts(o, t, J) ==
    Grown(toEdge[o], toEdge'[o], t, J) /\ \A p \in Owner \ {o} : toEdge'[p] = toEdge[p]
EdgePuts(o, t, J) ==
    Grown(toOwner[o], toOwner'[o], t, J) /\ \A p \in Owner \ {o} : toOwner'[p] = toOwner[p]

\* The edge takes a message off the queue of o.
LEMMA EdgePops ==
    ASSUME Types, NEW o \in Owner, toEdge[o] # <<>>,
           toEdge' = [toEdge EXCEPT ![o] = Tail(toEdge[o])]
    PROVE  EdgeGets(o, Head(toEdge[o]).t, Head(toEdge[o]).id)
           /\ toEdge' \in [Owner -> Seq(ToEdgeMsg)]
<1>1. toEdge \in [Owner -> Seq(ToEdgeMsg)]
  BY DEF Types, QueueTypes
<1>2. toEdge'[o] = Tail(toEdge[o]) /\ \A p \in Owner \ {o} : toEdge'[p] = toEdge[p]
  BY <1>1
<1>3. /\ Head(toEdge[o]) = Message(Head(toEdge[o]).t, Head(toEdge[o]).id)
      /\ Tail(toEdge[o]) \in Seq(ToEdgeMsg)
  BY HeadTypes
<1>4. toEdge[o] \in Seq(ToEdgeMsg)
  BY <1>1
<1>5. Popped(toEdge[o], Tail(toEdge[o]), Head(toEdge[o]).t, Head(toEdge[o]).id)
  BY <1>3, <1>4, PopEffect
<1>6. toEdge' \in [Owner -> Seq(ToEdgeMsg)]
  BY <1>1, <1>3
<1> QED BY <1>2, <1>5, <1>6 DEF EdgeGets

\* An owner takes a message off its queue.
LEMMA OwnerPops ==
    ASSUME Types, NEW o \in Owner, toOwner[o] # <<>>,
           toOwner' = [toOwner EXCEPT ![o] = Tail(toOwner[o])]
    PROVE  OwnerGets(o, Head(toOwner[o]).t, Head(toOwner[o]).id)
           /\ toOwner' \in [Owner -> Seq(ToOwnerMsg)]
<1>1. toOwner \in [Owner -> Seq(ToOwnerMsg)]
  BY DEF Types, QueueTypes
<1>2. toOwner'[o] = Tail(toOwner[o]) /\ \A p \in Owner \ {o} : toOwner'[p] = toOwner[p]
  BY <1>1
<1>3. /\ Head(toOwner[o]) = Message(Head(toOwner[o]).t, Head(toOwner[o]).id)
      /\ Tail(toOwner[o]) \in Seq(ToOwnerMsg)
  BY HeadTypes
<1>4. toOwner[o] \in Seq(ToOwnerMsg)
  BY <1>1
<1>5. Popped(toOwner[o], Tail(toOwner[o]), Head(toOwner[o]).t, Head(toOwner[o]).id)
  BY <1>3, <1>4, PopEffect
<1>6. toOwner' \in [Owner -> Seq(ToOwnerMsg)]
  BY <1>1, <1>3
<1> QED BY <1>2, <1>5, <1>6 DEF OwnerGets

\* An owner publishes one message.
LEMMA PublishOne ==
    ASSUME Types, NEW o \in Owner, NEW j \in Join,
           NEW t \in {"join!", "refused", "failed", "JOIN_SUCCESS", "LEAVE"},
           Publish(o, <<Message(t, j)>>)
    PROVE  OwnerPuts(o, t, {j}) /\ toEdge' \in [Owner -> Seq(ToEdgeMsg)]
<1>1. toEdge \in [Owner -> Seq(ToEdgeMsg)] /\ toEdge[o] \in Seq(ToEdgeMsg)
  BY DEF Types, QueueTypes
<1>2. Message(t, j) \in ToEdgeMsg
  BY MessageTypes
<1>3. /\ Grown(toEdge[o], Append(toEdge[o], Message(t, j)), t, {j})
      /\ toEdge[o] \o <<Message(t, j)>> = Append(toEdge[o], Message(t, j))
      /\ Append(toEdge[o], Message(t, j)) \in Seq(ToEdgeMsg)
  BY <1>1, <1>2, AppendEffect
<1>4. toEdge' = [toEdge EXCEPT ![o] = Append(toEdge[o], Message(t, j))]
  BY <1>3 DEF Publish
<1>5. /\ toEdge'[o] = Append(toEdge[o], Message(t, j)) /\ toEdge' \in [Owner -> Seq(ToEdgeMsg)]
      /\ \A p \in Owner \ {o} : toEdge'[p] = toEdge[p]
  BY <1>1, <1>3, <1>4
<1> QED BY <1>3, <1>5 DEF OwnerPuts

\* The joins a frame of <<j, o>> is sent for: none if its connection is shut.
Framed(j, o) == IF object[<<j, o>>] \in shut[o] THEN {} ELSE {j}

\* An owner publishes a frame.
LEMMA PublishFrame ==
    ASSUME Types, NEW o \in Owner, NEW j \in Join,
           NEW t \in {"join!", "refused", "failed", "JOIN_SUCCESS", "LEAVE"},
           Publish(o, Frame(j, o, t))
    PROVE  OwnerPuts(o, t, Framed(j, o)) /\ toEdge' \in [Owner -> Seq(ToEdgeMsg)]
<1>1. toEdge \in [Owner -> Seq(ToEdgeMsg)] /\ toEdge[o] \in Seq(ToEdgeMsg)
  BY DEF Types, QueueTypes
<1>2. CASE object[<<j, o>>] \in shut[o]
  <2>1. toEdge[o] \o <<>> = toEdge[o]
    BY <1>1
  <2>2. toEdge' = toEdge
    BY <1>1, <1>2, <2>1 DEF Publish, Frame
  <2> QED BY <1>1, <1>2, <2>2, SameEffect DEF OwnerPuts, Framed
<1>3. CASE object[<<j, o>>] \notin shut[o]
  BY <1>3, PublishOne DEF Frame, Framed
<1> QED BY <1>2, <1>3

\* An owner publishes a reply and a frame after it.
LEMMA PublishReply ==
    ASSUME Types, NEW o \in Owner, NEW j \in Join,
           Publish(o, <<Message("join!", j)>> \o Frame(j, o, "JOIN_SUCCESS"))
    PROVE  /\ \E r : /\ Grown(toEdge[o], r, "join!", {j})
                     /\ Grown(r, toEdge'[o], "JOIN_SUCCESS", Framed(j, o))
           /\ \A p \in Owner \ {o} : toEdge'[p] = toEdge[p]
           /\ toEdge' \in [Owner -> Seq(ToEdgeMsg)]
<1>1. toEdge \in [Owner -> Seq(ToEdgeMsg)] /\ toEdge[o] \in Seq(ToEdgeMsg)
  BY DEF Types, QueueTypes
<1> DEFINE m == Message("join!", j)
           n == Message("JOIN_SUCCESS", j)
           r == Append(toEdge[o], m)
<1>2. m \in ToEdgeMsg /\ n \in ToEdgeMsg
  BY MessageTypes
<1>3. Grown(toEdge[o], r, "join!", {j}) /\ toEdge[o] \o <<m>> = r /\ r \in Seq(ToEdgeMsg)
  BY <1>1, <1>2, AppendEffect
<1>4. Grown(r, Append(r, n), "JOIN_SUCCESS", {j}) /\ r \o <<n>> = Append(r, n)
      /\ Append(r, n) \in Seq(ToEdgeMsg)
  <2> HIDE DEF r
  <2> QED BY <1>2, <1>3, AppendEffect
<1>5. CASE object[<<j, o>>] \in shut[o]
  <2>1. <<m>> \o Frame(j, o, "JOIN_SUCCESS") = <<m>>
    <3>1. <<m>> \in Seq(ToEdgeMsg)
      BY <1>2
    <3> HIDE DEF m
    <3> QED BY <1>5, <3>1 DEF Frame
  <2>2. toEdge' = [toEdge EXCEPT ![o] = r]
    BY <1>3, <2>1 DEF Publish
  <2> HIDE DEF r
  <2>3. toEdge'[o] = r /\ \A p \in Owner \ {o} : toEdge'[p] = toEdge[p]
    BY <1>1, <2>2
  <2>4. toEdge' \in [Owner -> Seq(ToEdgeMsg)]
    BY <1>1, <1>3, <2>2
  <2>5. Grown(r, toEdge'[o], "JOIN_SUCCESS", Framed(j, o))
    BY <1>5, <2>3, SameEffect DEF Framed
  <2> QED BY <1>3, <2>3, <2>4, <2>5
<1>6. CASE object[<<j, o>>] \notin shut[o]
  <2>1. toEdge[o] \o (<<m>> \o Frame(j, o, "JOIN_SUCCESS")) = Append(r, n)
    <3>1. <<m>> \in Seq(ToEdgeMsg) /\ <<n>> \in Seq(ToEdgeMsg)
      BY <1>2
    <3>2. Frame(j, o, "JOIN_SUCCESS") = <<n>>
      BY <1>6 DEF Frame
    <3>3. toEdge[o] \o (<<m>> \o <<n>>) = (toEdge[o] \o <<m>>) \o <<n>>
      <4> HIDE DEF m, n
      <4> QED BY <1>1, <3>1, ConcatAssociative
    <3> QED BY <1>3, <1>4, <3>2, <3>3
  <2>2. toEdge' = [toEdge EXCEPT ![o] = Append(r, n)]
    BY <2>1 DEF Publish
  <2> HIDE DEF r
  <2>3. toEdge'[o] = Append(r, n) /\ \A p \in Owner \ {o} : toEdge'[p] = toEdge[p]
    BY <1>1, <2>2
  <2>4. toEdge' \in [Owner -> Seq(ToEdgeMsg)]
    BY <1>1, <1>4, <2>2
  <2>5. Grown(r, toEdge'[o], "JOIN_SUCCESS", Framed(j, o))
    BY <1>4, <1>6, <2>3 DEF Framed
  <2> QED BY <1>3, <2>3, <2>4, <2>5
<1> QED BY <1>5, <1>6

\* A join that neither creates a room nor is forwarded late.
Plain(j) == j \notin Creates \cup Late

\* A step that moves the joins of W on.
MoveStep(W, next) ==
    Moves(W, next) /\ ClientsEnd /\ UNCHANGED <<alive, open, ownerVars, using, leaving>>

\* The join j is forwarded for the first time, or no room was found for it.
Located(j, next) ==
    /\ MoveStep({j}, next) /\ req[j].st = "locating"
    /\ next[j] # None => ConnOf[j] \in open \/ ~Plain(j)
    /\ UNCHANGED <<cut, route, toEdge>>

\* The request of j timed out.
TimedOut(j, next) ==
    /\ MoveStep({j}, next) /\ req[j].st = "waiting" /\ j \in MayTimeOut
    /\ next[j] # None => j \in Creates
    /\ UNCHANGED <<cut, route, toEdge>>

\* The owner o refused j, or its join failed there.
Refused(j, o, t, next) ==
    /\ MoveStep({j}, next) /\ req[j].st = "waiting" /\ req[j].at = o
    /\ next[j] # None => j \in Creates
    /\ t \in {"refused", "failed"} /\ EdgeGets(o, t, j)
    /\ UNCHANGED <<cut, route>>

\* The edge dropped o.
Dropped(o, next) ==
    /\ MoveStep(WaitingAt(o), next)
    /\ \A j \in WaitingAt(o) : next[j] # None => j \in Creates
    /\ route' = {x \in route : x[2] # o} /\ UNCHANGED toEdge
    /\ o \in alive => cut' = cut \cup {<<Edge, o>>}
    /\ o \notin alive => cut' = cut /\ \A t, j : ~Sends(toEdge[o], t, j)
    /\ \A j \in Join : client[j] = "joined" /\ using[j] = o /\ <<j, o>> \in route
                         => client'[j] = "left"

\* A "join!" that is waited for.
Seated(j, o) ==
    /\ EdgeGets(o, "join!", j) /\ req[j].st = "waiting" /\ req[j].at = o
    /\ req'[j].st = "ok" /\ req'[j].at = o /\ req'[j].tried = req[j].tried
    /\ \A k \in Join \ {j} : req'[k] = req[k]
    /\ IF ConnOf[j] \in open
       THEN route' = route \cup {<<j, o>>} /\ UNCHANGED toOwner
       ELSE UNCHANGED route /\ EdgePuts(o, "conn", {ConnOf[j]})
    /\ UNCHANGED <<alive, cut, open, owners, ownerVars, clientVars>>

\* A message that nobody waits for any more.
Ignored(j, o, t) ==
    /\ EdgeGets(o, t, j)
    /\ t = "join!" => ~(req[j].st = "waiting" /\ req[j].at = o)
    /\ t \in {"JOIN_SUCCESS", "LEAVE"} => ConnOf[j] \notin open
    /\ UNCHANGED <<alive, cut, open, owners, route, req, ownerVars, toOwner, clientVars>>

\* A LEAVE that is relayed to the client.
RelayedLeave(j, o) ==
    /\ EdgeGets(o, "LEAVE", j) /\ ConnOf[j] \in open
    /\ route' = route \ {<<j, o>>} /\ ClientsEnd
    /\ client[j] = "joined" /\ using[j] = o => client'[j] = "left"
    /\ UNCHANGED <<alive, cut, open, owners, req, ownerVars, toOwner, using, leaving>>

\* A JOIN_SUCCESS that is relayed to the client.
RelayedSuccess(j, o) ==
    /\ EdgeGets(o, "JOIN_SUCCESS", j) /\ ConnOf[j] \in open
    /\ IF client[j] = "asked"
       THEN /\ client' = [client EXCEPT ![j] = "joined"] /\ using' = [using EXCEPT ![j] = o]
            /\ UNCHANGED leaving
       ELSE UNCHANGED <<client, using>>
    /\ UNCHANGED <<alive, cut, open, owners, route, req, ownerVars, toOwner>>

\* The kinds of messages that an owner sends.
EdgeKind == {"join!", "refused", "failed", "JOIN_SUCCESS", "LEAVE"}

\* The types that no step of a queue changes follow from what is unchanged.
LEMMA TypesKept ==
    ASSUME Types
    PROVE  /\ UNCHANGED ownerVars => OwnerTypes'
           /\ UNCHANGED clientVars => ClientTypes'
           /\ UNCHANGED procVars => ProcTypes'
           /\ UNCHANGED edgeVars => EdgeTypes'
           /\ UNCHANGED <<req, client>> => FreshRequests'
<1>1. UNCHANGED ownerVars => OwnerTypes'
  BY DEF Types, OwnerTypes, ownerVars
<1>2. UNCHANGED clientVars => ClientTypes'
  BY DEF Types, ClientTypes, clientVars
<1>3. UNCHANGED procVars => ProcTypes'
  BY DEF Types, ProcTypes, procVars
<1>4. UNCHANGED edgeVars => EdgeTypes'
  BY DEF Types, EdgeTypes, edgeVars
<1>5. UNCHANGED <<req, client>> => FreshRequests'
  BY DEF Types, FreshRequests
<1> QED BY <1>1, <1>2, <1>3, <1>4, <1>5

\* The parts of the types that a move keeps.
LEMMA MoveStepTypes ==
    ASSUME Types, NEW W, NEW next, Moves(W, next), \A j \in W : req[j].st # "none",
           MoveTypes, ClientsEnd, UNCHANGED <<open, ownerVars, using, leaving>>,
           route' \subseteq route, toEdge' \in [Owner -> Seq(ToEdgeMsg)]
    PROVE  EdgeTypes' /\ OwnerTypes' /\ QueueTypes' /\ ClientTypes' /\ FreshRequests'
<1>1. OwnerTypes'
  BY TypesKept
<1>2. EdgeTypes'
  BY DEF Types, EdgeTypes, MoveTypes
<1>3. QueueTypes'
  BY DEF QueueTypes, MoveTypes
<1>4. ClientTypes'
  BY DEF Types, ClientTypes, MoveTypes, ClientsEnd
<1>5. FreshRequests'
  <2> SUFFICES ASSUME NEW j \in Join
               PROVE  /\ req'[j].st \in {"none", "locating"} => req'[j].tried = {}
                      /\ client'[j] = "none" => req'[j].st = "none"
    BY DEF FreshRequests
  <2>1. CASE j \in W
    BY <2>1 DEF Types, FreshRequests, Moves, ClientsEnd
  <2>2. CASE j \notin W
    BY <2>2 DEF Types, FreshRequests, Moves, ClientsEnd
  <2> QED BY <2>1, <2>2
<1> QED BY <1>1, <1>2, <1>3, <1>4, <1>5

\* Locate is one of the steps above.
LEMMA LocateStep ==
    ASSUME Types, NEW j \in Join, Locate(j)
    PROVE  (\E next : Located(j, next)) /\ Types'
<1>1. /\ req[j].st = "locating"
      /\ UNCHANGED <<procVars, open, route, ownerVars, toEdge>>
  BY DEF Locate
<1>2. /\ UNCHANGED <<using, leaving>> /\ MoveTypes /\ ClientsEnd
      /\ \E next : Moves({j}, next) /\ (next[j] # None => ConnOf[j] \in open \/ ~Plain(j))
  <2>1. CASE GiveUp(j, {})
    BY <2>1, GiveUpMoves DEF Plain
  <2>2. CASE /\ ConnOf[j] \in open \/ j \in Late
             /\ \E o \in peers[Edge] \cap Owner : Forward(j, o)
             /\ UNCHANGED clientVars
    <3>1. PICK o \in Owner : Forward(j, o)
      BY <2>2
    <3>2. o \notin req[j].tried
      BY <1>1 DEF Types, FreshRequests
    <3>3. Moves({j}, [k \in {j} |-> o]) /\ MoveTypes
      BY <2>2, <3>1, <3>2, ForwardMoves DEF clientVars
    <3> QED BY <2>2, <3>3 DEF ClientsEnd, clientVars, Plain
  <2> QED BY <2>1, <2>2 DEF Locate
<1>3. ProcTypes' /\ toEdge' \in [Owner -> Seq(ToEdgeMsg)]
  BY <1>1, TypesKept DEF Types, QueueTypes
<1>4. EdgeTypes' /\ OwnerTypes' /\ QueueTypes' /\ ClientTypes' /\ FreshRequests'
  BY <1>1, <1>2, <1>3, MoveStepTypes
<1> QED BY <1>1, <1>2, <1>3, <1>4 DEF Types, Located, MoveStep, procVars

\* TimeOut is one of the steps above.
LEMMA TimeOutStep ==
    ASSUME Types, NEW j \in Join, TimeOut(j)
    PROVE  (\E next : TimedOut(j, next)) /\ Types'
<1>1. /\ req[j].st = "waiting" /\ j \in MayTimeOut /\ GiveUp(j, peers[Edge] \cap Owner)
      /\ UNCHANGED <<procVars, open, route, ownerVars, toEdge>>
  BY DEF TimeOut
<1>2. /\ UNCHANGED <<using, leaving>> /\ MoveTypes /\ ClientsEnd
      /\ \E next : Moves({j}, next) /\ (next[j] # None => j \in Creates)
  BY <1>1, GiveUpMoves
<1>3. ProcTypes' /\ toEdge' \in [Owner -> Seq(ToEdgeMsg)]
  BY <1>1, TypesKept DEF Types, QueueTypes
<1>4. EdgeTypes' /\ OwnerTypes' /\ QueueTypes' /\ ClientTypes' /\ FreshRequests'
  BY <1>1, <1>2, <1>3, MoveStepTypes
<1> QED BY <1>1, <1>2, <1>3, <1>4 DEF Types, TimedOut, MoveStep, procVars

\* A dropped peer and a fault keep the types of the processes.
LEMMA DropsTypes ==
    ASSUME Types, NEW p \in Proc, NEW q \in Proc, Drops(p, q)
    PROVE  ProcTypes'
<1>1. faults' \in 0 .. MaxFaults
  <2>1. faults \in 0 .. MaxFaults /\ MaxFaults \in Nat
    BY ClusterJoinAssumption DEF Types, ProcTypes
  <2>2. faults' = faults \/ (faults < MaxFaults /\ faults' = faults + 1)
    BY DEF Drops
  <2> QED BY <2>1, <2>2
<1>2. alive' \subseteq Proc /\ peers' \in [Proc -> SUBSET Proc]
  BY DEF Types, ProcTypes, Drops
<1>3. cut' \subseteq Proc \X Proc
  <2>1. cut \subseteq Proc \X Proc /\ <<p, q>> \in Proc \X Proc
    BY DEF Types, ProcTypes
  <2>2. cut' = cut \/ cut' = cut \cup {<<p, q>>}
    BY DEF Drops
  <2> QED BY <2>1, <2>2
<1> QED BY <1>1, <1>2, <1>3 DEF ProcTypes

\* EdgeDrops is one of the steps above.
LEMMA EdgeDropsStep ==
    ASSUME Types, NEW o \in Owner, EdgeDrops(o)
    PROVE  (\E next : Dropped(o, next)) /\ Types'
<1>1. /\ Drops(Edge, o) /\ route' = route \ {x \in route : x[2] = o}
      /\ UNCHANGED <<open, ownerVars, toEdge, using, leaving>>
  BY DEF EdgeDrops
<1>2. PICK next : Moves(WaitingAt(o), next) /\ \A j \in WaitingAt(o) : next[j] # None => j \in Creates
  BY DropsMoves
<1>3. /\ MoveTypes /\ ClientsEnd
      /\ \A j \in Join : client[j] = "joined" /\ using[j] = o /\ <<j, o>> \in route
                            => client'[j] = "left"
  BY DropsMoves
<1>4. ProcTypes'
  BY <1>1, DropsTypes DEF Proc
<1>5. toEdge' \in [Owner -> Seq(ToEdgeMsg)] /\ route' \subseteq route
      /\ \A j \in WaitingAt(o) : req[j].st # "none"
  BY <1>1 DEF Types, QueueTypes, WaitingAt
<1>6. EdgeTypes' /\ OwnerTypes' /\ QueueTypes' /\ ClientTypes' /\ FreshRequests'
  BY <1>1, <1>2, <1>3, <1>5, MoveStepTypes
<1>7. /\ o \in alive => cut' = cut \cup {<<Edge, o>>}
      /\ o \notin alive => cut' = cut /\ \A t, j : ~Sends(toEdge[o], t, j)
      /\ alive' = alive
  BY <1>1 DEF Drops, Sends
<1>8. route' = {x \in route : x[2] # o}
  BY <1>1
<1>9. MoveStep(WaitingAt(o), next)
  BY <1>1, <1>2, <1>3, <1>7 DEF MoveStep
<1>10. Dropped(o, next)
  BY <1>1, <1>2, <1>3, <1>7, <1>8, <1>9 DEF Dropped
<1>11. Types'
  BY <1>4, <1>6 DEF Types
<1> QED BY <1>10, <1>11

\* Every message that the edge takes is one of the steps above.
LEMMA EdgeReceivesStep ==
    ASSUME Types, NEW o \in Owner, EdgeReceives(o)
    PROVE  /\ \E j \in Join, t \in EdgeKind :
                 \/ Seated(j, o) \/ Ignored(j, o, t) \/ RelayedLeave(j, o) \/ RelayedSuccess(j, o)
                 \/ \E next : Refused(j, o, t, next)
           /\ Types'
<1> DEFINE t == Head(toEdge[o]).t
           j == Head(toEdge[o]).id
<1>1. /\ toEdge[o] # <<>> /\ toEdge' = [toEdge EXCEPT ![o] = Tail(toEdge[o])]
      /\ peers' = [peers EXCEPT ![Edge] = peers[Edge] \cup {o}]
      /\ UNCHANGED <<alive, cut, faults, open, ownerVars>>
      /\ \/ t = "join!" /\ EdgeSeated(j, o) /\ UNCHANGED <<owners, clientVars>>
         \/ t = "refused" /\ EdgeRefused(j, o, peers'[Edge] \cap Owner) /\ UNCHANGED route
         \/ t = "failed" /\ EdgeRefused(j, o, {}) /\ UNCHANGED route
         \/ t \in {"JOIN_SUCCESS", "LEAVE"} /\ Relay(t, j, o) /\ UNCHANGED <<owners, req, toOwner>>
  BY DEF EdgeReceives
<1>2. j \in Join /\ t \in EdgeKind
  BY <1>1, HeadTypes DEF EdgeKind
<1>3. EdgeGets(o, t, j) /\ toEdge' \in [Owner -> Seq(ToEdgeMsg)]
  BY <1>1, EdgePops
<1> HIDE DEF t, j
<1>4. ProcTypes' /\ OwnerTypes'
  <2>1. ProcTypes'
    BY <1>1 DEF Types, ProcTypes, Proc
  <2> QED BY <1>1, <2>1, TypesKept
<1>5. toOwner \in [Owner -> Seq(ToOwnerMsg)] /\ ConnOf[j] \in Conn
  BY <1>2, ClusterJoinAssumption DEF Types, QueueTypes
<1>6. CASE t = "join!"
  <2>1. EdgeSeated(j, o) /\ UNCHANGED <<owners, clientVars>>
    BY <1>1, <1>6
  <2>2. CASE ~(req[j].st = "waiting" /\ req[j].at = o)
    <3>1. UNCHANGED <<req, route, toOwner>>
      BY <2>1, <2>2 DEF EdgeSeated
    <3>2. Ignored(j, o, t)
      BY <1>1, <1>3, <1>6, <2>1, <2>2, <3>1 DEF Ignored
    <3>3. EdgeTypes' /\ ClientTypes' /\ FreshRequests'
      BY <1>1, <2>1, <3>1, TypesKept DEF edgeVars, clientVars
    <3>4. QueueTypes'
      BY <1>3, <1>5, <3>1 DEF QueueTypes
    <3> QED BY <1>2, <1>4, <3>2, <3>3, <3>4 DEF Types
  <2>3. CASE req[j].st = "waiting" /\ req[j].at = o
    <3>1. /\ req' = [req EXCEPT ![j].st = "ok"]
          /\ IF ConnOf[j] \in open
             THEN route' = route \cup {<<j, o>>} /\ UNCHANGED toOwner
             ELSE /\ toOwner' = [toOwner EXCEPT ![o] = Append(toOwner[o], Message("conn", ConnOf[j]))]
                  /\ UNCHANGED route
      BY <1>5, <2>1, <2>3 DEF EdgeSeated
    <3>2. /\ req'[j].st = "ok" /\ req'[j].at = o /\ req'[j].tried = req[j].tried
          /\ \A k \in Join \ {j} : req'[k] = req[k]
          /\ req' \in [Join -> ReqType]
      <4>1. req \in [Join -> ReqType]
        BY DEF Types, EdgeTypes
      <4> QED BY <1>2, <2>3, <3>1, <4>1 DEF ReqType
    <3>3. /\ ConnOf[j] \notin open => EdgePuts(o, "conn", {ConnOf[j]})
          /\ toOwner' \in [Owner -> Seq(ToOwnerMsg)]
      <4>1. Message("conn", ConnOf[j]) \in ToOwnerMsg
        BY <1>5, MessageTypes
      <4>2. CASE ConnOf[j] \notin open
        <5>1. toOwner' = [toOwner EXCEPT ![o] = Append(toOwner[o], Message("conn", ConnOf[j]))]
          BY <3>1, <4>2
        <5>2. /\ Grown(toOwner[o], Append(toOwner[o], Message("conn", ConnOf[j])), "conn", {ConnOf[j]})
              /\ Append(toOwner[o], Message("conn", ConnOf[j])) \in Seq(ToOwnerMsg)
          BY <1>5, <4>1, AppendEffect
        <5>3. /\ toOwner'[o] = Append(toOwner[o], Message("conn", ConnOf[j]))
              /\ \A p \in Owner \ {o} : toOwner'[p] = toOwner[p]
          BY <1>5, <5>1
        <5>4. toOwner' \in [Owner -> Seq(ToOwnerMsg)]
          BY <1>5, <5>1, <5>2
        <5> QED BY <5>2, <5>3, <5>4 DEF EdgePuts
      <4>3. CASE ConnOf[j] \in open
        BY <1>5, <3>1, <4>3
      <4> QED BY <4>2, <4>3
    <3>4. Seated(j, o)
      BY <1>1, <1>3, <1>6, <2>1, <2>3, <3>1, <3>2, <3>3 DEF Seated
    <3>5. EdgeTypes'
      BY <1>1, <1>2, <2>1, <3>1, <3>2 DEF Types, EdgeTypes, Ref
    <3>6. ClientTypes' /\ QueueTypes'
      BY <1>3, <2>1, <3>3, TypesKept DEF QueueTypes
    <3>7. FreshRequests'
      BY <2>1, <2>3, <3>2 DEF Types, FreshRequests, clientVars
    <3> QED BY <1>2, <1>4, <3>4, <3>5, <3>6, <3>7 DEF Types
  <2> QED BY <2>2, <2>3
<1>7. CASE t \in {"refused", "failed"}
  <2>1. UNCHANGED route /\ \E P \in SUBSET Owner : EdgeRefused(j, o, P)
    BY <1>1, <1>7
  <2>2. PICK P \in SUBSET Owner : EdgeRefused(j, o, P)
    BY <2>1
  <2>3. CASE ~(req[j].st = "waiting" /\ req[j].at = o)
    <3>1. UNCHANGED <<req, owners, toOwner, clientVars>>
      BY <2>2, <2>3 DEF EdgeRefused
    <3>2. Ignored(j, o, t)
      BY <1>1, <1>3, <1>7, <2>1, <2>3, <3>1 DEF Ignored
    <3>3. EdgeTypes' /\ ClientTypes' /\ FreshRequests'
      BY <1>1, <2>1, <3>1, TypesKept DEF edgeVars, clientVars
    <3>4. QueueTypes'
      BY <1>3, <1>5, <3>1 DEF QueueTypes
    <3> QED BY <1>2, <1>4, <3>2, <3>3, <3>4 DEF Types
  <2>4. CASE req[j].st = "waiting" /\ req[j].at = o
    <3>1. GiveUp(j, P)
      BY <2>2, <2>4 DEF EdgeRefused
    <3>2. /\ UNCHANGED <<using, leaving>> /\ MoveTypes /\ ClientsEnd
          /\ \E next : Moves({j}, next) /\ (next[j] # None => j \in Creates)
      BY <1>2, <3>1, GiveUpMoves
    <3>3. EdgeTypes' /\ OwnerTypes' /\ QueueTypes' /\ ClientTypes' /\ FreshRequests'
      BY <1>1, <1>3, <2>1, <2>4, <3>2, MoveStepTypes
    <3>4. \E next : Refused(j, o, t, next)
      BY <1>1, <1>3, <1>7, <2>1, <2>4, <3>2 DEF Refused, MoveStep
    <3> QED BY <1>2, <1>4, <3>3, <3>4 DEF Types
  <2> QED BY <2>3, <2>4
<1>8. CASE t \in {"JOIN_SUCCESS", "LEAVE"}
  <2>1. Relay(t, j, o) /\ UNCHANGED <<owners, req, toOwner>>
    BY <1>1, <1>8
  <2>2. QueueTypes'
    BY <1>3, <1>5, <2>1 DEF QueueTypes
  <2>3. CASE ConnOf[j] \notin open
    <3>1. UNCHANGED <<route, clientVars>>
      BY <2>1, <2>3 DEF Relay
    <3>2. Ignored(j, o, t)
      BY <1>1, <1>3, <1>8, <2>1, <2>3, <3>1 DEF Ignored
    <3>3. EdgeTypes' /\ ClientTypes' /\ FreshRequests'
      BY <1>1, <2>1, <3>1, TypesKept DEF edgeVars, clientVars
    <3> QED BY <1>2, <1>4, <2>2, <3>2, <3>3 DEF Types
  <2>4. CASE ConnOf[j] \in open /\ t = "LEAVE"
    <3>1. /\ route' = route \ {<<j, o>>} /\ client' = ClientsLeft({<<j, o>>})
          /\ UNCHANGED <<using, leaving>>
      BY <2>1, <2>4 DEF Relay
    <3>2. /\ client' \in [Join -> {"none", "asked", "joined", "failed", "left"}]
          /\ ClientsEnd /\ (client[j] = "joined" /\ using[j] = o => client'[j] = "left")
      BY <1>2, <3>1 DEF Types, ClientTypes, ClientsLeft, ClientsEnd
    <3>3. RelayedLeave(j, o)
      BY <1>1, <1>3, <2>1, <2>4, <3>1, <3>2 DEF RelayedLeave
    <3>4. EdgeTypes'
      BY <1>1, <2>1, <3>1 DEF Types, EdgeTypes
    <3>5. ClientTypes' /\ FreshRequests'
      BY <2>1, <3>1, <3>2 DEF Types, ClientTypes, FreshRequests, ClientsEnd
    <3> QED BY <1>2, <1>4, <2>2, <3>3, <3>4, <3>5 DEF Types
  <2>5. CASE ConnOf[j] \in open /\ t = "JOIN_SUCCESS"
    <3>1. ClientSeated(j, o) /\ UNCHANGED route
      BY <2>1, <2>5 DEF Relay
    <3>2. RelayedSuccess(j, o)
      BY <1>1, <1>3, <2>1, <2>5, <3>1 DEF RelayedSuccess, ClientSeated
    <3>3. EdgeTypes'
      BY <1>1, <2>1, <3>1 DEF Types, EdgeTypes
    <3>4. ClientTypes'
      BY <1>2, <3>1 DEF Types, ClientTypes, ClientSeated, Ref
    <3>5. FreshRequests'
      BY <1>2, <2>1, <3>1 DEF Types, ClientTypes, FreshRequests, ClientSeated
    <3> QED BY <1>2, <1>4, <2>2, <3>2, <3>3, <3>4, <3>5 DEF Types
  <2> QED BY <1>8, <2>3, <2>4, <2>5
<1> QED BY <1>2, <1>6, <1>7, <1>8 DEF EdgeKind

\* Ask changes only the client and its request.
LEMMA AskTypes ==
    ASSUME Types, NEW j \in Join, Ask(j)
    PROVE  /\ Types'
           /\ req'[j].st = "locating" /\ req'[j].at = req[j].at /\ req'[j].tried = req[j].tried
           /\ client'[j] = "asked" /\ client[j] = "none" /\ req[j].st = "none"
           /\ \A k \in Join \ {j} : req'[k] = req[k] /\ client'[k] = client[k]
<1>1. req \in [Join -> ReqType] /\ client \in [Join -> {"none", "asked", "joined", "failed", "left"}]
  BY DEF Types, EdgeTypes, ClientTypes
<1>2. /\ client[j] = "none" /\ client' = [client EXCEPT ![j] = "asked"]
      /\ req' = [req EXCEPT ![j].st = "locating"]
      /\ UNCHANGED <<procVars, open, owners, route, ownerVars, toOwner, toEdge, using, leaving>>
  BY DEF Ask
<1>3. /\ req' \in [Join -> ReqType] /\ \A k \in Join \ {j} : req'[k] = req[k]
      /\ req'[j].st = "locating" /\ req'[j].at = req[j].at /\ req'[j].tried = req[j].tried
  BY <1>1, <1>2 DEF ReqType
<1>4. /\ client' \in [Join -> {"none", "asked", "joined", "failed", "left"}]
      /\ client'[j] = "asked" /\ \A k \in Join \ {j} : client'[k] = client[k]
  BY <1>1, <1>2
<1>5. req[j].st = "none"
  BY <1>2 DEF Types, FreshRequests
<1>6. ProcTypes' /\ OwnerTypes'
  BY <1>2, TypesKept
<1>7. EdgeTypes'
  BY <1>2, <1>3 DEF Types, EdgeTypes
<1>8. QueueTypes' /\ ClientTypes'
  BY <1>2, <1>4 DEF Types, QueueTypes, ClientTypes
<1>9. FreshRequests'
  <2>1. req[j].tried = {}
    BY <1>5 DEF Types, FreshRequests
  <2> QED BY <1>3, <1>4, <2>1 DEF Types, FreshRequests
<1> QED BY <1>2, <1>3, <1>4, <1>5, <1>6, <1>7, <1>8, <1>9 DEF Types

\* A LEAVE of the client that the edge routes to the owner, or drops.
LEMMA EdgeLeavesTypes ==
    ASSUME Types, NEW j \in Join, NEW o \in Owner, EdgeLeaves(j, o)
    PROVE  Types' /\ \E J : EdgePuts(o, "leave", J)
<1>1. /\ leaving' = leaving \ {<<j, o>>}
      /\ toOwner' = IF <<j, o>> \in route
                    THEN [toOwner EXCEPT ![o] = Append(toOwner[o], Message("leave", j))] ELSE toOwner
      /\ UNCHANGED <<procVars, edgeVars, ownerVars, toEdge, client, using>>
  BY DEF EdgeLeaves
<1>2. toOwner \in [Owner -> Seq(ToOwnerMsg)] /\ toOwner[o] \in Seq(ToOwnerMsg)
  BY DEF Types, QueueTypes
<1>3. /\ Grown(toOwner[o], Append(toOwner[o], Message("leave", j)), "leave", {j})
      /\ Append(toOwner[o], Message("leave", j)) \in Seq(ToOwnerMsg)
  BY <1>2, MessageTypes, AppendEffect
<1>4. toOwner' \in [Owner -> Seq(ToOwnerMsg)] /\ \E J : EdgePuts(o, "leave", J)
  <2>1. CASE <<j, o>> \in route
    <3>1. toOwner' = [toOwner EXCEPT ![o] = Append(toOwner[o], Message("leave", j))]
      BY <1>1, <2>1
    <3>2. toOwner' \in [Owner -> Seq(ToOwnerMsg)]
      BY <1>2, <1>3, <3>1
    <3>3. /\ toOwner'[o] = Append(toOwner[o], Message("leave", j))
          /\ \A p \in Owner \ {o} : toOwner'[p] = toOwner[p]
      BY <1>2, <3>1
    <3> QED BY <1>3, <3>2, <3>3 DEF EdgePuts
  <2>2. CASE <<j, o>> \notin route
    BY <1>1, <1>2, <2>2, SameEffect DEF EdgePuts
  <2> QED BY <2>1, <2>2
<1>5. ProcTypes' /\ EdgeTypes' /\ OwnerTypes' /\ FreshRequests'
  BY <1>1, TypesKept DEF edgeVars
<1>6. QueueTypes' /\ ClientTypes'
  BY <1>1, <1>4 DEF Types, QueueTypes, ClientTypes
<1> QED BY <1>4, <1>5, <1>6 DEF Types

\* A client that leaves uses a ref.
LEMMA ClientLeavesTypes ==
    ASSUME Types, NEW j \in Join, ClientLeaves(j)
    PROVE  Types' /\ ClientsEnd
<1>1. /\ client[j] = "joined" /\ client' = [client EXCEPT ![j] = "left"]
      /\ leaving' = leaving \cup {<<j, using[j]>>}
      /\ UNCHANGED <<procVars, edgeVars, ownerVars, toOwner, toEdge, using>>
  BY DEF ClientLeaves
<1>2. ProcTypes' /\ EdgeTypes' /\ OwnerTypes'
  BY <1>1, TypesKept
<1>3. QueueTypes' /\ ClientTypes'
  BY <1>1 DEF Types, QueueTypes, ClientTypes, Ref
<1>4. FreshRequests' /\ ClientsEnd
  BY <1>1 DEF Types, ClientTypes, FreshRequests, ClientsEnd, edgeVars
<1> QED BY <1>2, <1>3, <1>4 DEF Types

\* The owners that heard of a connection are told that it closed.
LEMMA ConnClosesTypes ==
    ASSUME Types, NEW c \in Conn, ConnCloses(c)
    PROVE  /\ Types'
           /\ \A o \in Owner : Grown(toOwner[o], toOwner'[o], "conn", IF o \in owners[c] THEN {c} ELSE {})
<1>1. /\ open' = open \ {c} /\ route' = {x \in route : ConnOf[x[1]] # c}
      /\ toOwner' = [o \in Owner |-> IF o \in owners[c] THEN Append(toOwner[o], Message("conn", c))
                                     ELSE toOwner[o]]
      /\ owners' = [owners EXCEPT ![c] = {}]
      /\ ClientsGone({c})
      /\ UNCHANGED <<procVars, req, ownerVars, toEdge>>
  BY DEF ConnCloses
<1>2. toOwner \in [Owner -> Seq(ToOwnerMsg)] /\ Message("conn", c) \in ToOwnerMsg
  BY MessageTypes DEF Types, QueueTypes
<1>3. ASSUME NEW o \in Owner
      PROVE  /\ toOwner'[o] \in Seq(ToOwnerMsg)
             /\ Grown(toOwner[o], toOwner'[o], "conn", IF o \in owners[c] THEN {c} ELSE {})
  <2>1. CASE o \in owners[c]
    <3>1. /\ Grown(toOwner[o], Append(toOwner[o], Message("conn", c)), "conn", {c})
          /\ Append(toOwner[o], Message("conn", c)) \in Seq(ToOwnerMsg)
      BY <1>2, AppendEffect
    <3>2. toOwner'[o] = Append(toOwner[o], Message("conn", c))
      BY <1>1, <2>1
    <3> QED BY <2>1, <3>1, <3>2
  <2>2. CASE o \notin owners[c]
    BY <1>1, <1>2, <2>2, SameEffect
  <2> QED BY <2>1, <2>2
<1>4. toOwner' \in [Owner -> Seq(ToOwnerMsg)]
  <2>1. toOwner' = [o \in Owner |-> toOwner'[o]]
    BY <1>1
  <2> QED BY <1>3, <2>1
<1>5. ProcTypes' /\ OwnerTypes'
  BY <1>1, TypesKept
<1>6. EdgeTypes'
  BY <1>1 DEF Types, EdgeTypes
<1>7. QueueTypes'
  BY <1>1, <1>4 DEF Types, QueueTypes
<1>8. ClientTypes' /\ FreshRequests'
  BY <1>1 DEF Types, ClientTypes, FreshRequests, ClientsGone
<1> QED BY <1>3, <1>5, <1>6, <1>7, <1>8 DEF Types

\* The RemoteConnections that o lists for the connections of C.
Listed(o, C) == {current[o][c] : c \in C} \ {None}

\* The owner o takes the connections of C for closed.
Shuts(o, C) ==
    /\ \A c \in Conn : current'[o][c] = IF c \in C THEN None ELSE current[o][c]
    /\ \A p \in Owner \ {o} : current'[p] = current[p] /\ shut'[p] = shut[p]
    /\ shut'[o] = shut[o] \cup Listed(o, C)
    /\ \A j \in Join, p \in Owner :
          seat'[<<j, p>>] = IF p = o /\ object[<<j, p>>] \in Listed(o, C) /\ seat[<<j, p>>] = "joined"
                            THEN "gone" ELSE seat[<<j, p>>]
    /\ UNCHANGED object

\* The owner o forgets what it lists for c, unless x has a seat in s.
Prunes(o, c, x, s) ==
    /\ \A p \in Owner \ {o} : current'[p] = current[p]
    /\ \A d \in Conn \ {c} : current'[o][d] = current[o][d]
    /\ current'[o][c] = IF SeatsOn(x, o, s) = {} THEN None ELSE current[o][c]

\* The seat of <<j, o>> becomes v, all others stay.
Becomes(j, o, v) ==
    /\ seat'[<<j, o>>] = v
    /\ \A k \in Join, p \in Owner : k # j \/ p # o => seat'[<<k, p>>] = seat[<<k, p>>]

\* The owner o takes the JOIN of j.
Took(j, o) ==
    LET x == RemoteConnection(o, ConnOf[j], j) IN
    /\ OwnerGets(o, "join?", j) /\ o \in alive
    /\ Becomes(j, o, IF j \in Creates THEN "auth" ELSE "joining")
    /\ object'[<<j, o>>] = x
    /\ \A k \in Join, p \in Owner : k # j \/ p # o => object'[<<k, p>>] = object[<<k, p>>]
    /\ current'[o][ConnOf[j]] = x
    /\ \A p \in Owner \ {o} : current'[p] = current[p]
    /\ \A d \in Conn \ {ConnOf[j]} : current'[o][d] = current[o][d]
    /\ UNCHANGED <<alive, cut, edgeVars, shut, toEdge, clientVars>>

\* The owner o turns the JOIN of j down.
TurnedDown(j, o, t) ==
    /\ OwnerGets(o, "join?", j) /\ o \in alive
    /\ t \in {"refused", "failed"} /\ OwnerPuts(o, t, {j})
    /\ Prunes(o, ConnOf[j], RemoteConnection(o, ConnOf[j], j), seat)
    /\ UNCHANGED <<alive, cut, edgeVars, seat, object, shut, clientVars>>

\* The owner o hears that c closed.
Heard(o, c) ==
    /\ OwnerGets(o, "conn", c) /\ o \in alive /\ Shuts(o, {c})
    /\ UNCHANGED <<alive, cut, edgeVars, toEdge, clientVars>>

\* A LEAVE of the client ends a seat, or comes too early or too late.
Freed(j, o) ==
    /\ OwnerGets(o, "leave", j) /\ o \in alive
    /\ IF seat[<<j, o>>] = "joined"
       THEN Becomes(j, o, "gone") /\ OwnerPuts(o, "LEAVE", Framed(j, o))
       ELSE UNCHANGED <<seat, toEdge>>
    /\ UNCHANGED <<alive, cut, edgeVars, current, object, shut, clientVars>>

\* What _closeRemoteConnection does, and its types.
LEMMA CloseRemoteShuts ==
    ASSUME Types, NEW o \in Owner, NEW C \in SUBSET Conn, CloseRemote(o, C)
    PROVE  Shuts(o, C) /\ OwnerTypes'
<1>0. /\ current \in [Owner -> [Conn -> Join \cup {None}]]
      /\ object \in [Ref -> Join \cup {None}] /\ shut \in [Owner -> SUBSET Join]
      /\ seat \in [Ref -> {"none", "auth", "joining", "joined", "gone"}]
  BY DEF Types, OwnerTypes
<1>1. /\ current' = [current EXCEPT ![o] = [c \in Conn |-> IF c \in C THEN None ELSE current[o][c]]]
      /\ shut' = [shut EXCEPT ![o] = shut[o] \cup Listed(o, C)]
      /\ seat' = [x \in Ref |-> IF x[2] = o /\ object[x] \in Listed(o, C) /\ seat[x] = "joined"
                                THEN "gone" ELSE seat[x]]
      /\ object' = object
  BY <1>0 DEF CloseRemote, Listed
<1>2. Listed(o, C) \subseteq Join
  BY <1>0 DEF Listed
<1>3. /\ \A c \in Conn : current'[o][c] = IF c \in C THEN None ELSE current[o][c]
      /\ \A p \in Owner \ {o} : current'[p] = current[p]
      /\ current' \in [Owner -> [Conn -> Join \cup {None}]]
  BY <1>0, <1>1
<1>4. /\ shut'[o] = shut[o] \cup Listed(o, C) /\ \A p \in Owner \ {o} : shut'[p] = shut[p]
      /\ shut' \in [Owner -> SUBSET Join]
  BY <1>0, <1>1, <1>2
<1>5. seat' \in [Ref -> {"none", "auth", "joining", "joined", "gone"}]
  BY <1>0, <1>1
<1>6. ASSUME NEW j \in Join, NEW p \in Owner
      PROVE  seat'[<<j, p>>] = IF p = o /\ object[<<j, p>>] \in Listed(o, C) /\ seat[<<j, p>>] = "joined"
                               THEN "gone" ELSE seat[<<j, p>>]
  BY <1>1 DEF Ref
<1> QED BY <1>0, <1>1, <1>3, <1>4, <1>5, <1>6 DEF Shuts, OwnerTypes

\* What a pruned RemoteConnection does to the list.
LEMMA PruneEffect ==
    ASSUME Types, NEW o \in Owner, NEW c \in Conn, NEW x, NEW s, current' = Prune(o, c, x, s)
    PROVE  Prunes(o, c, x, s) /\ current' \in [Owner -> [Conn -> Join \cup {None}]]
<1>0. current \in [Owner -> [Conn -> Join \cup {None}]]
  BY DEF Types, OwnerTypes
<1>1. CASE SeatsOn(x, o, s) = {}
  <2>1. current' = [current EXCEPT ![o] = [current[o] EXCEPT ![c] = None]]
    BY <1>1 DEF Prune
  <2> QED BY <1>0, <1>1, <2>1 DEF Prunes
<1>2. CASE SeatsOn(x, o, s) # {}
  BY <1>0, <1>2 DEF Prune, Prunes
<1> QED BY <1>1, <1>2

\* A seat that changes keeps the type of seats.
LEMMA BecomesEffect ==
    ASSUME Types, NEW o \in Owner, NEW j \in Join,
           NEW v \in {"none", "auth", "joining", "joined", "gone"},
           seat' = [seat EXCEPT ![<<j, o>>] = v]
    PROVE  Becomes(j, o, v) /\ seat' \in [Ref -> {"none", "auth", "joining", "joined", "gone"}]
<1>1. seat \in [Ref -> {"none", "auth", "joining", "joined", "gone"}] /\ <<j, o>> \in Ref
  BY DEF Types, OwnerTypes, Ref
<1>2. \A k \in Join, p \in Owner : <<k, p>> \in Ref
  BY DEF Ref
<1> QED BY <1>1, <1>2 DEF Becomes

\* Every message that an owner takes is one of the steps above.
LEMMA OwnerReceivesStep ==
    ASSUME Types, NEW o \in Owner, OwnerReceives(o)
    PROVE  /\ \/ \E j \in Join : \/ Took(j, o) \/ Freed(j, o)
                                 \/ \E t \in EdgeKind : TurnedDown(j, o, t)
              \/ \E c \in Conn : Heard(o, c)
           /\ Types'
<1> DEFINE t == Head(toOwner[o]).t
           i == Head(toOwner[o]).id
<1>1. /\ o \in alive /\ toOwner[o] # <<>> /\ toOwner' = [toOwner EXCEPT ![o] = Tail(toOwner[o])]
      /\ peers' = [peers EXCEPT ![o] = peers[o] \cup {Edge}]
      /\ UNCHANGED <<alive, cut, faults, edgeVars, clientVars>>
      /\ \/ t = "join?" /\ OwnerJoins(o, i)
         \/ t = "conn" /\ CloseRemote(o, {i}) /\ UNCHANGED toEdge
         \/ t = "leave" /\ ClusterLeave(o, i)
  BY DEF OwnerReceives
<1>2. /\ t \in {"join?", "leave", "conn"}
      /\ t \in {"join?", "leave"} => i \in Join
      /\ t = "conn" => i \in Conn
  BY <1>1, HeadTypes
<1>3. OwnerGets(o, t, i) /\ toOwner' \in [Owner -> Seq(ToOwnerMsg)]
  BY <1>1, OwnerPops
<1> HIDE DEF t, i
<1>4. ProcTypes' /\ EdgeTypes' /\ ClientTypes' /\ FreshRequests'
  <2>1. ProcTypes'
    BY <1>1 DEF Types, ProcTypes, Proc
  <2> QED BY <1>1, <2>1, TypesKept DEF edgeVars, clientVars
<1>5. toEdge \in [Owner -> Seq(ToEdgeMsg)]
  BY DEF Types, QueueTypes
<1>o. /\ current \in [Owner -> [Conn -> Join \cup {None}]]
      /\ object \in [Ref -> Join \cup {None}] /\ shut \in [Owner -> SUBSET Join]
      /\ seat \in [Ref -> {"none", "auth", "joining", "joined", "gone"}]
  BY DEF Types, OwnerTypes
<1>6. CASE t = "conn"
  <2>1. CloseRemote(o, {i}) /\ UNCHANGED toEdge /\ i \in Conn
    BY <1>1, <1>2, <1>6
  <2>2. Shuts(o, {i}) /\ OwnerTypes'
    BY <2>1, CloseRemoteShuts
  <2>3. Heard(o, i)
    BY <1>1, <1>3, <1>6, <2>1, <2>2 DEF Heard
  <2>4. QueueTypes'
    BY <1>3, <1>5, <2>1 DEF QueueTypes
  <2> QED BY <1>4, <2>1, <2>2, <2>3, <2>4 DEF Types
<1>7. CASE t = "leave"
  <2>1. ClusterLeave(o, i) /\ i \in Join
    BY <1>1, <1>2, <1>7
  <2>2. CASE seat[<<i, o>>] = "joined"
    <3>1. /\ seat' = [seat EXCEPT ![<<i, o>>] = "gone"] /\ Publish(o, Frame(i, o, "LEAVE"))
          /\ UNCHANGED <<current, object, shut>>
      BY <2>1, <2>2 DEF ClusterLeave
    <3>2. OwnerPuts(o, "LEAVE", Framed(i, o)) /\ toEdge' \in [Owner -> Seq(ToEdgeMsg)]
      BY <2>1, <3>1, PublishFrame
    <3>3. Becomes(i, o, "gone") /\ seat' \in [Ref -> {"none", "auth", "joining", "joined", "gone"}]
      BY <2>1, <3>1, BecomesEffect
    <3>4. Freed(i, o)
      BY <1>1, <1>3, <1>7, <2>2, <3>1, <3>2, <3>3 DEF Freed
    <3>5. OwnerTypes' /\ QueueTypes'
      BY <1>3, <1>o, <3>1, <3>2, <3>3 DEF OwnerTypes, QueueTypes
    <3> QED BY <1>4, <2>1, <3>4, <3>5 DEF Types
  <2>3. CASE seat[<<i, o>>] # "joined"
    <3>1. UNCHANGED <<ownerVars, toEdge>>
      BY <2>1, <2>3 DEF ClusterLeave
    <3>2. Freed(i, o)
      BY <1>1, <1>3, <1>7, <2>3, <3>1 DEF Freed, ownerVars
    <3>3. OwnerTypes' /\ QueueTypes'
      BY <1>3, <1>5, <3>1, TypesKept DEF QueueTypes
    <3> QED BY <1>4, <2>1, <3>2, <3>3 DEF Types
  <2> QED BY <2>2, <2>3
<1>8. CASE t = "join?"
  <2> DEFINE c == ConnOf[i]
             x == RemoteConnection(o, c, i)
             v == IF i \in Creates THEN "auth" ELSE "joining"
  <2>1. OwnerJoins(o, i) /\ i \in Join /\ c \in Conn
    BY <1>1, <1>2, <1>8, ClusterJoinAssumption
  <2>2. x \in Join
    BY <1>o, <2>1 DEF RemoteConnection
  <2>3. CASE /\ seat' = [seat EXCEPT ![<<i, o>>] = v]
             /\ object' = [object EXCEPT ![<<i, o>>] = x]
             /\ current' = [current EXCEPT ![o][c] = x]
             /\ UNCHANGED <<shut, toEdge>>
    <3> HIDE DEF x, c
    <3>1. Becomes(i, o, v) /\ seat' \in [Ref -> {"none", "auth", "joining", "joined", "gone"}]
      BY <2>1, <2>3, BecomesEffect
    <3>2. /\ object'[<<i, o>>] = x /\ object' \in [Ref -> Join \cup {None}]
          /\ \A k \in Join, p \in Owner : k # i \/ p # o => object'[<<k, p>>] = object[<<k, p>>]
      <4>1. \A k \in Join, p \in Owner : <<k, p>> \in Ref
        BY DEF Ref
      <4> QED BY <1>o, <2>1, <2>2, <2>3, <4>1
    <3>3. /\ current'[o][c] = x /\ current' \in [Owner -> [Conn -> Join \cup {None}]]
          /\ \A p \in Owner \ {o} : current'[p] = current[p]
          /\ \A d \in Conn \ {c} : current'[o][d] = current[o][d]
      <4>1. current' = [current EXCEPT ![o] = [current[o] EXCEPT ![c] = x]]
        BY <2>3
      <4> QED BY <1>o, <2>1, <2>2, <4>1
    <3>4. Took(i, o)
      BY <1>1, <1>3, <1>8, <2>3, <3>1, <3>2, <3>3 DEF Took, x, c
    <3>5. OwnerTypes' /\ QueueTypes'
      BY <1>3, <1>5, <1>o, <2>3, <3>1, <3>2, <3>3 DEF OwnerTypes, QueueTypes
    <3> QED BY <1>4, <2>1, <3>4, <3>5 DEF Types
  <2>4. CASE /\ \E u \in {"refused", "failed"} : Publish(o, <<Message(u, i)>>)
             /\ current' = Prune(o, c, x, seat)
             /\ UNCHANGED <<seat, object, shut>>
    <3>1. PICK u \in {"refused", "failed"} : Publish(o, <<Message(u, i)>>)
      BY <2>4
    <3>2. OwnerPuts(o, u, {i}) /\ toEdge' \in [Owner -> Seq(ToEdgeMsg)]
      BY <2>1, <3>1, PublishOne
    <3>3. Prunes(o, c, x, seat) /\ current' \in [Owner -> [Conn -> Join \cup {None}]]
      BY <2>1, <2>4, PruneEffect
    <3>4. TurnedDown(i, o, u) /\ u \in EdgeKind
      BY <1>1, <1>3, <1>8, <2>4, <3>2, <3>3 DEF TurnedDown, EdgeKind
    <3>5. OwnerTypes' /\ QueueTypes'
      BY <1>3, <1>o, <2>4, <3>2, <3>3 DEF OwnerTypes, QueueTypes
    <3> QED BY <1>4, <2>1, <3>4, <3>5 DEF Types
  <2> QED BY <2>1, <2>3, <2>4 DEF OwnerJoins
<1> QED BY <1>2, <1>6, <1>7, <1>8

\* A join at the owner comes to nothing.
LEMMA OwnerRefusesEffect ==
    ASSUME Types, NEW j \in Join, NEW o \in Owner, OwnerRefuses(j, o)
    PROVE  /\ Types' /\ Becomes(j, o, "none") /\ OwnerPuts(o, "failed", {j})
           /\ Prunes(o, ConnOf[j], object[<<j, o>>], seat')
<1>1. /\ seat' = [seat EXCEPT ![<<j, o>>] = "none"]
      /\ current' = Prune(o, ConnOf[j], object[<<j, o>>], seat')
      /\ Publish(o, <<Message("failed", j)>>)
      /\ UNCHANGED <<procVars, edgeVars, object, shut, toOwner, clientVars>>
  BY DEF OwnerRefuses
<1>2. Becomes(j, o, "none") /\ seat' \in [Ref -> {"none", "auth", "joining", "joined", "gone"}]
  BY <1>1, BecomesEffect
<1>3. OwnerPuts(o, "failed", {j}) /\ toEdge' \in [Owner -> Seq(ToEdgeMsg)]
  BY <1>1, PublishOne
<1>4. /\ Prunes(o, ConnOf[j], object[<<j, o>>], seat')
      /\ current' \in [Owner -> [Conn -> Join \cup {None}]]
  <2>1. ConnOf[j] \in Conn
    BY ClusterJoinAssumption
  <2>2. PICK s : s = seat'
    OBVIOUS
  <2>3. current' = Prune(o, ConnOf[j], object[<<j, o>>], s)
    BY <1>1, <2>2
  <2> QED BY <2>1, <2>2, <2>3, PruneEffect
<1>5. ProcTypes' /\ EdgeTypes' /\ ClientTypes' /\ FreshRequests'
  BY <1>1, TypesKept DEF edgeVars, clientVars
<1>6. OwnerTypes' /\ QueueTypes'
  BY <1>1, <1>2, <1>3, <1>4 DEF Types, OwnerTypes, QueueTypes
<1> QED BY <1>2, <1>3, <1>4, <1>5, <1>6 DEF Types

\* A seat for a room that was just created.
LEMMA OwnerCreatesEffect ==
    ASSUME Types, NEW j \in Join, NEW o \in Owner, OwnerCreates(j, o)
    PROVE  Types' /\ Becomes(j, o, "joining")
<1>1. /\ seat' = [seat EXCEPT ![<<j, o>>] = "joining"]
      /\ UNCHANGED <<procVars, edgeVars, current, object, shut, toOwner, toEdge, clientVars>>
  BY DEF OwnerCreates
<1>2. Becomes(j, o, "joining") /\ seat' \in [Ref -> {"none", "auth", "joining", "joined", "gone"}]
  BY <1>1, BecomesEffect
<1>3. ProcTypes' /\ EdgeTypes' /\ ClientTypes' /\ FreshRequests'
  BY <1>1, TypesKept DEF edgeVars, clientVars
<1>4. OwnerTypes' /\ QueueTypes'
  BY <1>1, <1>2 DEF Types, OwnerTypes, QueueTypes
<1> QED BY <1>2, <1>3, <1>4 DEF Types

\* A join at the owner succeeds.
LEMMA OwnerSeatsEffect ==
    ASSUME Types, NEW j \in Join, NEW o \in Owner, OwnerSeats(j, o)
    PROVE  /\ Types'
           /\ Becomes(j, o, IF object[<<j, o>>] \in shut[o] THEN "gone" ELSE "joined")
           /\ \E r : /\ Grown(toEdge[o], r, "join!", {j})
                     /\ Grown(r, toEdge'[o], "JOIN_SUCCESS", Framed(j, o))
           /\ \A p \in Owner \ {o} : toEdge'[p] = toEdge[p]
<1> DEFINE v == IF object[<<j, o>>] \in shut[o] THEN "gone" ELSE "joined"
<1>1. /\ seat' = [seat EXCEPT ![<<j, o>>] = v]
      /\ Publish(o, <<Message("join!", j)>> \o Frame(j, o, "JOIN_SUCCESS"))
      /\ UNCHANGED <<procVars, edgeVars, current, object, shut, toOwner, clientVars>>
  BY DEF OwnerSeats
<1>2. Becomes(j, o, v) /\ seat' \in [Ref -> {"none", "auth", "joining", "joined", "gone"}]
  BY <1>1, BecomesEffect
<1>3. /\ \E r : /\ Grown(toEdge[o], r, "join!", {j})
                /\ Grown(r, toEdge'[o], "JOIN_SUCCESS", Framed(j, o))
      /\ \A p \in Owner \ {o} : toEdge'[p] = toEdge[p]
      /\ toEdge' \in [Owner -> Seq(ToEdgeMsg)]
  BY <1>1, PublishReply
<1>4. ProcTypes' /\ EdgeTypes' /\ ClientTypes' /\ FreshRequests'
  BY <1>1, TypesKept DEF edgeVars, clientVars
<1>5. OwnerTypes' /\ QueueTypes'
  BY <1>1, <1>2, <1>3 DEF Types, OwnerTypes, QueueTypes
<1> QED BY <1>2, <1>3, <1>4, <1>5 DEF Types

\* A seat that the owner ends.
LEMMA OwnerKicksEffect ==
    ASSUME Types, NEW j \in Join, NEW o \in Owner, OwnerKicks(j, o)
    PROVE  Types' /\ Becomes(j, o, "gone") /\ OwnerPuts(o, "LEAVE", Framed(j, o))
<1>1. /\ seat' = [seat EXCEPT ![<<j, o>>] = "gone"] /\ Publish(o, Frame(j, o, "LEAVE"))
      /\ UNCHANGED <<procVars, edgeVars, current, object, shut, toOwner, clientVars>>
  BY DEF OwnerKicks
<1>2. Becomes(j, o, "gone") /\ seat' \in [Ref -> {"none", "auth", "joining", "joined", "gone"}]
  BY <1>1, BecomesEffect
<1>3. OwnerPuts(o, "LEAVE", Framed(j, o)) /\ toEdge' \in [Owner -> Seq(ToEdgeMsg)]
  BY <1>1, PublishFrame
<1>4. ProcTypes' /\ EdgeTypes' /\ ClientTypes' /\ FreshRequests'
  BY <1>1, TypesKept DEF edgeVars, clientVars
<1>5. OwnerTypes' /\ QueueTypes'
  BY <1>1, <1>2, <1>3 DEF Types, OwnerTypes, QueueTypes
<1> QED BY <1>2, <1>3, <1>4, <1>5 DEF Types

\* An owner drops the edge.
LEMMA OwnerDropsEffect ==
    ASSUME Types, NEW o \in Owner, OwnerDrops(o)
    PROVE  /\ Types' /\ Shuts(o, Conn) /\ alive' = alive /\ o \in alive
           /\ Edge \in alive => cut' = cut \cup {<<o, Edge>>}
           /\ Edge \notin alive => cut' = cut /\ \A t, i : ~Sends(toOwner[o], t, i)
<1>1. Drops(o, Edge) /\ CloseRemote(o, Conn) /\ UNCHANGED <<edgeVars, toOwner, toEdge, clientVars>>
  BY DEF OwnerDrops
<1>2. Shuts(o, Conn) /\ OwnerTypes'
  BY <1>1, CloseRemoteShuts
<1>3. ProcTypes'
  BY <1>1, DropsTypes DEF Proc
<1>4. EdgeTypes' /\ ClientTypes' /\ FreshRequests'
  BY <1>1, TypesKept DEF edgeVars, clientVars
<1>5. QueueTypes'
  BY <1>1 DEF Types, QueueTypes
<1>6. /\ alive' = alive /\ o \in alive
      /\ Edge \in alive => cut' = cut \cup {<<o, Edge>>}
      /\ Edge \notin alive => cut' = cut /\ \A t, i : ~Sends(toOwner[o], t, i)
  BY <1>1, ClusterJoinAssumption DEF Drops, Sends
<1> QED BY <1>2, <1>3, <1>4, <1>5, <1>6 DEF Types

\* An owner crashes.
LEMMA OwnerCrashesEffect ==
    ASSUME Types, NEW o \in Owner, OwnerCrashes(o)
    PROVE  /\ Types' /\ alive' = alive \ {o}
           /\ \A j \in Join, p \in Owner :
                 seat'[<<j, p>>] = IF p = o THEN "none" ELSE seat[<<j, p>>]
           /\ \A t, i : ~Sends(toOwner'[o], t, i)
           /\ \A t, i, u, k : Once(toOwner'[o], t, i) /\ Before(toOwner'[o], t, i, u, k)
           /\ \A p \in Owner \ {o} : toOwner'[p] = toOwner[p]
<1>1. /\ faults < MaxFaults /\ alive' = alive \ {o} /\ faults' = faults + 1
      /\ seat' = [x \in Ref |-> IF x[2] = o THEN "none" ELSE seat[x]]
      /\ toOwner' = [toOwner EXCEPT ![o] = <<>>]
      /\ UNCHANGED <<peers, cut, edgeVars, current, object, shut, toEdge, clientVars>>
  BY DEF OwnerCrashes
<1>2. ProcTypes'
  <2>1. faults \in 0 .. MaxFaults /\ MaxFaults \in Nat
    BY ClusterJoinAssumption DEF Types, ProcTypes
  <2>2. faults' \in 0 .. MaxFaults
    BY <1>1, <2>1
  <2> QED BY <1>1, <2>2 DEF Types, ProcTypes
<1>3. EdgeTypes' /\ ClientTypes' /\ FreshRequests'
  BY <1>1, TypesKept DEF edgeVars, clientVars
<1>4. OwnerTypes' /\ \A j \in Join, p \in Owner :
                       seat'[<<j, p>>] = IF p = o THEN "none" ELSE seat[<<j, p>>]
  <2>1. \A j \in Join, p \in Owner : <<j, p>> \in Ref /\ <<j, p>>[2] = p
    BY DEF Ref
  <2>2. \A j \in Join, p \in Owner : seat'[<<j, p>>] = IF p = o THEN "none" ELSE seat[<<j, p>>]
    BY <1>1, <2>1
  <2> QED BY <1>1, <2>2 DEF Types, OwnerTypes
<1>5. /\ toOwner' \in [Owner -> Seq(ToOwnerMsg)] /\ toOwner'[o] = <<>>
      /\ \A p \in Owner \ {o} : toOwner'[p] = toOwner[p]
  BY <1>1 DEF Types, QueueTypes
<1>6. QueueTypes'
  BY <1>1, <1>5 DEF Types, QueueTypes
<1>7. /\ \A t, i : ~Sends(toOwner'[o], t, i)
      /\ \A t, i, u, k : Once(toOwner'[o], t, i) /\ Before(toOwner'[o], t, i, u, k)
  BY <1>5 DEF Sends, Once, Before
<1> QED BY <1>1, <1>2, <1>3, <1>4, <1>5, <1>6, <1>7 DEF Types

\* The edge crashes.
LEMMA EdgeCrashesEffect ==
    ASSUME Types, EdgeCrashes
    PROVE  /\ Types' /\ alive' = alive \ {Edge} /\ open' = {} /\ route' = {}
           /\ \A o \in Owner : \A t, i : ~Sends(toEdge'[o], t, i)
           /\ \A o \in Owner : \A t, i, u, k : Once(toEdge'[o], t, i) /\ Before(toEdge'[o], t, i, u, k)
           /\ \A j \in Join : client'[j] = "left"
<1>1. /\ faults < MaxFaults /\ alive' = alive \ {Edge} /\ faults' = faults + 1
      /\ open' = {} /\ route' = {} /\ toEdge' = [o \in Owner |-> <<>>] /\ ClientsGone(Conn)
      /\ UNCHANGED <<peers, cut, owners, req, ownerVars, toOwner>>
  BY DEF EdgeCrashes
<1>2. ProcTypes'
  <2>1. faults \in 0 .. MaxFaults /\ MaxFaults \in Nat
    BY ClusterJoinAssumption DEF Types, ProcTypes
  <2>2. faults' \in 0 .. MaxFaults
    BY <1>1, <2>1
  <2> QED BY <1>1, <2>2 DEF Types, ProcTypes
<1>3. EdgeTypes' /\ OwnerTypes'
  BY <1>1, TypesKept DEF Types, EdgeTypes
<1>4. QueueTypes'
  BY <1>1 DEF Types, QueueTypes
<1>5. \A j \in Join : client'[j] = "left"
  BY <1>1, ClusterJoinAssumption DEF ClientsGone
<1>6. ClientTypes' /\ FreshRequests'
  BY <1>1, <1>5 DEF Types, ClientTypes, FreshRequests, ClientsGone
<1>7. /\ \A o \in Owner : \A t, i : ~Sends(toEdge'[o], t, i)
      /\ \A o \in Owner : \A t, i, u, k : Once(toEdge'[o], t, i) /\ Before(toEdge'[o], t, i, u, k)
  <2>1. \A o \in Owner : toEdge'[o] = <<>>
    BY <1>1
  <2> QED BY <2>1 DEF Sends, Once, Before
<1> QED BY <1>1, <1>2, <1>3, <1>4, <1>5, <1>6, <1>7 DEF Types

\* Every step keeps the types.
LEMMA TypesStep == ASSUME Types, [Next]_vars PROVE Types'
<1>1. CASE EdgeCrashes
  BY <1>1, EdgeCrashesEffect
<1>2. ASSUME NEW c \in Conn, ConnCloses(c) PROVE Types'
  BY <1>2, ConnClosesTypes
<1>3. ASSUME NEW j \in Join, Ask(j) \/ Locate(j) \/ TimeOut(j) \/ ClientLeaves(j) PROVE Types'
  BY <1>3, AskTypes, LocateStep, TimeOutStep, ClientLeavesTypes
<1>4. ASSUME NEW o \in Owner, EdgeReceives(o) \/ OwnerReceives(o) \/ EdgeDrops(o)
                              \/ OwnerDrops(o) \/ OwnerCrashes(o)
      PROVE  Types'
  BY <1>4, EdgeReceivesStep, OwnerReceivesStep, EdgeDropsStep, OwnerDropsEffect, OwnerCrashesEffect
<1>5. ASSUME NEW j \in Join, NEW o \in Owner,
             EdgeLeaves(j, o) \/ OwnerRefuses(j, o) \/ OwnerCreates(j, o)
             \/ OwnerSeats(j, o) \/ OwnerKicks(j, o)
      PROVE  Types'
  BY <1>5, EdgeLeavesTypes, OwnerRefusesEffect, OwnerCreatesEffect, OwnerSeatsEffect, OwnerKicksEffect
<1>6. CASE UNCHANGED vars
  <2>1. ProcTypes' /\ EdgeTypes' /\ OwnerTypes' /\ ClientTypes' /\ FreshRequests'
    BY <1>6, TypesKept DEF vars, edgeVars, clientVars
  <2>2. QueueTypes'
    BY <1>6 DEF vars, Types, QueueTypes
  <2> QED BY <2>1, <2>2 DEF Types
<1> QED BY <1>1, <1>2, <1>3, <1>4, <1>5, <1>6 DEF Next

\* The tables of the edge and of the owners, the messages between them and the
\* states of the clients keep their types, whatever the processes and clients do.
THEOREM TypeCorrect == Spec => []TypeOK
<1>1. Init => Types
  BY InitTypes
<1>2. Types /\ [Next]_vars => Types'
  BY TypesStep
<1>3. Types => TypeOK
  BY TypesImplyTypeOK
<1> QED BY <1>1, <1>2, <1>3, PTL DEF Spec

----------------------------------------------------------------------------
(* The tables of the edge. *)

\* The request of j and its client: a request that is under way or answered is
\* at an owner it asked, a client that waits has a request and a connection, and
\* a connection knows of all owners that were asked for it.
RequestSound(j) ==
    /\ req[j].st \in {"waiting", "ok"} => req[j].at \in req[j].tried
    /\ req[j].st \notin {"waiting", "ok"} => req[j].at = None
    /\ client[j] = "asked" => ConnOf[j] \in open /\ req[j].st \in {"locating", "waiting", "ok"}
    /\ client[j] = "joined" => ConnOf[j] \in open
    /\ ConnOf[j] \in open => req[j].tried \subseteq owners[ConnOf[j]]

\* A route belongs to an open connection and to the owner that took the join.
RouteSound(j, o) ==
    <<j, o>> \in route => ConnOf[j] \in open /\ req[j].st = "ok" /\ req[j].at = o

EdgeSound ==
    /\ Edge \notin alive => open = {}
    /\ \A j \in Join : RequestSound(j)
    /\ \A j \in Join, o \in Owner : RouteSound(j, o)

\* It holds when the cluster starts.
LEMMA InitEdgeSound == Init => EdgeSound
<1> SUFFICES ASSUME Init PROVE EdgeSound
  OBVIOUS
<1>1. Edge \in alive
  BY ClusterJoinAssumption DEF Init
<1>2. ASSUME NEW j \in Join PROVE RequestSound(j)
  BY DEF Init, RequestSound
<1>3. ASSUME NEW j \in Join, NEW o \in Owner PROVE RouteSound(j, o)
  BY DEF Init, RouteSound
<1> QED BY <1>1, <1>2, <1>3 DEF EdgeSound

\* Moving joins on keeps it.
LEMMA MoveEdgeSound ==
    ASSUME Types, EdgeSound, NEW W, NEW next, MoveStep(W, next),
           \A j \in W : req[j].st \in {"locating", "waiting"}, route' \subseteq route
    PROVE  EdgeSound'
<1>1. /\ alive' = alive /\ open' = open /\ W \subseteq Join
      /\ \A j \in Join : ConnOf[j] \in Conn
      /\ next \in [W -> Owner \cup {None}]
  BY ClusterJoinAssumption DEF MoveStep, Moves
<1>2. ASSUME NEW j \in Join, j \notin W PROVE RequestSound(j)'
  <2>1. /\ req'[j] = req[j] /\ owners[ConnOf[j]] \subseteq owners'[ConnOf[j]]
        /\ client'[j] \in {"asked", "joined"} => client'[j] = client[j]
    BY <1>1, <1>2 DEF MoveStep, Moves, ClientsEnd
  <2> QED BY <1>1, <2>1 DEF EdgeSound, RequestSound
<1>3. ASSUME NEW j \in W, next[j] = None PROVE RequestSound(j)'
  <2>1. /\ req'[j].st = "err" /\ req'[j].at = None /\ req'[j].tried = req[j].tried
        /\ ConnOf[j] \in open => client'[j] # "asked"
        /\ owners[ConnOf[j]] \subseteq owners'[ConnOf[j]]
        /\ client'[j] \in {"asked", "joined"} => client'[j] = client[j]
    BY <1>1, <1>3 DEF MoveStep, Moves, ClientsEnd
  <2> QED BY <1>1, <2>1 DEF EdgeSound, RequestSound
<1>4. ASSUME NEW j \in W, next[j] # None PROVE RequestSound(j)'
  <2>1. /\ req'[j].st = "waiting" /\ req'[j].at = next[j]
        /\ req'[j].tried = req[j].tried \cup {next[j]} /\ next[j] \in owners'[ConnOf[j]]
        /\ owners[ConnOf[j]] \subseteq owners'[ConnOf[j]]
        /\ client'[j] \in {"asked", "joined"} => client'[j] = client[j]
    BY <1>1, <1>4 DEF MoveStep, Moves, ClientsEnd
  <2> QED BY <1>1, <2>1 DEF EdgeSound, RequestSound
<1>5. ASSUME NEW j \in Join, NEW o \in Owner PROVE RouteSound(j, o)'
  <2> SUFFICES ASSUME <<j, o>> \in route'
               PROVE  ConnOf[j] \in open' /\ req'[j].st = "ok" /\ req'[j].at = o
    BY DEF RouteSound
  <2>1. ConnOf[j] \in open /\ req[j].st = "ok" /\ req[j].at = o
    BY DEF EdgeSound, RouteSound
  <2>2. j \notin W
    BY <2>1
  <2>3. req'[j] = req[j]
    BY <2>2 DEF MoveStep, Moves
  <2> QED BY <1>1, <2>1, <2>3
<1>6. \A j \in Join : RequestSound(j)'
  BY <1>2, <1>3, <1>4
<1> QED BY <1>1, <1>5, <1>6 DEF EdgeSound

\* Steps that leave the requests, the connections and the routes alone, or only
\* end clients and routes, keep it.
LEMMA EdgeSoundKept ==
    ASSUME EdgeSound, UNCHANGED <<open, owners, req>>, route' \subseteq route,
           Edge \in alive => Edge \in alive', ClientsEnd
    PROVE  EdgeSound'
<1>1. ASSUME NEW j \in Join PROVE RequestSound(j)'
  <2>1. client'[j] \in {"asked", "joined"} => client'[j] = client[j]
    BY DEF ClientsEnd
  <2> QED BY <2>1 DEF EdgeSound, RequestSound
<1>2. ASSUME NEW j \in Join, NEW o \in Owner PROVE RouteSound(j, o)'
  BY DEF EdgeSound, RouteSound
<1> QED BY <1>1, <1>2 DEF EdgeSound

\* Every step keeps the tables of the edge sound.
LEMMA EdgeSoundStep == ASSUME Types, EdgeSound, [Next]_vars PROVE EdgeSound'
<1>0. client' = client => ClientsEnd
  BY DEF ClientsEnd
<1>e. \A o \in Owner : o # Edge
  BY ClusterJoinAssumption
<1>1. CASE EdgeCrashes
  <2>1. /\ open' = {} /\ route' = {} /\ \A j \in Join : client'[j] = "left"
        /\ UNCHANGED <<owners, req>>
    BY <1>1, EdgeCrashesEffect DEF EdgeCrashes
  <2>2. ASSUME NEW j \in Join PROVE RequestSound(j)'
    BY <2>1 DEF EdgeSound, RequestSound
  <2>3. ASSUME NEW j \in Join, NEW o \in Owner PROVE RouteSound(j, o)'
    BY <2>1 DEF RouteSound
  <2> QED BY <2>1, <2>2, <2>3 DEF EdgeSound
<1>2. ASSUME NEW c \in Conn, ConnCloses(c) PROVE EdgeSound'
  <2>1. /\ open' = open \ {c} /\ route' = {x \in route : ConnOf[x[1]] # c}
        /\ owners' = [owners EXCEPT ![c] = {}] /\ req' = req /\ alive' = alive
        /\ client' = [j \in Join |-> IF ConnOf[j] \in {c} THEN "left" ELSE client[j]]
    BY <1>2 DEF ConnCloses, ClientsGone, procVars
  <2>2. ASSUME NEW j \in Join PROVE RequestSound(j)'
    <3>1. ConnOf[j] \in Conn /\ owners \in [Conn -> SUBSET Owner]
      BY ClusterJoinAssumption DEF Types, EdgeTypes
    <3>2. CASE ConnOf[j] = c
      BY <2>1, <3>1, <3>2 DEF EdgeSound, RequestSound
    <3>3. CASE ConnOf[j] # c
      BY <2>1, <3>1, <3>3 DEF EdgeSound, RequestSound
    <3> QED BY <3>2, <3>3
  <2>3. ASSUME NEW j \in Join, NEW o \in Owner PROVE RouteSound(j, o)'
    BY <2>1 DEF EdgeSound, RouteSound
  <2> QED BY <2>1, <2>2, <2>3 DEF EdgeSound
<1>3. ASSUME NEW j \in Join, Ask(j) PROVE EdgeSound'
  <2>1. /\ req'[j].st = "locating" /\ req'[j].at = req[j].at /\ req'[j].tried = req[j].tried
        /\ client'[j] = "asked" /\ req[j].st = "none"
        /\ \A k \in Join \ {j} : req'[k] = req[k] /\ client'[k] = client[k]
        /\ ConnOf[j] \in open /\ UNCHANGED <<alive, open, owners, route>>
    BY <1>3, AskTypes DEF Ask, procVars
  <2>2. ASSUME NEW k \in Join PROVE RequestSound(k)'
    <3>1. CASE k = j
      BY <2>1, <3>1 DEF EdgeSound, RequestSound
    <3>2. CASE k # j
      BY <2>1, <3>2 DEF EdgeSound, RequestSound
    <3> QED BY <3>1, <3>2
  <2>3. ASSUME NEW k \in Join, NEW o \in Owner PROVE RouteSound(k, o)'
    <3>1. CASE k = j
      BY <2>1, <3>1 DEF EdgeSound, RouteSound
    <3>2. CASE k # j
      BY <2>1, <3>2 DEF EdgeSound, RouteSound
    <3> QED BY <3>1, <3>2
  <2> QED BY <2>1, <2>2, <2>3 DEF EdgeSound
<1>4. ASSUME NEW j \in Join, Locate(j) PROVE EdgeSound'
  <2>1. PICK next : Located(j, next)
    BY <1>4, LocateStep
  <2>2. MoveStep({j}, next) /\ route' \subseteq route /\ \A k \in {j} : req[k].st \in {"locating", "waiting"}
    BY <2>1 DEF Located
  <2> QED BY <2>2, MoveEdgeSound
<1>5. ASSUME NEW j \in Join, TimeOut(j) PROVE EdgeSound'
  <2>1. PICK next : TimedOut(j, next)
    BY <1>5, TimeOutStep
  <2>2. MoveStep({j}, next) /\ route' \subseteq route /\ \A k \in {j} : req[k].st \in {"locating", "waiting"}
    BY <2>1 DEF TimedOut
  <2> QED BY <2>2, MoveEdgeSound
<1>6. ASSUME NEW j \in Join, ClientLeaves(j) PROVE EdgeSound'
  BY <1>6, ClientLeavesTypes, EdgeSoundKept DEF ClientLeaves, edgeVars, procVars
<1>7. ASSUME NEW o \in Owner, EdgeDrops(o) PROVE EdgeSound'
  <2>1. PICK next : Dropped(o, next)
    BY <1>7, EdgeDropsStep
  <2>2. MoveStep(WaitingAt(o), next) /\ route' \subseteq route
    BY <2>1 DEF Dropped
  <2>3. \A j \in WaitingAt(o) : req[j].st \in {"locating", "waiting"}
    BY DEF WaitingAt
  <2> QED BY <2>2, <2>3, MoveEdgeSound
<1>8. ASSUME NEW o \in Owner, OwnerDrops(o) PROVE EdgeSound'
  BY <1>0, <1>8, OwnerDropsEffect, EdgeSoundKept DEF OwnerDrops, edgeVars, clientVars
<1>9. ASSUME NEW o \in Owner, OwnerCrashes(o) PROVE EdgeSound'
  BY <1>0, <1>e, <1>9, OwnerCrashesEffect, EdgeSoundKept DEF OwnerCrashes, edgeVars, clientVars
<1>10. ASSUME NEW o \in Owner, OwnerReceives(o) PROVE EdgeSound'
  BY <1>0, <1>10, EdgeSoundKept DEF OwnerReceives, edgeVars, clientVars
<1>11. ASSUME NEW j \in Join, NEW o \in Owner,
              EdgeLeaves(j, o) \/ OwnerRefuses(j, o) \/ OwnerCreates(j, o)
              \/ OwnerSeats(j, o) \/ OwnerKicks(j, o)
       PROVE  EdgeSound'
  <2>1. UNCHANGED <<alive, open, owners, req, route, client>>
    BY <1>11 DEF EdgeLeaves, OwnerRefuses, OwnerCreates, OwnerSeats, OwnerKicks, procVars, edgeVars,
                 clientVars
  <2> QED BY <1>0, <2>1, EdgeSoundKept
<1>12. ASSUME NEW o \in Owner, EdgeReceives(o) PROVE EdgeSound'
  <2>1. PICK j \in Join, t \in EdgeKind :
          \/ Seated(j, o) \/ Ignored(j, o, t) \/ RelayedLeave(j, o) \/ RelayedSuccess(j, o)
          \/ \E next : Refused(j, o, t, next)
    BY <1>12, EdgeReceivesStep
  <2>2. CASE Seated(j, o)
    <3>1. /\ req[j].st = "waiting" /\ req[j].at = o
          /\ req'[j].st = "ok" /\ req'[j].at = o /\ req'[j].tried = req[j].tried
          /\ \A k \in Join \ {j} : req'[k] = req[k]
          /\ UNCHANGED <<alive, open, owners, client>>
          /\ route' = route \/ (ConnOf[j] \in open /\ route' = route \cup {<<j, o>>})
      BY <2>2 DEF Seated, clientVars
    <3>2. ASSUME NEW k \in Join PROVE RequestSound(k)'
      <4>1. CASE k = j
        BY <3>1, <4>1 DEF EdgeSound, RequestSound
      <4>2. CASE k # j
        BY <3>1, <4>2 DEF EdgeSound, RequestSound
      <4> QED BY <4>1, <4>2
    <3>3. ASSUME NEW k \in Join, NEW p \in Owner PROVE RouteSound(k, p)'
      <4>1. CASE k = j
        BY <3>1, <4>1 DEF EdgeSound, RouteSound
      <4>2. CASE k # j
        BY <3>1, <4>2 DEF EdgeSound, RouteSound
      <4> QED BY <4>1, <4>2
    <3> QED BY <3>1, <3>2, <3>3 DEF EdgeSound
  <2>3. CASE Ignored(j, o, t)
    BY <1>0, <2>3, EdgeSoundKept DEF Ignored, clientVars
  <2>4. CASE RelayedLeave(j, o)
    BY <2>4, EdgeSoundKept DEF RelayedLeave
  <2>5. CASE RelayedSuccess(j, o)
    <3>1. /\ UNCHANGED <<alive, open, owners, req, route>> /\ ConnOf[j] \in open
          /\ \A k \in Join : client'[k] \in {"asked", "joined"}
                                => client'[k] = client[k] \/ (k = j /\ client'[k] = "joined")
      BY <2>5 DEF RelayedSuccess, Types, ClientTypes
    <3>2. ASSUME NEW k \in Join PROVE RequestSound(k)'
      BY <3>1 DEF EdgeSound, RequestSound
    <3>3. ASSUME NEW k \in Join, NEW p \in Owner PROVE RouteSound(k, p)'
      BY <3>1 DEF EdgeSound, RouteSound
    <3> QED BY <3>1, <3>2, <3>3 DEF EdgeSound
  <2>6. ASSUME NEW next, Refused(j, o, t, next) PROVE EdgeSound'
    BY <2>6, MoveEdgeSound DEF Refused
  <2> QED BY <2>1, <2>2, <2>3, <2>4, <2>5, <2>6
<1>13. CASE UNCHANGED vars
  BY <1>0, <1>13, EdgeSoundKept DEF vars, procVars, edgeVars, clientVars
<1> QED BY <1>1, <1>2, <1>3, <1>4, <1>5, <1>6, <1>7, <1>8, <1>9, <1>10, <1>11, <1>12, <1>13 DEF Next

----------------------------------------------------------------------------
(* What a step does to one join at one owner. *)

\* For j, the queues q and r hold messages of the kinds of T alike, and r has no
\* more duplicates and no less order.
Alike(q, r, T, j) ==
    /\ \A t \in T : Sends(r, t, j) <=> Sends(q, t, j)
    /\ \A t \in T : Once(q, t, j) => Once(r, t, j)
    /\ \A t, u \in T : t # u /\ Before(q, t, j, u, j) => Before(r, t, j, u, j)

\* A queue is like itself.
LEMMA AlikeSame == ASSUME NEW q, NEW T, NEW j PROVE Alike(q, q, T, j)
  BY DEF Alike

\* A message for somebody else, or of another kind, was taken.
LEMMA AlikePopped ==
    ASSUME NEW q, NEW r, NEW u, NEW k, NEW T, NEW j, Popped(q, r, u, k), ~(u \in T /\ k = j)
    PROVE  Alike(q, r, T, j)
  BY DEF Alike, Popped

\* Messages for others, or of another kind, were sent.
LEMMA AlikeGrown ==
    ASSUME NEW q, NEW r, NEW u, NEW J, NEW T, NEW j, Grown(q, r, u, J), ~(u \in T /\ j \in J)
    PROVE  Alike(q, r, T, j)
  BY DEF Alike, Grown

\* Two such changes are one.
LEMMA AlikeTrans ==
    ASSUME NEW q, NEW r, NEW s, NEW T, NEW j, Alike(q, r, T, j), Alike(r, s, T, j)
    PROVE  Alike(q, s, T, j)
  BY DEF Alike

\* No message for j on its way to or from o moves.
EdgeAlike(j, o) == Alike(toEdge[o], toEdge'[o], EdgeKind, j)
OwnerAlike(j, o) == Alike(toOwner[o], toOwner'[o], {"join?"}, j)

\* The request of j, its seat at o, its route to o and its client stay.
SeatStays(j, o) == seat'[<<j, o>>] = seat[<<j, o>>]
RouteStays(j, o) == <<j, o>> \in route' <=> <<j, o>> \in route
ClientFades(j) ==
    /\ client'[j] = client[j] \/ client'[j] \notin {"none", "asked", "joined"}
    /\ using'[j] = using[j]
EdgeIdle(j, o) ==
    /\ req'[j] = req[j] /\ RouteStays(j, o) /\ client'[j] = client[j] /\ using'[j] = using[j]
    /\ UNCHANGED <<open, cut>>

\* The connection of j closes and the owners that were asked for it are told.
Closes(j, o) ==
    /\ ConnOf[j] \notin open'
    /\ o \in owners[ConnOf[j]] => Sends(toOwner'[o], "conn", ConnOf[j])

\* The step has nothing to do with j at o.
Still(j, o) ==
    /\ EdgeAlike(j, o) /\ OwnerAlike(j, o) /\ SeatStays(j, o) /\ req'[j] = req[j]
    /\ ClientFades(j) /\ (RouteStays(j, o) \/ Closes(j, o))

\* The client sends its JOIN.
Asks(j, o) ==
    /\ EdgeAlike(j, o) /\ OwnerAlike(j, o) /\ SeatStays(j, o) /\ RouteStays(j, o)
    /\ req[j].st = "none" /\ req'[j].st = "locating" /\ req'[j].tried = {}
    /\ req[j].tried = {} /\ client'[j] = "asked"

\* The edge forwards j to o.
Goes(j, o) ==
    /\ EdgeAlike(j, o) /\ SeatStays(j, o) /\ ClientFades(j)
    /\ o \notin req[j].tried /\ req[j].st \in {"locating", "waiting"}
    /\ req'[j].st = "waiting" /\ req'[j].at = o /\ req'[j].tried = req[j].tried \cup {o}
    /\ Sends(toOwner'[o], "join?", j)
    /\ ~Sends(toOwner[o], "join?", j) => Once(toOwner'[o], "join?", j)

\* The edge gives up waiting for o, or never did: o was too slow, or refused, or
\* is gone.
Misses(j, o) ==
    /\ OwnerAlike(j, o) /\ SeatStays(j, o) /\ ClientFades(j)
    /\ req[j].st \in {"locating", "waiting"} /\ req'[j].st \in {"waiting", "err"}
    /\ req'[j].at # o /\ (o \in req'[j].tried <=> o \in req[j].tried)
    /\ \/ EdgeAlike(j, o) /\ req[j].at # o
       \/ EdgeAlike(j, o) /\ j \in MayTimeOut /\ (client'[j] = "asked" => j \in Creates)
       \/ \E t \in {"refused", "failed"} : Popped(toEdge[o], toEdge'[o], t, j)
       \/ /\ EdgeAlike(j, o)
          /\ o \in alive => <<Edge, o>> \in cut'
          /\ o \notin alive => \A t \in EdgeKind : ~Sends(toEdge[o], t, j)

\* The edge drops o, which j does not wait for.
Lost(j, o) ==
    /\ EdgeAlike(j, o) /\ OwnerAlike(j, o) /\ SeatStays(j, o) /\ req'[j] = req[j] /\ ClientFades(j)
    /\ <<j, o>> \notin route'
    /\ client[j] = "joined" /\ using[j] = o /\ <<j, o>> \in route => client'[j] = "left"
    /\ o \in alive => <<Edge, o>> \in cut'
    /\ o \notin alive => \A t \in EdgeKind : ~Sends(toEdge[o], t, j)

\* The edge hears that j is seated.
Enters(j, o) ==
    /\ Popped(toEdge[o], toEdge'[o], "join!", j) /\ OwnerAlike(j, o) /\ SeatStays(j, o)
    /\ req[j].st = "waiting" /\ req[j].at = o
    /\ req'[j].st = "ok" /\ req'[j].at = o /\ req'[j].tried = req[j].tried
    /\ client'[j] = client[j] /\ using'[j] = using[j] /\ UNCHANGED <<open, cut>>
    /\ IF ConnOf[j] \in open THEN <<j, o>> \in route'
       ELSE Sends(toOwner'[o], "conn", ConnOf[j])

\* The edge hears that j is seated at another owner, or so does the client.
Away(j, o) ==
    /\ EdgeAlike(j, o) /\ OwnerAlike(j, o) /\ SeatStays(j, o) /\ RouteStays(j, o)
    /\ req[j].at # o /\ req'[j].st = "ok" /\ req'[j].at # o /\ req'[j].tried = req[j].tried
    /\ client'[j] = client[j] /\ using'[j] = using[j]
Elsewhere(j, o) ==
    /\ EdgeAlike(j, o) /\ OwnerAlike(j, o) /\ SeatStays(j, o) /\ RouteStays(j, o)
    /\ req'[j] = req[j] /\ client'[j] = "joined" /\ using'[j] # o

\* The edge takes a message for j that nobody waits for.
Skips(j, o, t) ==
    /\ Popped(toEdge[o], toEdge'[o], t, j) /\ OwnerAlike(j, o) /\ SeatStays(j, o)
    /\ EdgeIdle(j, o)
    /\ t = "join!" => ~(req[j].st = "waiting" /\ req[j].at = o)
    /\ t \in {"JOIN_SUCCESS", "LEAVE"} => ConnOf[j] \notin open

\* The client hears that its seat is gone, or that it has one.
HearsLeave(j, o) ==
    /\ Popped(toEdge[o], toEdge'[o], "LEAVE", j) /\ OwnerAlike(j, o) /\ SeatStays(j, o)
    /\ req'[j] = req[j] /\ ClientFades(j) /\ <<j, o>> \notin route'
    /\ client[j] = "joined" /\ using[j] = o => client'[j] = "left"
HearsSuccess(j, o) ==
    /\ Popped(toEdge[o], toEdge'[o], "JOIN_SUCCESS", j) /\ OwnerAlike(j, o) /\ SeatStays(j, o)
    /\ req'[j] = req[j] /\ RouteStays(j, o) /\ UNCHANGED <<open, cut>>
    /\ IF client[j] = "asked" THEN client'[j] = "joined" /\ using'[j] = o
       ELSE client'[j] = client[j] /\ using'[j] = using[j]

\* The owner takes the JOIN, or turns it down at once.
Takes(j, o) ==
    /\ EdgeAlike(j, o) /\ Popped(toOwner[o], toOwner'[o], "join?", j) /\ EdgeIdle(j, o)
    /\ seat'[<<j, o>>] \in {"auth", "joining"} /\ o \in alive
Declines(j, o) ==
    /\ Popped(toOwner[o], toOwner'[o], "join?", j) /\ SeatStays(j, o) /\ EdgeIdle(j, o)
    /\ \E t \in {"refused", "failed"} : Grown(toEdge[o], toEdge'[o], t, {j})

\* The join at the owner fails, goes on or succeeds.
Fails(j, o) ==
    /\ OwnerAlike(j, o) /\ EdgeIdle(j, o) /\ Grown(toEdge[o], toEdge'[o], "failed", {j})
    /\ seat[<<j, o>>] \in {"auth", "joining"} /\ seat'[<<j, o>>] = "none"
Opens(j, o) ==
    /\ EdgeAlike(j, o) /\ OwnerAlike(j, o) /\ EdgeIdle(j, o) /\ o \in alive
    /\ seat[<<j, o>>] = "auth" /\ seat'[<<j, o>>] = "joining"
Fills(j, o) ==
    /\ OwnerAlike(j, o) /\ EdgeIdle(j, o) /\ o \in alive
    /\ \E r : /\ Grown(toEdge[o], r, "join!", {j})
              /\ Grown(r, toEdge'[o], "JOIN_SUCCESS", Framed(j, o))
    /\ seat[<<j, o>>] = "joining"
    /\ seat'[<<j, o>>] = IF object[<<j, o>>] \in shut[o] THEN "gone" ELSE "joined"

\* The owner ends the seat, with a LEAVE or because its connection closed.
Ends(j, o) ==
    /\ OwnerAlike(j, o) /\ EdgeIdle(j, o) /\ Grown(toEdge[o], toEdge'[o], "LEAVE", Framed(j, o))
    /\ seat[<<j, o>>] = "joined" /\ seat'[<<j, o>>] = "gone"
Shuttered(j, o) ==
    /\ EdgeAlike(j, o) /\ OwnerAlike(j, o) /\ req'[j] = req[j] /\ RouteStays(j, o) /\ ClientFades(j)
    /\ seat[<<j, o>>] = "joined" /\ seat'[<<j, o>>] = "gone"
    /\ object'[<<j, o>>] = object[<<j, o>>] /\ object[<<j, o>>] \in shut'[o]

\* The owner or the edge dies.
OwnerDies(j, o) ==
    /\ EdgeAlike(j, o) /\ EdgeIdle(j, o) /\ seat'[<<j, o>>] = "none" /\ o \notin alive'
    /\ ~Sends(toOwner'[o], "join?", j) /\ Once(toOwner'[o], "join?", j)
EdgeDies(j, o) ==
    /\ OwnerAlike(j, o) /\ SeatStays(j, o) /\ req'[j] = req[j] /\ Edge \notin alive'
    /\ open' = {} /\ client'[j] = "left" /\ <<j, o>> \notin route'
    /\ \A t \in EdgeKind : ~Sends(toEdge'[o], t, j) /\ Once(toEdge'[o], t, j)
    /\ \A t, u \in EdgeKind : Before(toEdge'[o], t, j, u, j)

\* All a step can do to j at o.
EdgePart(j, o) ==
    \/ Asks(j, o) \/ Goes(j, o) \/ Misses(j, o) \/ Lost(j, o) \/ Enters(j, o)
    \/ Away(j, o) \/ Elsewhere(j, o)
    \/ \E t \in EdgeKind : Skips(j, o, t)
    \/ HearsLeave(j, o) \/ HearsSuccess(j, o) \/ EdgeDies(j, o)
OwnerPart(j, o) ==
    \/ Takes(j, o) \/ Declines(j, o) \/ Fails(j, o) \/ Opens(j, o) \/ Fills(j, o) \/ Ends(j, o)
    \/ Shuttered(j, o) \/ OwnerDies(j, o)
Part(j, o) == Still(j, o) \/ EdgePart(j, o) \/ OwnerPart(j, o)

\* Processes die, connections close and peers are taken for dead; never the reverse.
LEMMA Monotone ==
    ASSUME Types, [Next]_vars PROVE open' \subseteq open /\ alive' \subseteq alive /\ cut \subseteq cut'
<1> DEFINE P == open' \subseteq open /\ alive' \subseteq alive /\ cut \subseteq cut'
<1>1. UNCHANGED <<open, alive, cut>> => P
  OBVIOUS
<1>2. ASSUME EdgeCrashes PROVE P
  BY <1>2 DEF EdgeCrashes
<1>3. ASSUME NEW c \in Conn, ConnCloses(c) PROVE P
  BY <1>3 DEF ConnCloses, procVars
<1>4. ASSUME NEW o \in Owner, EdgeDrops(o) \/ OwnerDrops(o) PROVE P
  BY <1>4 DEF EdgeDrops, OwnerDrops, Drops, edgeVars
<1>5. ASSUME NEW o \in Owner, OwnerCrashes(o) PROVE P
  BY <1>5 DEF OwnerCrashes, edgeVars
<1>6. ASSUME NEW j \in Join, Ask(j) \/ Locate(j) \/ TimeOut(j) \/ ClientLeaves(j)
      PROVE  UNCHANGED <<open, alive, cut>>
  <2>1. CASE Ask(j)
    BY <2>1 DEF Ask, procVars
  <2>2. CASE Locate(j)
    BY <2>2 DEF Locate, procVars
  <2>3. CASE TimeOut(j)
    BY <2>3 DEF TimeOut, procVars
  <2>4. CASE ClientLeaves(j)
    BY <2>4 DEF ClientLeaves, procVars, edgeVars
  <2> QED BY <1>6, <2>1, <2>2, <2>3, <2>4
<1>7. ASSUME NEW o \in Owner, EdgeReceives(o) \/ OwnerReceives(o) PROVE UNCHANGED <<open, alive, cut>>
  BY <1>7 DEF EdgeReceives, OwnerReceives, edgeVars
<1>8. ASSUME NEW j \in Join, NEW o \in Owner,
             EdgeLeaves(j, o) \/ OwnerRefuses(j, o) \/ OwnerCreates(j, o)
             \/ OwnerSeats(j, o) \/ OwnerKicks(j, o)
      PROVE  UNCHANGED <<open, alive, cut>>
  BY <1>8 DEF EdgeLeaves, OwnerRefuses, OwnerCreates, OwnerSeats, OwnerKicks, procVars, edgeVars
<1>9. UNCHANGED vars => UNCHANGED <<open, alive, cut>>
  BY DEF vars, procVars, edgeVars
<1>10. P
  <2> HIDE DEF P
  <2> QED BY <1>1, <1>2, <1>3, <1>4, <1>5, <1>6, <1>7, <1>8, <1>9 DEF Next
<1> QED BY <1>10

\* What moving the joins of W on does to a join of W at o.
LEMMA MovedPart ==
    ASSUME Types, EdgeSound, NEW W, NEW next, MoveStep(W, next), NEW j \in W, NEW o \in Owner,
           req[j].st \in {"locating", "waiting"}
    PROVE  /\ j \in Join /\ SeatStays(j, o) /\ ClientFades(j)
           /\ client'[j] = "asked" => next[j] # None
           /\ next[j] = o => /\ o \notin req[j].tried /\ req'[j].st = "waiting" /\ req'[j].at = o
                             /\ req'[j].tried = req[j].tried \cup {o}
                             /\ Sends(toOwner'[o], "join?", j)
                             /\ ~Sends(toOwner[o], "join?", j) => Once(toOwner'[o], "join?", j)
           /\ next[j] # o => /\ OwnerAlike(j, o) /\ req'[j].st \in {"waiting", "err"}
                             /\ req'[j].at # o /\ (o \in req'[j].tried <=> o \in req[j].tried)
<1>0. j \in Join /\ o # None /\ ConnOf[j] \in Conn /\ next \in [W -> Owner \cup {None}]
  BY ClusterJoinAssumption DEF MoveStep, Moves
<1>1. SeatStays(j, o) /\ ClientFades(j)
  BY <1>0 DEF MoveStep, ownerVars, SeatStays, ClientFades, ClientsEnd
<1>2. client'[j] = "asked" => next[j] # None
  <2> SUFFICES ASSUME client'[j] = "asked", next[j] = None PROVE FALSE
    OBVIOUS
  <2>1. client[j] = "asked"
    BY <1>0 DEF MoveStep, ClientsEnd
  <2>2. ConnOf[j] \in open
    BY <1>0, <2>1 DEF EdgeSound, RequestSound
  <2> QED BY <2>2 DEF MoveStep, Moves
<1>3. Grown(toOwner[o], toOwner'[o], "join?", {k \in W : next[k] = o})
  BY DEF MoveStep, Moves
<1>4. ASSUME next[j] = o
      PROVE  /\ o \notin req[j].tried /\ req'[j].st = "waiting" /\ req'[j].at = o
             /\ req'[j].tried = req[j].tried \cup {o}
             /\ Sends(toOwner'[o], "join?", j)
             /\ ~Sends(toOwner[o], "join?", j) => Once(toOwner'[o], "join?", j)
  <2>1. /\ o \notin req[j].tried /\ req'[j].st = "waiting" /\ req'[j].at = o
        /\ req'[j].tried = req[j].tried \cup {o}
    BY <1>0, <1>4 DEF MoveStep, Moves
  <2>2. Sends(toOwner'[o], "join?", j)
    BY <1>3, <1>4 DEF Grown
  <2>3. ASSUME ~Sends(toOwner[o], "join?", j) PROVE Once(toOwner'[o], "join?", j)
    <3>1. Once(toOwner[o], "join?", j)
      BY <2>3 DEF Once, Sends
    <3> QED BY <1>3, <2>3, <3>1 DEF Grown
  <2> QED BY <2>1, <2>2, <2>3
<1>5. ASSUME next[j] # o
      PROVE  /\ OwnerAlike(j, o) /\ req'[j].st \in {"waiting", "err"}
             /\ req'[j].at # o /\ (o \in req'[j].tried <=> o \in req[j].tried)
  <2>1. j \notin {k \in W : next[k] = o}
    BY <1>5
  <2>2. OwnerAlike(j, o)
    BY <1>3, <2>1, AlikeGrown DEF OwnerAlike
  <2>3. CASE next[j] = None
    <3>1. req'[j].st = "err" /\ req'[j].at = None /\ req'[j].tried = req[j].tried
      BY <1>0, <2>3 DEF MoveStep, Moves
    <3> QED BY <1>0, <2>2, <3>1
  <2>4. CASE next[j] # None
    <3>1. req'[j].st = "waiting" /\ req'[j].at = next[j] /\ req'[j].tried = req[j].tried \cup {next[j]}
      BY <1>0, <2>4 DEF MoveStep, Moves
    <3> QED BY <1>0, <1>5, <2>2, <3>1
  <2> QED BY <2>3, <2>4
<1> QED BY <1>0, <1>1, <1>2, <1>4, <1>5

\* The other joins stay where they are.
LEMMA UnmovedPart ==
    ASSUME NEW W, NEW next, MoveStep(W, next), NEW j \in Join \ W, NEW o \in Owner
    PROVE  OwnerAlike(j, o) /\ SeatStays(j, o) /\ req'[j] = req[j] /\ ClientFades(j)
<1>1. Grown(toOwner[o], toOwner'[o], "join?", {k \in W : next[k] = o})
  BY DEF MoveStep, Moves
<1>2. OwnerAlike(j, o)
  BY <1>1, AlikeGrown DEF OwnerAlike
<1>3. SeatStays(j, o) /\ ClientFades(j)
  BY DEF MoveStep, ownerVars, SeatStays, ClientFades, ClientsEnd
<1>4. req'[j] = req[j]
  BY DEF MoveStep, Moves
<1> QED BY <1>2, <1>3, <1>4

\* Locate and TimeOut.
LEMMA EdgeAsksPart ==
    ASSUME Types, EdgeSound, NEW i \in Join, Locate(i) \/ TimeOut(i),
           NEW j \in Join, NEW o \in Owner
    PROVE  Part(j, o)
<1>1. PICK next : Located(i, next) \/ TimedOut(i, next)
  BY LocateStep, TimeOutStep
<1>2. /\ MoveStep({i}, next) /\ UNCHANGED <<cut, route, toEdge>>
      /\ req[i].st \in {"locating", "waiting"}
      /\ \/ req[i].st = "locating"
         \/ i \in MayTimeOut /\ (next[i] # None => i \in Creates)
  BY <1>1 DEF Located, TimedOut
<1>3. EdgeAlike(j, o) /\ RouteStays(j, o)
  BY <1>2, AlikeSame DEF EdgeAlike, RouteStays
<1>4. CASE j # i
  <2>1. OwnerAlike(j, o) /\ SeatStays(j, o) /\ req'[j] = req[j] /\ ClientFades(j)
    BY <1>2, <1>4, UnmovedPart
  <2> QED BY <1>3, <2>1 DEF Part, Still
<1>5. CASE j = i
  <2>1. /\ SeatStays(j, o) /\ ClientFades(j)
        /\ client'[j] = "asked" => next[j] # None
        /\ next[j] = o => /\ o \notin req[j].tried /\ req'[j].st = "waiting" /\ req'[j].at = o
                          /\ req'[j].tried = req[j].tried \cup {o}
                          /\ Sends(toOwner'[o], "join?", j)
                          /\ ~Sends(toOwner[o], "join?", j) => Once(toOwner'[o], "join?", j)
        /\ next[j] # o => /\ OwnerAlike(j, o) /\ req'[j].st \in {"waiting", "err"}
                          /\ req'[j].at # o /\ (o \in req'[j].tried <=> o \in req[j].tried)
    <3> j \in {i}
      BY <1>5
    <3> QED BY <1>2, <1>5, MovedPart
  <2>2. CASE next[j] = o
    <3>1. Goes(j, o)
      BY <1>2, <1>3, <1>5, <2>1, <2>2 DEF Goes
    <3> QED BY <3>1 DEF Part, EdgePart
  <2>3. CASE next[j] # o
    <3>1. req[j].at # o \/ (j \in MayTimeOut /\ (client'[j] = "asked" => j \in Creates))
      <4>1. CASE req[j].st = "locating"
        <5>1. req[j].at = None
          BY <4>1 DEF EdgeSound, RequestSound
        <5> QED BY <5>1, ClusterJoinAssumption
      <4>2. CASE req[j].st # "locating"
        BY <1>2, <1>5, <2>1, <4>2
      <4> QED BY <4>1, <4>2
    <3>2. Misses(j, o)
      BY <1>2, <1>3, <1>5, <2>1, <2>3, <3>1 DEF Misses
    <3> QED BY <3>2 DEF Part, EdgePart
  <2> QED BY <2>2, <2>3
<1> QED BY <1>4, <1>5

\* EdgeDrops.
LEMMA EdgeDropsPart ==
    ASSUME Types, EdgeSound, NEW p \in Owner, EdgeDrops(p), NEW j \in Join, NEW o \in Owner
    PROVE  Part(j, o)
<1>1. PICK next : Dropped(p, next)
  BY EdgeDropsStep
<1> DEFINE W == WaitingAt(p)
<1>2. /\ MoveStep(W, next) /\ route' = {x \in route : x[2] # p} /\ UNCHANGED toEdge
      /\ p \in alive => cut' = cut \cup {<<Edge, p>>}
      /\ p \notin alive => cut' = cut /\ \A t, k : ~Sends(toEdge[p], t, k)
      /\ \A k \in Join : client[k] = "joined" /\ using[k] = p /\ <<k, p>> \in route
                            => client'[k] = "left"
  BY <1>1 DEF Dropped
<1>3. EdgeAlike(j, o) /\ (o # p => RouteStays(j, o)) /\ <<j, p>> \notin route'
  BY <1>2, AlikeSame DEF EdgeAlike, RouteStays
<1>4. ASSUME j \notin W PROVE Part(j, o)
  <2>1. OwnerAlike(j, o) /\ SeatStays(j, o) /\ req'[j] = req[j] /\ ClientFades(j)
    <3> HIDE DEF W
    <3> QED BY <1>2, <1>4, UnmovedPart
  <2>2. CASE o # p
    BY <1>3, <2>1, <2>2 DEF Part, Still
  <2>3. CASE o = p
    <3>1. Lost(j, o)
      BY <1>2, <1>3, <2>1, <2>3 DEF Lost
    <3> QED BY <3>1 DEF Part, EdgePart
  <2> QED BY <2>2, <2>3
<1>5. ASSUME j \in W PROVE Part(j, o)
  <2>0. req[j].st = "waiting" /\ req[j].at = p /\ p \in req[j].tried
    BY <1>5 DEF WaitingAt, EdgeSound, RequestSound
  <2>1. /\ SeatStays(j, o) /\ ClientFades(j)
        /\ client'[j] = "asked" => next[j] # None
        /\ next[j] = o => /\ o \notin req[j].tried /\ req'[j].st = "waiting" /\ req'[j].at = o
                          /\ req'[j].tried = req[j].tried \cup {o}
                          /\ Sends(toOwner'[o], "join?", j)
                          /\ ~Sends(toOwner[o], "join?", j) => Once(toOwner'[o], "join?", j)
        /\ next[j] # o => /\ OwnerAlike(j, o) /\ req'[j].st \in {"waiting", "err"}
                          /\ req'[j].at # o /\ (o \in req'[j].tried <=> o \in req[j].tried)
    <3> HIDE DEF W
    <3> QED BY <1>2, <1>5, <2>0, MovedPart
  <2>2. CASE next[j] = o
    <3>1. Goes(j, o)
      BY <1>2, <1>3, <2>0, <2>1, <2>2 DEF Goes
    <3> QED BY <3>1 DEF Part, EdgePart
  <2>3. CASE next[j] # o
    <3>1. \/ req[j].at # o
          \/ (o \in alive => <<Edge, o>> \in cut')
             /\ (o \notin alive => \A t \in EdgeKind : ~Sends(toEdge[o], t, j))
      BY <1>2, <2>0
    <3>2. Misses(j, o)
      BY <1>3, <2>0, <2>1, <2>3, <3>1 DEF Misses
    <3> QED BY <3>2 DEF Part, EdgePart
  <2> QED BY <2>2, <2>3
<1> QED BY <1>4, <1>5

\* EdgeReceives.
LEMMA EdgeReceivesPart ==
    ASSUME Types, EdgeSound, NEW p \in Owner, EdgeReceives(p), NEW j \in Join, NEW o \in Owner
    PROVE  Part(j, o)
<1>1. PICK i \in Join, t \in EdgeKind :
        \/ Seated(i, p) \/ Ignored(i, p, t) \/ RelayedLeave(i, p) \/ RelayedSuccess(i, p)
        \/ \E next : Refused(i, p, t, next)
  BY EdgeReceivesStep
<1>a. ASSUME NEW u \in EdgeKind, EdgeGets(p, u, i), j # i \/ o # p PROVE EdgeAlike(j, o)
  <2>1. CASE o = p
    <3>1. Popped(toEdge[o], toEdge'[o], u, i) /\ j # i
      BY <1>a, <2>1 DEF EdgeGets
    <3> QED BY <3>1, AlikePopped DEF EdgeAlike
  <2>2. CASE o # p
    BY <1>a, <2>2, AlikeSame DEF EdgeGets, EdgeAlike
  <2> QED BY <2>1, <2>2
<1>2. CASE Seated(i, p)
  <2>1. /\ EdgeGets(p, "join!", i) /\ req[i].st = "waiting" /\ req[i].at = p
        /\ req'[i].st = "ok" /\ req'[i].at = p /\ req'[i].tried = req[i].tried
        /\ \A k \in Join \ {i} : req'[k] = req[k]
        /\ IF ConnOf[i] \in open
           THEN route' = route \cup {<<i, p>>} /\ UNCHANGED toOwner
           ELSE UNCHANGED route /\ EdgePuts(p, "conn", {ConnOf[i]})
        /\ UNCHANGED <<cut, open, seat, client, using>>
    BY <1>2 DEF Seated, ownerVars, clientVars
  <2>2. OwnerAlike(j, o)
    <3>1. CASE UNCHANGED toOwner
      BY <3>1, AlikeSame DEF OwnerAlike
    <3>2. CASE EdgePuts(p, "conn", {ConnOf[i]})
      <4>1. CASE o = p
        <5>1. Grown(toOwner[o], toOwner'[o], "conn", {ConnOf[i]})
          BY <3>2, <4>1 DEF EdgePuts
        <5> QED BY <5>1, AlikeGrown DEF OwnerAlike
      <4>2. CASE o # p
        BY <3>2, <4>2, AlikeSame DEF EdgePuts, OwnerAlike
      <4> QED BY <4>1, <4>2
    <3> QED BY <2>1, <3>1, <3>2
  <2>3. CASE j = i /\ o = p
    <3>1. Popped(toEdge[o], toEdge'[o], "join!", j)
      BY <2>1, <2>3 DEF EdgeGets
    <3>2. IF ConnOf[j] \in open THEN <<j, o>> \in route' ELSE Sends(toOwner'[o], "conn", ConnOf[j])
      BY <2>1, <2>3 DEF EdgePuts, Grown
    <3>3. Enters(j, o)
      BY <2>1, <2>2, <2>3, <3>1, <3>2 DEF Enters, SeatStays
    <3> QED BY <3>3 DEF Part, EdgePart
  <2>4. CASE j # i
    <3>1. EdgeAlike(j, o)
      BY <1>a, <2>1, <2>4 DEF EdgeKind
    <3>2. RouteStays(j, o) /\ req'[j] = req[j]
      BY <2>1, <2>4 DEF RouteStays
    <3> QED BY <2>1, <2>2, <3>1, <3>2 DEF Part, Still, SeatStays, ClientFades
  <2>5. CASE j = i /\ o # p
    <3>1. EdgeAlike(j, o)
      BY <1>a, <2>1, <2>5 DEF EdgeKind
    <3>2. RouteStays(j, o)
      BY <2>1, <2>5 DEF RouteStays
    <3>3. Away(j, o)
      BY <2>1, <2>2, <2>5, <3>1, <3>2 DEF Away, SeatStays
    <3> QED BY <3>3 DEF Part, EdgePart
  <2> QED BY <2>3, <2>4, <2>5
<1>3. CASE Ignored(i, p, t)
  <2>1. /\ EdgeGets(p, t, i)
        /\ t = "join!" => ~(req[i].st = "waiting" /\ req[i].at = p)
        /\ t \in {"JOIN_SUCCESS", "LEAVE"} => ConnOf[i] \notin open
        /\ UNCHANGED <<cut, open, route, req, seat, toOwner, client, using>>
    BY <1>3 DEF Ignored, ownerVars, clientVars
  <2>2. OwnerAlike(j, o) /\ SeatStays(j, o) /\ EdgeIdle(j, o)
    BY <2>1, AlikeSame DEF OwnerAlike, SeatStays, EdgeIdle, RouteStays
  <2>3. CASE j = i /\ o = p
    <3>1. Skips(j, o, t)
      BY <2>1, <2>2, <2>3 DEF Skips, EdgeGets
    <3> QED BY <3>1 DEF Part, EdgePart
  <2>4. CASE j # i \/ o # p
    <3>1. EdgeAlike(j, o)
      BY <1>a, <2>1, <2>4
    <3> QED BY <2>2, <3>1 DEF Part, Still, EdgeIdle, ClientFades
  <2> QED BY <2>3, <2>4
<1>4. CASE RelayedLeave(i, p)
  <2>1. /\ EdgeGets(p, "LEAVE", i) /\ ConnOf[i] \in open
        /\ route' = route \ {<<i, p>>} /\ ClientsEnd
        /\ client[i] = "joined" /\ using[i] = p => client'[i] = "left"
        /\ UNCHANGED <<cut, open, req, seat, toOwner, using>>
    BY <1>4 DEF RelayedLeave, ownerVars
  <2>2. OwnerAlike(j, o) /\ SeatStays(j, o) /\ ClientFades(j) /\ req'[j] = req[j]
    BY <2>1, AlikeSame DEF OwnerAlike, SeatStays, ClientFades, ClientsEnd
  <2>3. CASE j = i /\ o = p
    <3>1. HearsLeave(j, o)
      BY <2>1, <2>2, <2>3 DEF HearsLeave, EdgeGets
    <3> QED BY <3>1 DEF Part, EdgePart
  <2>4. CASE j # i \/ o # p
    <3>1. EdgeAlike(j, o)
      BY <1>a, <2>1, <2>4 DEF EdgeKind
    <3>2. RouteStays(j, o)
      BY <2>1, <2>4 DEF RouteStays
    <3> QED BY <2>2, <3>1, <3>2 DEF Part, Still
  <2> QED BY <2>3, <2>4
<1>5. CASE RelayedSuccess(i, p)
  <2>1. /\ EdgeGets(p, "JOIN_SUCCESS", i)
        /\ IF client[i] = "asked"
           THEN client' = [client EXCEPT ![i] = "joined"] /\ using' = [using EXCEPT ![i] = p]
           ELSE UNCHANGED <<client, using>>
        /\ UNCHANGED <<cut, open, route, req, seat, toOwner>>
    BY <1>5 DEF RelayedSuccess, ownerVars
  <2>2. OwnerAlike(j, o) /\ SeatStays(j, o) /\ RouteStays(j, o) /\ req'[j] = req[j]
    BY <2>1, AlikeSame DEF OwnerAlike, SeatStays, RouteStays
  <2>3. /\ client \in [Join -> {"none", "asked", "joined", "failed", "left"}]
        /\ using \in [Join -> Owner \cup {None}]
    BY DEF Types, ClientTypes
  <2>4. CASE j = i /\ o = p
    <3>1. HearsSuccess(j, o)
      BY <2>1, <2>2, <2>3, <2>4 DEF HearsSuccess, EdgeGets
    <3> QED BY <3>1 DEF Part, EdgePart
  <2>5. CASE j # i
    <3>1. EdgeAlike(j, o)
      BY <1>a, <2>1, <2>5 DEF EdgeKind
    <3>2. ClientFades(j)
      BY <2>1, <2>3, <2>5 DEF ClientFades
    <3> QED BY <2>2, <3>1, <3>2 DEF Part, Still
  <2>6. CASE j = i /\ o # p
    <3>1. EdgeAlike(j, o)
      BY <1>a, <2>1, <2>6 DEF EdgeKind
    <3>2. \/ client[j] = "asked" /\ client'[j] = "joined" /\ using'[j] # o
          \/ client'[j] = client[j] /\ using'[j] = using[j]
      BY <2>1, <2>3, <2>6
    <3>3. CASE client'[j] = client[j] /\ using'[j] = using[j]
      BY <2>2, <3>1, <3>3 DEF Part, Still, ClientFades
    <3>4. CASE client[j] = "asked" /\ client'[j] = "joined" /\ using'[j] # o
      <4>1. Elsewhere(j, o)
        BY <2>2, <3>1, <3>4 DEF Elsewhere
      <4> QED BY <4>1 DEF Part, EdgePart
    <3> QED BY <3>2, <3>3, <3>4
  <2> QED BY <2>4, <2>5, <2>6
<1>6. ASSUME NEW next, Refused(i, p, t, next) PROVE Part(j, o)
  <2>1. /\ MoveStep({i}, next) /\ req[i].st = "waiting" /\ req[i].at = p
        /\ t \in {"refused", "failed"} /\ EdgeGets(p, t, i) /\ UNCHANGED <<cut, route>>
        /\ p \in req[i].tried
    BY <1>6 DEF Refused, EdgeSound, RequestSound
  <2>2. RouteStays(j, o)
    BY <2>1 DEF RouteStays
  <2>3. CASE j # i
    <3>1. OwnerAlike(j, o) /\ SeatStays(j, o) /\ req'[j] = req[j] /\ ClientFades(j)
      BY <2>1, <2>3, UnmovedPart
    <3>2. EdgeAlike(j, o)
      BY <1>a, <2>1, <2>3
    <3> QED BY <2>2, <3>1, <3>2 DEF Part, Still
  <2>4. CASE j = i
    <3>1. /\ SeatStays(j, o) /\ ClientFades(j)
          /\ next[j] = o => /\ o \notin req[j].tried /\ req'[j].st = "waiting" /\ req'[j].at = o
                            /\ req'[j].tried = req[j].tried \cup {o}
                            /\ Sends(toOwner'[o], "join?", j)
                            /\ ~Sends(toOwner[o], "join?", j) => Once(toOwner'[o], "join?", j)
          /\ next[j] # o => /\ OwnerAlike(j, o) /\ req'[j].st \in {"waiting", "err"}
                            /\ req'[j].at # o /\ (o \in req'[j].tried <=> o \in req[j].tried)
      <4> j \in {i}
        BY <2>4
      <4> QED BY <2>1, <2>4, MovedPart
    <3>2. o # p => EdgeAlike(j, o)
      BY <1>a, <2>1
    <3>3. CASE next[j] = o
      <4>1. Goes(j, o)
        BY <2>1, <2>4, <3>1, <3>2, <3>3 DEF Goes
      <4> QED BY <4>1 DEF Part, EdgePart
    <3>4. CASE next[j] # o
      <4>1. \/ EdgeAlike(j, o) /\ req[j].at # o
            \/ \E u \in {"refused", "failed"} : Popped(toEdge[o], toEdge'[o], u, j)
        BY <2>1, <2>4, <3>2 DEF EdgeGets
      <4>2. Misses(j, o)
        BY <2>1, <2>4, <3>1, <3>4, <4>1 DEF Misses
      <4> QED BY <4>2 DEF Part, EdgePart
    <3> QED BY <3>3, <3>4
  <2> QED BY <2>3, <2>4
<1> QED BY <1>1, <1>2, <1>3, <1>4, <1>5, <1>6

\* A step that leaves the queues, the seat, the request, the route and the client
\* alone has nothing to do with j.
LEMMA StillWhen ==
    ASSUME NEW j \in Join, NEW o \in Owner, toEdge'[o] = toEdge[o] \/ EdgeAlike(j, o),
           toOwner'[o] = toOwner[o] \/ OwnerAlike(j, o), SeatStays(j, o), req'[j] = req[j], ClientFades(j),
           RouteStays(j, o) \/ Closes(j, o)
    PROVE  Part(j, o)
<1>1. EdgeAlike(j, o) /\ OwnerAlike(j, o)
  BY AlikeSame DEF EdgeAlike, OwnerAlike
<1> QED BY <1>1 DEF Part, Still

\* What Shuts does to one seat.
LEMMA ShutsPart ==
    ASSUME NEW p \in Owner, NEW C, Shuts(p, C), NEW j \in Join, NEW o \in Owner,
           toEdge'[o] = toEdge[o], OwnerAlike(j, o), req'[j] = req[j], ClientFades(j), RouteStays(j, o)
    PROVE  Part(j, o)
<1>1. seat'[<<j, o>>] = IF o = p /\ object[<<j, o>>] \in Listed(p, C) /\ seat[<<j, o>>] = "joined"
                        THEN "gone" ELSE seat[<<j, o>>]
  BY DEF Shuts
<1>2. CASE o = p /\ object[<<j, o>>] \in Listed(p, C) /\ seat[<<j, o>>] = "joined"
  <2>1. object'[<<j, o>>] = object[<<j, o>>] /\ object[<<j, o>>] \in shut'[o]
    BY <1>2 DEF Shuts
  <2>2. EdgeAlike(j, o)
    BY AlikeSame DEF EdgeAlike
  <2>3. Shuttered(j, o)
    BY <1>1, <1>2, <2>1, <2>2 DEF Shuttered
  <2> QED BY <2>3 DEF Part, OwnerPart
<1>3. CASE ~(o = p /\ object[<<j, o>>] \in Listed(p, C) /\ seat[<<j, o>>] = "joined")
  BY <1>1, <1>3, StillWhen DEF SeatStays
<1> QED BY <1>2, <1>3

\* The steps of the clients and of the connections.
LEMMA ClientsPart ==
    ASSUME Types, NEW j \in Join, NEW o \in Owner,
           \/ EdgeCrashes
           \/ \E c \in Conn : ConnCloses(c)
           \/ \E i \in Join : Ask(i) \/ ClientLeaves(i)
           \/ \E i \in Join, p \in Owner : EdgeLeaves(i, p)
    PROVE  Part(j, o)
<1>1. CASE EdgeCrashes
  <2>1. /\ open' = {} /\ route' = {} /\ client'[j] = "left" /\ alive' = alive \ {Edge}
        /\ \A t \in EdgeKind : ~Sends(toEdge'[o], t, j) /\ Once(toEdge'[o], t, j)
        /\ \A t, u \in EdgeKind : Before(toEdge'[o], t, j, u, j)
    BY <1>1, EdgeCrashesEffect
  <2>2. UNCHANGED <<req, seat, toOwner>>
    BY <1>1 DEF EdgeCrashes, ownerVars
  <2>3. OwnerAlike(j, o)
    BY <2>2, AlikeSame DEF OwnerAlike
  <2>4. EdgeDies(j, o)
    BY <2>1, <2>2, <2>3 DEF EdgeDies, SeatStays
  <2> QED BY <2>4 DEF Part, EdgePart
<1>2. ASSUME NEW c \in Conn, ConnCloses(c) PROVE Part(j, o)
  <2>1. /\ open' = open \ {c} /\ route' = {x \in route : ConnOf[x[1]] # c}
        /\ UNCHANGED <<req, seat, toEdge, using>>
        /\ client' = [k \in Join |-> IF ConnOf[k] \in {c} THEN "left" ELSE client[k]]
    BY <1>2 DEF ConnCloses, ClientsGone, ownerVars
  <2>2. Grown(toOwner[o], toOwner'[o], "conn", IF o \in owners[c] THEN {c} ELSE {})
    BY <1>2, ConnClosesTypes
  <2>3. OwnerAlike(j, o)
    BY <2>2, AlikeGrown DEF OwnerAlike
  <2>4. SeatStays(j, o) /\ ClientFades(j)
    BY <2>1 DEF SeatStays, ClientFades
  <2>5. RouteStays(j, o) \/ Closes(j, o)
    <3>1. CASE ConnOf[j] = c
      BY <2>1, <2>2, <3>1 DEF Closes, Grown
    <3>2. CASE ConnOf[j] # c
      BY <2>1, <3>2 DEF RouteStays
    <3> QED BY <3>1, <3>2
  <2> QED BY <2>1, <2>3, <2>4, <2>5, StillWhen
<1>3. ASSUME NEW i \in Join, Ask(i) PROVE Part(j, o)
  <2>1. /\ req'[i].st = "locating" /\ req'[i].tried = req[i].tried
        /\ client'[i] = "asked" /\ req[i].st = "none"
        /\ \A k \in Join \ {i} : req'[k] = req[k] /\ client'[k] = client[k]
        /\ UNCHANGED <<route, seat, toOwner, toEdge, using>>
    BY <1>3, AskTypes DEF Ask, ownerVars
  <2>2. SeatStays(j, o) /\ RouteStays(j, o)
    BY <2>1 DEF SeatStays, RouteStays
  <2>3. CASE j # i
    BY <2>1, <2>2, <2>3, StillWhen DEF ClientFades
  <2>4. CASE j = i
    <3>1. EdgeAlike(j, o) /\ OwnerAlike(j, o)
      BY <2>1, AlikeSame DEF EdgeAlike, OwnerAlike
    <3>2. req[j].tried = {}
      BY <2>1, <2>4 DEF Types, FreshRequests
    <3>3. Asks(j, o)
      BY <2>1, <2>2, <2>4, <3>1, <3>2 DEF Asks
    <3> QED BY <3>3 DEF Part, EdgePart
  <2> QED BY <2>3, <2>4
<1>4. ASSUME NEW i \in Join, ClientLeaves(i) PROVE Part(j, o)
  <2>1. UNCHANGED <<req, route, seat, toOwner, toEdge, using>> /\ ClientsEnd
    BY <1>4, ClientLeavesTypes DEF ClientLeaves, ownerVars, edgeVars
  <2> QED BY <2>1, StillWhen DEF ClientFades, ClientsEnd, SeatStays, RouteStays
<1>5. ASSUME NEW i \in Join, NEW p \in Owner, EdgeLeaves(i, p) PROVE Part(j, o)
  <2>1. UNCHANGED <<req, route, seat, toEdge, client, using>>
    BY <1>5 DEF EdgeLeaves, ownerVars, edgeVars
  <2>2. PICK J : EdgePuts(p, "leave", J)
    BY <1>5, EdgeLeavesTypes
  <2>3. toOwner'[o] = toOwner[o] \/ OwnerAlike(j, o)
    <3>1. CASE o = p
      <4>1. Grown(toOwner[o], toOwner'[o], "leave", J)
        BY <2>2, <3>1 DEF EdgePuts
      <4> QED BY <4>1, AlikeGrown DEF OwnerAlike
    <3>2. CASE o # p
      BY <2>2, <3>2 DEF EdgePuts
    <3> QED BY <3>1, <3>2
  <2> QED BY <2>1, <2>3, StillWhen DEF ClientFades, SeatStays, RouteStays
<1> QED BY <1>1, <1>2, <1>3, <1>4, <1>5

\* The owner's queue loses a message.
LEMMA OwnerGetsAlike ==
    ASSUME NEW p, NEW t, NEW i, OwnerGets(p, t, i), NEW j, NEW o \in Owner,
           t # "join?" \/ i # j \/ o # p
    PROVE  OwnerAlike(j, o)
<1>1. CASE o = p
  <2>1. Popped(toOwner[o], toOwner'[o], t, i) /\ (t # "join?" \/ i # j)
    BY <1>1 DEF OwnerGets
  <2> QED BY <2>1, AlikePopped DEF OwnerAlike
<1>2. CASE o # p
  BY <1>2, AlikeSame DEF OwnerGets, OwnerAlike
<1> QED BY <1>1, <1>2

\* The owner sends messages that are not for j.
LEMMA OwnerPutsAlike ==
    ASSUME NEW p, NEW t, NEW J, OwnerPuts(p, t, J), NEW j, NEW o \in Owner, j \notin J \/ o # p
    PROVE  EdgeAlike(j, o)
<1>1. CASE o = p
  <2>1. Grown(toEdge[o], toEdge'[o], t, J) /\ j \notin J
    BY <1>1 DEF OwnerPuts
  <2> QED BY <2>1, AlikeGrown DEF EdgeAlike
<1>2. CASE o # p
  BY <1>2, AlikeSame DEF OwnerPuts, EdgeAlike
<1> QED BY <1>1, <1>2

\* OwnerReceives.
LEMMA OwnerReceivesPart ==
    ASSUME Types, NEW p \in Owner, OwnerReceives(p), NEW j \in Join, NEW o \in Owner
    PROVE  Part(j, o)
<1>1. \/ \E i \in Join : \/ Took(i, p) \/ Freed(i, p)
                         \/ \E t \in EdgeKind : TurnedDown(i, p, t)
      \/ \E c \in Conn : Heard(p, c)
  BY OwnerReceivesStep
<1>2. EdgeIdle(j, o) /\ ClientFades(j) /\ RouteStays(j, o) /\ req'[j] = req[j]
  BY DEF OwnerReceives, edgeVars, clientVars, EdgeIdle, RouteStays, ClientFades
<1>3. ASSUME NEW i \in Join, Took(i, p) PROVE Part(j, o)
  <2>1. /\ OwnerGets(p, "join?", i) /\ p \in alive /\ UNCHANGED toEdge
        /\ Becomes(i, p, IF i \in Creates THEN "auth" ELSE "joining")
    BY <1>3 DEF Took
  <2>2. CASE j = i /\ o = p
    <3>1. Popped(toOwner[o], toOwner'[o], "join?", j) /\ seat'[<<j, o>>] \in {"auth", "joining"}
      BY <2>1, <2>2 DEF OwnerGets, Becomes
    <3>2. EdgeAlike(j, o)
      BY <2>1, AlikeSame DEF EdgeAlike
    <3>3. Takes(j, o)
      BY <1>2, <2>1, <2>2, <3>1, <3>2 DEF Takes
    <3> QED BY <3>3 DEF Part, OwnerPart
  <2>3. CASE j # i \/ o # p
    <3>1. OwnerAlike(j, o)
      BY <2>1, <2>3, OwnerGetsAlike
    <3>2. SeatStays(j, o)
      BY <2>1, <2>3 DEF Becomes, SeatStays
    <3> QED BY <1>2, <2>1, <3>1, <3>2, StillWhen
  <2> QED BY <2>2, <2>3
<1>4. ASSUME NEW i \in Join, NEW t \in EdgeKind, TurnedDown(i, p, t) PROVE Part(j, o)
  <2>1. /\ OwnerGets(p, "join?", i) /\ t \in {"refused", "failed"} /\ OwnerPuts(p, t, {i})
        /\ UNCHANGED seat
    BY <1>4 DEF TurnedDown
  <2>2. CASE j = i /\ o = p
    <3>1. /\ Popped(toOwner[o], toOwner'[o], "join?", j) /\ SeatStays(j, o)
          /\ Grown(toEdge[o], toEdge'[o], t, {j})
      BY <2>1, <2>2 DEF OwnerGets, OwnerPuts, SeatStays
    <3>2. Declines(j, o)
      BY <1>2, <2>1, <3>1 DEF Declines
    <3> QED BY <3>2 DEF Part, OwnerPart
  <2>3. CASE j # i \/ o # p
    <3>1. OwnerAlike(j, o)
      BY <2>1, <2>3, OwnerGetsAlike
    <3>2. EdgeAlike(j, o)
      BY <2>1, <2>3, OwnerPutsAlike
    <3> QED BY <1>2, <2>1, <3>1, <3>2, StillWhen DEF SeatStays
  <2> QED BY <2>2, <2>3
<1>5. ASSUME NEW i \in Join, Freed(i, p) PROVE Part(j, o)
  <2>1. /\ OwnerGets(p, "leave", i)
        /\ IF seat[<<i, p>>] = "joined"
           THEN Becomes(i, p, "gone") /\ OwnerPuts(p, "LEAVE", Framed(i, p))
           ELSE UNCHANGED <<seat, toEdge>>
    BY <1>5 DEF Freed
  <2>2. OwnerAlike(j, o)
    BY <2>1, OwnerGetsAlike
  <2>3. CASE seat[<<i, p>>] # "joined"
    BY <1>2, <2>1, <2>2, <2>3, StillWhen DEF SeatStays
  <2>4. CASE seat[<<i, p>>] = "joined" /\ j = i /\ o = p
    <3>1. /\ Grown(toEdge[o], toEdge'[o], "LEAVE", Framed(j, o)) /\ seat'[<<j, o>>] = "gone"
      BY <2>1, <2>4 DEF OwnerPuts, Becomes
    <3>2. Ends(j, o)
      BY <1>2, <2>2, <2>4, <3>1 DEF Ends
    <3> QED BY <3>2 DEF Part, OwnerPart
  <2>5. CASE seat[<<i, p>>] = "joined" /\ (j # i \/ o # p)
    <3>1. j \notin Framed(i, p) \/ o # p
      BY <2>5 DEF Framed
    <3>2. EdgeAlike(j, o) /\ SeatStays(j, o)
      BY <2>1, <2>5, <3>1, OwnerPutsAlike DEF Becomes, SeatStays
    <3> QED BY <1>2, <2>2, <3>2, StillWhen
  <2> QED BY <2>3, <2>4, <2>5
<1>6. ASSUME NEW c \in Conn, Heard(p, c) PROVE Part(j, o)
  <2>1. OwnerGets(p, "conn", c) /\ Shuts(p, {c}) /\ UNCHANGED toEdge
    BY <1>6 DEF Heard
  <2>2. OwnerAlike(j, o)
    BY <2>1, OwnerGetsAlike
  <2> QED BY <1>2, <2>1, <2>2, ShutsPart
<1> QED BY <1>1, <1>3, <1>4, <1>5, <1>6

\* The other steps of an owner.
LEMMA OwnersPart ==
    ASSUME Types, NEW j \in Join, NEW o \in Owner,
           \/ \E p \in Owner : OwnerDrops(p) \/ OwnerCrashes(p)
           \/ \E i \in Join, p \in Owner : OwnerRefuses(i, p) \/ OwnerCreates(i, p)
                                           \/ OwnerSeats(i, p) \/ OwnerKicks(i, p)
    PROVE  Part(j, o)
<1>1. ASSUME NEW p \in Owner, OwnerDrops(p) PROVE Part(j, o)
  <2>1. Shuts(p, Conn) /\ UNCHANGED <<edgeVars, toOwner, toEdge, clientVars>>
    BY <1>1, OwnerDropsEffect DEF OwnerDrops
  <2>2. req'[j] = req[j] /\ ClientFades(j) /\ RouteStays(j, o)
    BY <2>1 DEF ClientFades, RouteStays, edgeVars, clientVars
  <2>3. OwnerAlike(j, o)
    BY <2>1, AlikeSame DEF OwnerAlike
  <2> QED BY <2>1, <2>2, <2>3, ShutsPart
<1>2. ASSUME NEW p \in Owner, OwnerCrashes(p) PROVE Part(j, o)
  <2>1. /\ alive' = alive \ {p}
        /\ seat'[<<j, o>>] = IF o = p THEN "none" ELSE seat[<<j, o>>]
        /\ ~Sends(toOwner'[p], "join?", j) /\ Once(toOwner'[p], "join?", j)
        /\ o # p => toOwner'[o] = toOwner[o]
    BY <1>2, OwnerCrashesEffect
  <2>2. UNCHANGED <<cut, edgeVars, toEdge, clientVars>>
    BY <1>2 DEF OwnerCrashes
  <2>3. EdgeIdle(j, o) /\ ClientFades(j) /\ RouteStays(j, o) /\ req'[j] = req[j]
    BY <2>2 DEF edgeVars, clientVars, EdgeIdle, RouteStays, ClientFades
  <2>4. CASE o = p
    <3>1. EdgeAlike(j, o)
      BY <2>2, AlikeSame DEF EdgeAlike
    <3>2. OwnerDies(j, o)
      BY <2>1, <2>3, <2>4, <3>1 DEF OwnerDies
    <3> QED BY <3>2 DEF Part, OwnerPart
  <2>5. CASE o # p
    BY <2>1, <2>2, <2>3, <2>5, StillWhen DEF SeatStays
  <2> QED BY <2>4, <2>5
<1>3. ASSUME NEW i \in Join, NEW p \in Owner,
             OwnerRefuses(i, p) \/ OwnerCreates(i, p) \/ OwnerSeats(i, p) \/ OwnerKicks(i, p)
      PROVE  Part(j, o)
  <2>1. UNCHANGED <<cut, edgeVars, toOwner, clientVars>> /\ p \in alive
    BY <1>3 DEF OwnerRefuses, OwnerCreates, OwnerSeats, OwnerKicks, procVars
  <2>2. EdgeIdle(j, o) /\ ClientFades(j) /\ RouteStays(j, o) /\ req'[j] = req[j]
    BY <2>1 DEF edgeVars, clientVars, EdgeIdle, RouteStays, ClientFades
  <2>3. OwnerAlike(j, o)
    BY <2>1, AlikeSame DEF OwnerAlike
  <2>4. ASSUME NEW v, Becomes(i, p, v), j # i \/ o # p, EdgeAlike(j, o) PROVE Part(j, o)
    BY <2>2, <2>3, <2>4, StillWhen DEF Becomes, SeatStays
  <2>5. CASE OwnerRefuses(i, p)
    <3>1. Becomes(i, p, "none") /\ OwnerPuts(p, "failed", {i}) /\ seat[<<i, p>>] \in {"auth", "joining"}
      BY <2>5, OwnerRefusesEffect DEF OwnerRefuses
    <3>2. CASE j = i /\ o = p
      <4>1. Grown(toEdge[o], toEdge'[o], "failed", {j}) /\ seat'[<<j, o>>] = "none"
        BY <3>1, <3>2 DEF OwnerPuts, Becomes
      <4>2. Fails(j, o)
        BY <2>2, <2>3, <3>1, <3>2, <4>1 DEF Fails
      <4> QED BY <4>2 DEF Part, OwnerPart
    <3>3. CASE j # i \/ o # p
      BY <2>4, <3>1, <3>3, OwnerPutsAlike
    <3> QED BY <3>2, <3>3
  <2>6. CASE OwnerCreates(i, p)
    <3>1. Becomes(i, p, "joining") /\ seat[<<i, p>>] = "auth" /\ UNCHANGED toEdge
      BY <2>6, OwnerCreatesEffect DEF OwnerCreates
    <3>2. EdgeAlike(j, o)
      BY <3>1, AlikeSame DEF EdgeAlike
    <3>3. CASE j = i /\ o = p
      <4>1. Opens(j, o)
        BY <2>1, <2>2, <2>3, <3>1, <3>2, <3>3 DEF Opens, Becomes
      <4> QED BY <4>1 DEF Part, OwnerPart
    <3>4. CASE j # i \/ o # p
      BY <2>4, <3>1, <3>2, <3>4
    <3> QED BY <3>3, <3>4
  <2>7. CASE OwnerSeats(i, p)
    <3>1. /\ Becomes(i, p, IF object[<<i, p>>] \in shut[p] THEN "gone" ELSE "joined")
          /\ \A q \in Owner \ {p} : toEdge'[q] = toEdge[q]
          /\ seat[<<i, p>>] = "joining"
      BY <2>7, OwnerSeatsEffect DEF OwnerSeats
    <3>2. PICK r : /\ Grown(toEdge[p], r, "join!", {i})
                   /\ Grown(r, toEdge'[p], "JOIN_SUCCESS", Framed(i, p))
      BY <2>7, OwnerSeatsEffect
    <3>3. CASE j = i /\ o = p
      <4>1. seat'[<<j, o>>] = IF object[<<j, o>>] \in shut[o] THEN "gone" ELSE "joined"
        BY <3>1, <3>3 DEF Becomes
      <4>2. Fills(j, o)
        BY <2>1, <2>2, <2>3, <3>1, <3>2, <3>3, <4>1 DEF Fills
      <4> QED BY <4>2 DEF Part, OwnerPart
    <3>4. CASE j # i \/ o # p
      <4>1. EdgeAlike(j, o)
        <5>1. CASE o # p
          BY <3>1, <5>1, AlikeSame DEF EdgeAlike
        <5>2. CASE o = p
          <6>1. j \notin {i} /\ j \notin Framed(i, p)
            BY <3>4, <5>2 DEF Framed
          <6>2. Alike(toEdge[p], r, EdgeKind, j) /\ Alike(r, toEdge'[p], EdgeKind, j)
            BY <3>2, <6>1, AlikeGrown
          <6>3. Alike(toEdge[p], toEdge'[p], EdgeKind, j)
            BY <6>2, AlikeTrans
          <6> QED BY <5>2, <6>3 DEF EdgeAlike
        <5> QED BY <5>1, <5>2
      <4> QED BY <2>4, <3>1, <3>4, <4>1
    <3> QED BY <3>3, <3>4
  <2>8. CASE OwnerKicks(i, p)
    <3>1. /\ Becomes(i, p, "gone") /\ OwnerPuts(p, "LEAVE", Framed(i, p)) /\ seat[<<i, p>>] = "joined"
      BY <2>8, OwnerKicksEffect DEF OwnerKicks
    <3>2. CASE j = i /\ o = p
      <4>1. Grown(toEdge[o], toEdge'[o], "LEAVE", Framed(j, o)) /\ seat'[<<j, o>>] = "gone"
        BY <3>1, <3>2 DEF OwnerPuts, Becomes
      <4>2. Ends(j, o)
        BY <2>2, <2>3, <3>1, <3>2, <4>1 DEF Ends
      <4> QED BY <4>2 DEF Part, OwnerPart
    <3>3. CASE j # i \/ o # p
      <4>1. j \notin Framed(i, p) \/ o # p
        BY <3>3 DEF Framed
      <4> QED BY <2>4, <3>1, <3>3, <4>1, OwnerPutsAlike
    <3> QED BY <3>2, <3>3
  <2> QED BY <1>3, <2>5, <2>6, <2>7, <2>8
<1> QED BY <1>1, <1>2, <1>3

\* Every step is one of these parts for every join and owner.
LEMMA StepParts ==
    ASSUME Types, EdgeSound, [Next]_vars, NEW j \in Join, NEW o \in Owner
    PROVE  Part(j, o)
<1>1. CASE UNCHANGED vars
  BY <1>1, StillWhen DEF vars, edgeVars, ownerVars, clientVars, SeatStays, ClientFades, RouteStays
<1>2. CASE Next
  BY <1>2, ClientsPart, EdgeAsksPart, EdgeReceivesPart, EdgeDropsPart, OwnerReceivesPart, OwnersPart
  DEF Next
<1> QED BY <1>1, <1>2

----------------------------------------------------------------------------
(* One join at one owner: the order of its messages. *)

\* No answer to j is on its way, its JOIN is, and the owner runs its hooks.
Silent(j, o) == \A t \in EdgeKind : ~Sends(toEdge[o], t, j)
Asked(j, o) == Sends(toOwner[o], "join?", j)
Trying(j, o) == seat[<<j, o>>] \in {"auth", "joining"}

\* A JOIN is sent once to an owner.  While it is on its way, or the owner runs its
\* hooks, nothing was answered.  A refusal is the only answer and leaves no seat;
\* otherwise the reply comes first, then JOIN_SUCCESS, then LEAVE.  Once the edge
\* has the reply, nothing is left to be answered.
Phase(j, o) ==
    /\ Asked(j, o) => o \in req[j].tried
    /\ Once(toOwner[o], "join?", j)
    /\ Asked(j, o) \/ o \notin req[j].tried => seat[<<j, o>>] = "none" /\ Silent(j, o)
    /\ Trying(j, o) => Silent(j, o)
    /\ seat[<<j, o>>] = "joined" => ~Sends(toEdge[o], "LEAVE", j)
    /\ Sends(toEdge[o], "refused", j) \/ Sends(toEdge[o], "failed", j) =>
          /\ seat[<<j, o>>] = "none" /\ ~Sends(toEdge[o], "join!", j)
          /\ ~Sends(toEdge[o], "JOIN_SUCCESS", j) /\ ~Sends(toEdge[o], "LEAVE", j)
    /\ Once(toEdge[o], "join!", j)
    /\ Before(toEdge[o], "join!", j, "JOIN_SUCCESS", j)
    /\ Before(toEdge[o], "join!", j, "LEAVE", j)
    /\ Before(toEdge[o], "JOIN_SUCCESS", j, "LEAVE", j)
    /\ req[j].st = "ok" /\ req[j].at = o =>
          ~Asked(j, o) /\ ~Trying(j, o) /\ ~Sends(toEdge[o], "join!", j)

PhasesSound == \A j \in Join, o \in Owner : Phase(j, o)

\* It holds when the cluster starts.
LEMMA InitPhases == Init => PhasesSound
<1> SUFFICES ASSUME Init, NEW j \in Join, NEW o \in Owner PROVE Phase(j, o)
  BY DEF PhasesSound
<1>1. /\ toOwner[o] = <<>> /\ toEdge[o] = <<>> /\ req[j].st = "none" /\ req[j].tried = {}
      /\ seat[<<j, o>>] = "none"
  BY DEF Init, Ref
<1>2. /\ \A t, i : ~Sends(toOwner[o], t, i) /\ ~Sends(toEdge[o], t, i)
      /\ \A t, i : Once(toOwner[o], t, i) /\ Once(toEdge[o], t, i)
      /\ \A t, i, u, k : Before(toEdge[o], t, i, u, k)
  BY <1>1 DEF Sends, Once, Before
<1> QED BY <1>1, <1>2 DEF Phase, Silent, Asked, Trying

\* For j, r holds no more messages of the kinds of T than q, no more duplicates
\* and no less order.
Thin(q, r, T, j) ==
    /\ \A t \in T : Sends(r, t, j) => Sends(q, t, j)
    /\ \A t \in T : Once(q, t, j) => Once(r, t, j)
    /\ \A t, u \in T : t # u /\ Before(q, t, j, u, j) => Before(r, t, j, u, j)

\* A queue that is alike or lost a message is thinner.
LEMMA ThinWhen ==
    ASSUME NEW q, NEW r, NEW T, NEW j
    PROVE  /\ Alike(q, r, T, j) => Thin(q, r, T, j)
           /\ \A u, k : Popped(q, r, u, k) => Thin(q, r, T, j)
<1>1. Alike(q, r, T, j) => Thin(q, r, T, j)
  BY DEF Alike, Thin
<1>2. ASSUME NEW u, NEW k, Popped(q, r, u, k) PROVE Thin(q, r, T, j)
  BY <1>2 DEF Popped, Thin
<1> QED BY <1>1, <1>2

\* Messages that are lost or taken, and a seat that ends, do no harm.
LEMMA PhaseKept ==
    ASSUME NEW j \in Join, NEW o \in Owner, Phase(j, o),
           Thin(toEdge[o], toEdge'[o], EdgeKind, j), Thin(toOwner[o], toOwner'[o], {"join?"}, j),
           o \in req'[j].tried <=> o \in req[j].tried,
           req'[j].st = "ok" /\ req'[j].at = o => req[j].st = "ok" /\ req[j].at = o,
           \/ SeatStays(j, o) \/ seat'[<<j, o>>] = "none"
           \/ seat[<<j, o>>] = "joined" /\ seat'[<<j, o>>] = "gone"
           \/ seat[<<j, o>>] = "auth" /\ seat'[<<j, o>>] = "joining"
    PROVE  Phase(j, o)'
<1>1. /\ \A t \in EdgeKind : Sends(toEdge'[o], t, j) => Sends(toEdge[o], t, j)
      /\ Once(toEdge[o], "join!", j) => Once(toEdge'[o], "join!", j)
      /\ Before(toEdge[o], "join!", j, "JOIN_SUCCESS", j) => Before(toEdge'[o], "join!", j, "JOIN_SUCCESS", j)
      /\ Before(toEdge[o], "join!", j, "LEAVE", j) => Before(toEdge'[o], "join!", j, "LEAVE", j)
      /\ Before(toEdge[o], "JOIN_SUCCESS", j, "LEAVE", j) => Before(toEdge'[o], "JOIN_SUCCESS", j, "LEAVE", j)
  BY DEF Thin, EdgeKind
<1>2. /\ Sends(toOwner'[o], "join?", j) => Sends(toOwner[o], "join?", j)
      /\ Once(toOwner[o], "join?", j) => Once(toOwner'[o], "join?", j)
  BY DEF Thin
<1>3. Asked(j, o)' => Asked(j, o)
  BY <1>2 DEF Asked
<1>4. Silent(j, o) => Silent(j, o)'
  BY <1>1 DEF Silent
<1>5. /\ seat'[<<j, o>>] = "joined" => seat[<<j, o>>] = "joined"
      /\ Trying(j, o)' => Trying(j, o)
      /\ seat[<<j, o>>] = "none" => seat'[<<j, o>>] = "none"
  BY DEF SeatStays, Trying
<1>6. "join!" \in EdgeKind /\ "refused" \in EdgeKind /\ "failed" \in EdgeKind
      /\ "JOIN_SUCCESS" \in EdgeKind /\ "LEAVE" \in EdgeKind
  BY DEF EdgeKind
<1>7. /\ Asked(j, o)' => o \in req'[j].tried
      /\ Asked(j, o)' \/ o \notin req'[j].tried => seat'[<<j, o>>] = "none" /\ Silent(j, o)'
      /\ Trying(j, o)' => Silent(j, o)'
      /\ req'[j].st = "ok" /\ req'[j].at = o =>
          ~Asked(j, o)' /\ ~Trying(j, o)' /\ ~Sends(toEdge'[o], "join!", j)
  BY <1>1, <1>3, <1>4, <1>5, <1>6 DEF Phase
<1>8. /\ seat'[<<j, o>>] = "joined" => ~Sends(toEdge'[o], "LEAVE", j)
      /\ Sends(toEdge'[o], "refused", j) \/ Sends(toEdge'[o], "failed", j) =>
          /\ seat'[<<j, o>>] = "none" /\ ~Sends(toEdge'[o], "join!", j)
          /\ ~Sends(toEdge'[o], "JOIN_SUCCESS", j) /\ ~Sends(toEdge'[o], "LEAVE", j)
  BY <1>1, <1>5, <1>6 DEF Phase
<1> QED BY <1>1, <1>2, <1>7, <1>8 DEF Phase

\* The steps of the edge.
LEMMA PhaseEdgePart ==
    ASSUME NEW j \in Join, NEW o \in Owner, Phase(j, o), EdgePart(j, o) PROVE Phase(j, o)'
<1>0. EdgeAlike(j, o) => Thin(toEdge[o], toEdge'[o], EdgeKind, j)
  BY ThinWhen DEF EdgeAlike
<1>a. OwnerAlike(j, o) => Thin(toOwner[o], toOwner'[o], {"join?"}, j)
  BY ThinWhen DEF OwnerAlike
<1>b. \A t : Popped(toEdge[o], toEdge'[o], t, j) => Thin(toEdge[o], toEdge'[o], EdgeKind, j)
  BY ThinWhen
<1>1. CASE Asks(j, o)
  BY <1>0, <1>a, <1>1, PhaseKept DEF Asks
<1>2. CASE Goes(j, o)
  <2>1. seat[<<j, o>>] = "none" /\ Silent(j, o) /\ ~Asked(j, o) /\ ~Sends(toOwner[o], "join?", j)
    BY <1>2 DEF Goes, Phase, Asked
  <2>2. /\ Once(toOwner'[o], "join?", j) /\ o \in req'[j].tried /\ req'[j].st # "ok"
        /\ seat'[<<j, o>>] = "none" /\ Thin(toEdge[o], toEdge'[o], EdgeKind, j)
    BY <1>0, <1>2, <2>1 DEF Goes, SeatStays
  <2>3. Silent(j, o)' /\ ~Trying(j, o)'
    BY <2>1, <2>2 DEF Silent, Thin, Trying
  <2>4. /\ \A t \in EdgeKind : ~Sends(toEdge'[o], t, j)
        /\ Once(toEdge'[o], "join!", j) /\ Before(toEdge'[o], "join!", j, "JOIN_SUCCESS", j)
        /\ Before(toEdge'[o], "join!", j, "LEAVE", j)
        /\ Before(toEdge'[o], "JOIN_SUCCESS", j, "LEAVE", j)
    BY <2>2, <2>3 DEF Phase, Thin, EdgeKind, Silent
  <2>5. ~Sends(toEdge'[o], "refused", j) /\ ~Sends(toEdge'[o], "failed", j)
    BY <2>4 DEF EdgeKind
  <2> QED BY <2>2, <2>3, <2>4, <2>5 DEF Phase
<1>3. CASE Misses(j, o)
  <2>1. Thin(toEdge[o], toEdge'[o], EdgeKind, j)
    BY <1>0, <1>b, <1>3 DEF Misses
  <2> QED BY <1>a, <1>3, <2>1, PhaseKept DEF Misses
<1>4. CASE Lost(j, o)
  BY <1>0, <1>a, <1>4, PhaseKept DEF Lost
<1>5. CASE Enters(j, o)
  <2>1. /\ Popped(toEdge[o], toEdge'[o], "join!", j) /\ OwnerAlike(j, o) /\ SeatStays(j, o)
        /\ req'[j].tried = req[j].tried
    BY <1>5 DEF Enters
  <2>2. Sends(toEdge[o], "join!", j) /\ ~Sends(toEdge'[o], "join!", j)
    BY <2>1 DEF Popped, Phase
  <2>3. ~Asked(j, o) /\ ~Trying(j, o)
    BY <2>2 DEF Phase, Silent, EdgeKind
  <2>4. ~Asked(j, o)' /\ ~Trying(j, o)'
    BY <2>1, <2>3 DEF OwnerAlike, Alike, Asked, SeatStays, Trying
  <2>5. \A t \in EdgeKind : Sends(toEdge'[o], t, j) => Sends(toEdge[o], t, j)
    BY <2>1 DEF Popped
  <2>6. /\ Once(toOwner'[o], "join?", j)
        /\ Once(toEdge'[o], "join!", j) /\ Before(toEdge'[o], "join!", j, "JOIN_SUCCESS", j)
        /\ Before(toEdge'[o], "join!", j, "LEAVE", j)
        /\ Before(toEdge'[o], "JOIN_SUCCESS", j, "LEAVE", j)
    BY <2>1 DEF Phase, Popped, OwnerAlike, Alike
  <2>7. o \in req'[j].tried
    BY <2>1, <2>2 DEF Phase, Silent, EdgeKind
  <2>8. /\ seat'[<<j, o>>] = "joined" => ~Sends(toEdge'[o], "LEAVE", j)
        /\ ~Sends(toEdge'[o], "refused", j) /\ ~Sends(toEdge'[o], "failed", j)
    BY <2>1, <2>2, <2>5 DEF Phase, SeatStays, EdgeKind
  <2> QED BY <2>2, <2>4, <2>6, <2>7, <2>8 DEF Phase
<1>6. CASE Away(j, o)
  BY <1>0, <1>a, <1>6, PhaseKept DEF Away
<1>7. CASE Elsewhere(j, o)
  BY <1>0, <1>a, <1>7, PhaseKept DEF Elsewhere
<1>8. ASSUME NEW t \in EdgeKind, Skips(j, o, t) PROVE Phase(j, o)'
  BY <1>a, <1>b, <1>8, PhaseKept DEF Skips, EdgeIdle
<1>9. CASE HearsLeave(j, o)
  BY <1>a, <1>b, <1>9, PhaseKept DEF HearsLeave
<1>10. CASE HearsSuccess(j, o)
  BY <1>a, <1>b, <1>10, PhaseKept DEF HearsSuccess
<1>11. CASE EdgeDies(j, o)
  <2>1. Thin(toEdge[o], toEdge'[o], EdgeKind, j)
    BY <1>11 DEF EdgeDies, Thin
  <2> QED BY <1>a, <1>11, <2>1, PhaseKept DEF EdgeDies
<1> QED BY <1>1, <1>2, <1>3, <1>4, <1>5, <1>6, <1>7, <1>8, <1>9, <1>10, <1>11 DEF EdgePart

\* The steps of the owner.
LEMMA PhaseOwnerPart ==
    ASSUME NEW j \in Join, NEW o \in Owner, Phase(j, o), OwnerPart(j, o) PROVE Phase(j, o)'
<1>0. EdgeAlike(j, o) => Thin(toEdge[o], toEdge'[o], EdgeKind, j)
  BY ThinWhen DEF EdgeAlike
<1>a. OwnerAlike(j, o) => Thin(toOwner[o], toOwner'[o], {"join?"}, j)
  BY ThinWhen DEF OwnerAlike
<1>k. EdgeKind = {"join!", "refused", "failed", "JOIN_SUCCESS", "LEAVE"}
  BY DEF EdgeKind
<1>t. /\ OwnerAlike(j, o) => (Asked(j, o)' <=> Asked(j, o)) /\ Once(toOwner'[o], "join?", j)
      /\ Popped(toOwner[o], toOwner'[o], "join?", j) =>
            /\ Asked(j, o) /\ ~Asked(j, o)' /\ Once(toOwner'[o], "join?", j)
  <2>1. Once(toOwner[o], "join?", j)
    BY DEF Phase
  <2> QED BY <2>1 DEF OwnerAlike, Alike, Popped, Asked
<1>r. EdgeIdle(j, o) => req'[j] = req[j]
  BY DEF EdgeIdle
<1>1. CASE Takes(j, o)
  <2>1. /\ EdgeAlike(j, o) /\ seat'[<<j, o>>] \in {"auth", "joining"}
        /\ Asked(j, o) /\ ~Asked(j, o)' /\ Once(toOwner'[o], "join?", j) /\ req'[j] = req[j]
    BY <1>t, <1>r, <1>1 DEF Takes
  <2>2. Silent(j, o) /\ o \in req[j].tried /\ ~(req[j].st = "ok" /\ req[j].at = o)
    BY <2>1 DEF Phase
  <2>3. \A t \in EdgeKind : ~Sends(toEdge'[o], t, j)
    BY <2>1, <2>2 DEF Silent, EdgeAlike, Alike
  <2>4. /\ Once(toEdge'[o], "join!", j) /\ Before(toEdge'[o], "join!", j, "JOIN_SUCCESS", j)
        /\ Before(toEdge'[o], "join!", j, "LEAVE", j)
        /\ Before(toEdge'[o], "JOIN_SUCCESS", j, "LEAVE", j)
    BY <1>0, <1>k, <2>1 DEF Phase, Thin
  <2>5. Silent(j, o)' /\ ~Sends(toEdge'[o], "refused", j) /\ ~Sends(toEdge'[o], "failed", j)
    BY <1>k, <2>3 DEF Silent
  <2> QED BY <2>1, <2>2, <2>4, <2>5 DEF Phase
<1>2. CASE Declines(j, o)
  <2>1. PICK t \in {"refused", "failed"} : Grown(toEdge[o], toEdge'[o], t, {j})
    BY <1>2 DEF Declines
  <2>2. /\ Asked(j, o) /\ ~Asked(j, o)' /\ Once(toOwner'[o], "join?", j) /\ req'[j] = req[j]
        /\ seat'[<<j, o>>] = seat[<<j, o>>]
    BY <1>t, <1>r, <1>2 DEF Declines, SeatStays
  <2>3. /\ Silent(j, o) /\ o \in req[j].tried /\ ~(req[j].st = "ok" /\ req[j].at = o)
        /\ seat[<<j, o>>] = "none"
    BY <2>2 DEF Phase
  <2>4. ~Sends(toEdge'[o], "join!", j) /\ ~Sends(toEdge'[o], "JOIN_SUCCESS", j) /\ ~Sends(toEdge'[o], "LEAVE", j)
    BY <1>k, <2>1, <2>3 DEF Grown, Silent
  <2>5. /\ Once(toEdge'[o], "join!", j) /\ Before(toEdge'[o], "join!", j, "JOIN_SUCCESS", j)
        /\ Before(toEdge'[o], "join!", j, "LEAVE", j)
        /\ Before(toEdge'[o], "JOIN_SUCCESS", j, "LEAVE", j)
    BY <2>1 DEF Phase, Grown
  <2>6. ~Trying(j, o)'
    BY <2>2, <2>3 DEF Trying
  <2> QED BY <2>2, <2>3, <2>4, <2>5, <2>6 DEF Phase
<1>3. CASE Fails(j, o)
  <2>1. /\ Grown(toEdge[o], toEdge'[o], "failed", {j}) /\ Trying(j, o) /\ seat[<<j, o>>] # "none"
        /\ seat'[<<j, o>>] = "none" /\ req'[j] = req[j]
        /\ (Asked(j, o)' <=> Asked(j, o)) /\ Once(toOwner'[o], "join?", j)
    BY <1>t, <1>r, <1>3 DEF Fails, Trying
  <2>2. /\ Silent(j, o) /\ o \in req[j].tried /\ ~(req[j].st = "ok" /\ req[j].at = o)
        /\ ~Asked(j, o)
    BY <2>1 DEF Phase
  <2>4. ~Sends(toEdge'[o], "join!", j) /\ ~Sends(toEdge'[o], "JOIN_SUCCESS", j) /\ ~Sends(toEdge'[o], "LEAVE", j)
    BY <1>k, <2>1, <2>2 DEF Grown, Silent
  <2>5. /\ Once(toEdge'[o], "join!", j) /\ Before(toEdge'[o], "join!", j, "JOIN_SUCCESS", j)
        /\ Before(toEdge'[o], "join!", j, "LEAVE", j)
        /\ Before(toEdge'[o], "JOIN_SUCCESS", j, "LEAVE", j)
    BY <2>1 DEF Phase, Grown
  <2>6. ~Trying(j, o)'
    BY <2>1 DEF Trying
  <2> QED BY <2>1, <2>2, <2>4, <2>5, <2>6 DEF Phase
<1>4. CASE Opens(j, o)
  BY <1>0, <1>a, <1>4, PhaseKept DEF Opens, EdgeIdle
<1>5. CASE Fills(j, o)
  <2>1. PICK r : /\ Grown(toEdge[o], r, "join!", {j})
                 /\ Grown(r, toEdge'[o], "JOIN_SUCCESS", Framed(j, o))
    BY <1>5 DEF Fills
  <2>2. /\ Trying(j, o) /\ seat'[<<j, o>>] \in {"gone", "joined"} /\ seat[<<j, o>>] # "none"
        /\ req'[j] = req[j]
        /\ (Asked(j, o)' <=> Asked(j, o)) /\ Once(toOwner'[o], "join?", j)
    BY <1>t, <1>r, <1>5 DEF Fills, Trying
  <2>3. /\ Silent(j, o) /\ o \in req[j].tried /\ ~(req[j].st = "ok" /\ req[j].at = o)
        /\ ~Asked(j, o)
    BY <2>2 DEF Phase
  <2>4. /\ ~Sends(toEdge[o], "join!", j) /\ ~Sends(toEdge[o], "refused", j) /\ ~Sends(toEdge[o], "failed", j)
        /\ ~Sends(toEdge[o], "JOIN_SUCCESS", j) /\ ~Sends(toEdge[o], "LEAVE", j)
    BY <1>k, <2>3 DEF Silent
  <2>5. /\ ~Sends(r, "refused", j) /\ ~Sends(r, "failed", j)
        /\ ~Sends(r, "JOIN_SUCCESS", j) /\ ~Sends(r, "LEAVE", j)
        /\ Once(r, "join!", j) /\ Before(r, "join!", j, "JOIN_SUCCESS", j)
        /\ Before(r, "join!", j, "LEAVE", j) /\ Before(r, "JOIN_SUCCESS", j, "LEAVE", j)
    BY <2>1, <2>4 DEF Phase, Grown
  <2>6. /\ ~Sends(toEdge'[o], "refused", j) /\ ~Sends(toEdge'[o], "failed", j)
        /\ ~Sends(toEdge'[o], "LEAVE", j)
        /\ Once(toEdge'[o], "join!", j) /\ Before(toEdge'[o], "join!", j, "JOIN_SUCCESS", j)
        /\ Before(toEdge'[o], "join!", j, "LEAVE", j)
        /\ Before(toEdge'[o], "JOIN_SUCCESS", j, "LEAVE", j)
    BY <2>1, <2>5 DEF Grown
  <2>7. ~Trying(j, o)'
    BY <2>2 DEF Trying
  <2> QED BY <2>2, <2>3, <2>6, <2>7 DEF Phase
<1>6. CASE Ends(j, o)
  <2>1. /\ Grown(toEdge[o], toEdge'[o], "LEAVE", Framed(j, o)) /\ req'[j] = req[j]
        /\ seat[<<j, o>>] = "joined" /\ seat'[<<j, o>>] = "gone"
        /\ (Asked(j, o)' <=> Asked(j, o)) /\ Once(toOwner'[o], "join?", j)
    BY <1>t, <1>r, <1>6 DEF Ends
  <2>2. /\ o \in req[j].tried /\ ~Asked(j, o)
        /\ ~Sends(toEdge[o], "refused", j) /\ ~Sends(toEdge[o], "failed", j)
    BY <2>1 DEF Phase
  <2>3. /\ ~Sends(toEdge'[o], "refused", j) /\ ~Sends(toEdge'[o], "failed", j)
        /\ Once(toEdge'[o], "join!", j) /\ Before(toEdge'[o], "join!", j, "JOIN_SUCCESS", j)
        /\ Before(toEdge'[o], "join!", j, "LEAVE", j)
        /\ Before(toEdge'[o], "JOIN_SUCCESS", j, "LEAVE", j)
        /\ Sends(toEdge'[o], "join!", j) => Sends(toEdge[o], "join!", j)
    BY <2>1, <2>2 DEF Phase, Grown
  <2>4. ~Trying(j, o)'
    BY <2>1 DEF Trying
  <2> QED BY <2>1, <2>2, <2>3, <2>4 DEF Phase
<1>7. CASE Shuttered(j, o)
  BY <1>0, <1>a, <1>7, PhaseKept DEF Shuttered
<1>8. CASE OwnerDies(j, o)
  <2>1. Thin(toOwner[o], toOwner'[o], {"join?"}, j)
    BY <1>8 DEF OwnerDies, Thin
  <2> QED BY <1>0, <1>8, <2>1, PhaseKept DEF OwnerDies, EdgeIdle
<1> QED BY <1>1, <1>2, <1>3, <1>4, <1>5, <1>6, <1>7, <1>8 DEF OwnerPart

\* Every step keeps the order of the messages.
LEMMA PhasesStep == ASSUME Types, EdgeSound, PhasesSound, [Next]_vars PROVE PhasesSound'
<1> SUFFICES ASSUME NEW j \in Join, NEW o \in Owner PROVE Phase(j, o)'
  BY DEF PhasesSound
<1>1. Phase(j, o)
  BY DEF PhasesSound
<1>2. Part(j, o)
  BY StepParts
<1>3. CASE Still(j, o)
  <2>1. /\ EdgeAlike(j, o) => Thin(toEdge[o], toEdge'[o], EdgeKind, j)
        /\ OwnerAlike(j, o) => Thin(toOwner[o], toOwner'[o], {"join?"}, j)
    BY ThinWhen DEF EdgeAlike, OwnerAlike
  <2> QED BY <1>1, <1>3, <2>1, PhaseKept DEF Still
<1> QED BY <1>1, <1>2, <1>3, PhaseEdgePart, PhaseOwnerPart DEF Part

----------------------------------------------------------------------------
(* Connections that are closed. *)

\* The edge tells an owner that a connection closed only when it did, and the
\* owner hears it unless it dies.
LEMMA ConnMessages ==
    ASSUME Types, [Next]_vars, NEW o \in Owner, NEW c \in Conn
    PROVE  /\ Sends(toOwner'[o], "conn", c) => Sends(toOwner[o], "conn", c) \/ c \notin open'
           /\ Sends(toOwner[o], "conn", c) =>
                 Sends(toOwner'[o], "conn", c) \/ Heard(o, c) \/ o \notin alive'
<1> DEFINE P == /\ Sends(toOwner'[o], "conn", c) => Sends(toOwner[o], "conn", c) \/ c \notin open'
                /\ Sends(toOwner[o], "conn", c) =>
                      Sends(toOwner'[o], "conn", c) \/ Heard(o, c) \/ o \notin alive'
<1> SUFFICES P
  OBVIOUS
<1>0. toOwner'[o] = toOwner[o] => P
  OBVIOUS
<1>a. ASSUME NEW u, NEW J, u # "conn", Grown(toOwner[o], toOwner'[o], u, J) PROVE P
  BY <1>a DEF Grown
<1>b. ASSUME NEW u, NEW i, u # "conn", Popped(toOwner[o], toOwner'[o], u, i) PROVE P
  BY <1>b DEF Popped
<1>m. ASSUME NEW W, NEW next, MoveStep(W, next) PROVE P
  <2>1. Grown(toOwner[o], toOwner'[o], "join?", {k \in W : next[k] = o})
    BY <1>m DEF MoveStep, Moves
  <2> HIDE DEF P
  <2> QED BY <1>a, <2>1
<1>g. ASSUME NEW p \in Owner, NEW u, NEW i, u # "conn", OwnerGets(p, u, i) PROVE P
  <2> HIDE DEF P
  <2>1. CASE o = p
    BY <1>b, <1>g, <2>1 DEF OwnerGets
  <2>2. CASE o # p
    BY <1>0, <1>g, <2>2 DEF OwnerGets
  <2> QED BY <2>1, <2>2
<1>1. CASE EdgeCrashes \/ UNCHANGED vars
  BY <1>0, <1>1 DEF EdgeCrashes, vars
<1>2. ASSUME NEW d \in Conn, ConnCloses(d) PROVE P
  <2>1. Grown(toOwner[o], toOwner'[o], "conn", IF o \in owners[d] THEN {d} ELSE {})
    BY <1>2, ConnClosesTypes
  <2>2. open' = open \ {d}
    BY <1>2 DEF ConnCloses
  <2> QED BY <2>1, <2>2 DEF Grown
<1>3. ASSUME NEW i \in Join, Ask(i) \/ ClientLeaves(i) PROVE P
  BY <1>0, <1>3 DEF Ask, ClientLeaves
<1>4. ASSUME NEW i \in Join, Locate(i) \/ TimeOut(i) PROVE P
  <2>1. PICK next : MoveStep({i}, next)
    BY <1>4, LocateStep, TimeOutStep DEF Located, TimedOut
  <2> HIDE DEF P
  <2> QED BY <1>m, <2>1
<1>5. ASSUME NEW p \in Owner, EdgeReceives(p) PROVE P
  <2>1. PICK i \in Join, t \in EdgeKind :
          \/ Seated(i, p) \/ Ignored(i, p, t) \/ RelayedLeave(i, p) \/ RelayedSuccess(i, p)
          \/ \E next : Refused(i, p, t, next)
    BY <1>5, EdgeReceivesStep
  <2>2. CASE Seated(i, p)
    <3>1. CASE ConnOf[i] \in open
      BY <1>0, <2>2, <3>1 DEF Seated
    <3>2. CASE ConnOf[i] \notin open
      <4>1. EdgePuts(p, "conn", {ConnOf[i]}) /\ open' = open
        BY <2>2, <3>2 DEF Seated
      <4>2. CASE o = p
        <5>1. Grown(toOwner[o], toOwner'[o], "conn", {ConnOf[i]})
          BY <4>1, <4>2 DEF EdgePuts
        <5> QED BY <3>2, <4>1, <5>1 DEF Grown
      <4>3. CASE o # p
        BY <1>0, <4>1, <4>3 DEF EdgePuts
      <4> QED BY <4>2, <4>3
    <3> QED BY <3>1, <3>2
  <2>3. CASE Ignored(i, p, t) \/ RelayedLeave(i, p) \/ RelayedSuccess(i, p)
    BY <1>0, <2>3 DEF Ignored, RelayedLeave, RelayedSuccess
  <2>4. ASSUME NEW next, Refused(i, p, t, next) PROVE P
    <3>1. MoveStep({i}, next)
      BY <2>4 DEF Refused
    <3> HIDE DEF P
    <3> QED BY <1>m, <3>1
  <2> QED BY <2>1, <2>2, <2>3, <2>4
<1>6. ASSUME NEW p \in Owner, OwnerReceives(p) PROVE P
  <2>1. \/ \E i \in Join : \/ Took(i, p) \/ Freed(i, p)
                           \/ \E t \in EdgeKind : TurnedDown(i, p, t)
        \/ \E d \in Conn : Heard(p, d)
    BY <1>6, OwnerReceivesStep
  <2>2. ASSUME NEW i \in Join, Took(i, p) \/ Freed(i, p) \/ \E t \in EdgeKind : TurnedDown(i, p, t)
        PROVE  P
    <3>1. OwnerGets(p, "join?", i) \/ OwnerGets(p, "leave", i)
      BY <2>2 DEF Took, Freed, TurnedDown
    <3> HIDE DEF P
    <3> QED BY <1>g, <3>1
  <2>3. ASSUME NEW d \in Conn, Heard(p, d) PROVE P
    <3>1. CASE o # p
      BY <1>0, <2>3, <3>1 DEF Heard, OwnerGets
    <3>2. CASE o = p
      <4>1. Popped(toOwner[o], toOwner'[o], "conn", d)
        BY <2>3, <3>2 DEF Heard, OwnerGets
      <4>2. CASE d = c
        <5>1. Sends(toOwner'[o], "conn", c) => Sends(toOwner[o], "conn", c)
          BY <4>1 DEF Popped
        <5> QED BY <2>3, <3>2, <4>2, <5>1
      <4>3. CASE d # c
        <5>1. Sends(toOwner'[o], "conn", c) <=> Sends(toOwner[o], "conn", c)
          BY <4>1, <4>3 DEF Popped
        <5> QED BY <5>1
      <4> QED BY <4>2, <4>3
    <3> QED BY <3>1, <3>2
  <2> QED BY <2>1, <2>2, <2>3
<1>7. ASSUME NEW p \in Owner, EdgeDrops(p) PROVE P
  <2>1. PICK next : MoveStep(WaitingAt(p), next)
    BY <1>7, EdgeDropsStep DEF Dropped
  <2> HIDE DEF P
  <2> QED BY <1>m, <2>1
<1>8. ASSUME NEW p \in Owner, OwnerDrops(p) PROVE P
  BY <1>0, <1>8 DEF OwnerDrops
<1>9. ASSUME NEW p \in Owner, OwnerCrashes(p) PROVE P
  <2>1. CASE o = p
    BY <1>9, <2>1, OwnerCrashesEffect
  <2>2. CASE o # p
    BY <1>0, <1>9, <2>2, OwnerCrashesEffect
  <2> QED BY <2>1, <2>2
<1>10. ASSUME NEW i \in Join, NEW p \in Owner, EdgeLeaves(i, p) PROVE P
  <2>1. PICK J : EdgePuts(p, "leave", J)
    BY <1>10, EdgeLeavesTypes
  <2> HIDE DEF P
  <2>2. CASE o = p
    BY <1>a, <2>1, <2>2 DEF EdgePuts
  <2>3. CASE o # p
    BY <1>0, <2>1, <2>3 DEF EdgePuts
  <2> QED BY <2>2, <2>3
<1>11. ASSUME NEW i \in Join, NEW p \in Owner,
              OwnerRefuses(i, p) \/ OwnerCreates(i, p) \/ OwnerSeats(i, p) \/ OwnerKicks(i, p)
       PROVE  P
  BY <1>0, <1>11 DEF OwnerRefuses, OwnerCreates, OwnerSeats, OwnerKicks
<1> HIDE DEF P
<1> QED BY <1>1, <1>2, <1>3, <1>4, <1>5, <1>6, <1>7, <1>8, <1>9, <1>10, <1>11 DEF Next

\* The owner runs the hooks of j, or has seated it.
Held(j, o) == seat[<<j, o>>] \in {"auth", "joining", "joined"}

\* A RemoteConnection stands for one connection, also for the seats bound to it.
\* It is shut only when that connection closed, and then none of its seats is left;
\* unless the owner took the edge for dead.
ShutSound(o) == <<o, Edge>> \notin cut => \A x \in shut[o] : ConnOf[x] \notin open
ListSound(o) == \A c \in Conn : current[o][c] # None => ConnOf[current[o][c]] = c
ToldSound(o) == \A c \in Conn : Sends(toOwner[o], "conn", c) => c \notin open
BoundSound(j, o) ==
    /\ object[<<j, o>>] # None => ConnOf[object[<<j, o>>]] = ConnOf[j]
    /\ Held(j, o) => object[<<j, o>>] # None
    /\ seat[<<j, o>>] = "joined" => object[<<j, o>>] \notin shut[o]

ClosedSound ==
    \A o \in Owner : /\ ShutSound(o) /\ ListSound(o) /\ ToldSound(o)
                     /\ \A j \in Join : BoundSound(j, o)

\* It holds when the cluster starts.
LEMMA InitClosed == Init => ClosedSound
<1> SUFFICES ASSUME Init, NEW o \in Owner
             PROVE  ShutSound(o) /\ ListSound(o) /\ ToldSound(o) /\ \A j \in Join : BoundSound(j, o)
  BY DEF ClosedSound
<1>1. ShutSound(o) /\ ListSound(o) /\ ToldSound(o)
  BY DEF Init, ShutSound, ListSound, ToldSound, Sends
<1>2. ASSUME NEW j \in Join PROVE BoundSound(j, o)
  BY DEF Init, BoundSound, Held, Ref
<1> QED BY <1>1, <1>2

\* What a step does to the tables of owner o.
TablesStay(o) ==
    /\ \A c \in Conn : current'[o][c] = None \/ current'[o][c] = current[o][c]
    /\ shut'[o] = shut[o]
    /\ \A j \in Join : /\ object'[<<j, o>>] = object[<<j, o>>]
                       /\ Held(j, o)' => Held(j, o)
                       /\ seat'[<<j, o>>] = "joined" => object[<<j, o>>] \notin shut[o]

\* A step that binds no seat and shuts no RemoteConnection.
LEMMA ClosedKept ==
    ASSUME Types, ClosedSound, [Next]_vars, NEW o \in Owner, TablesStay(o)
    PROVE  ShutSound(o)' /\ ListSound(o)' /\ \A j \in Join : BoundSound(j, o)'
<1>1. open' \subseteq open /\ cut \subseteq cut'
  BY Monotone
<1>2. ShutSound(o)'
  BY <1>1 DEF ClosedSound, ShutSound, TablesStay
<1>3. ListSound(o)'
  <2> SUFFICES ASSUME NEW c \in Conn, current'[o][c] # None PROVE ConnOf[current'[o][c]] = c
    BY DEF ListSound
  <2>1. current'[o][c] = current[o][c]
    BY DEF TablesStay
  <2> QED BY <2>1 DEF ClosedSound, ListSound
<1>4. ASSUME NEW j \in Join PROVE BoundSound(j, o)'
  <2>1. /\ object'[<<j, o>>] = object[<<j, o>>] /\ shut'[o] = shut[o]
        /\ Held(j, o)' => Held(j, o)
        /\ seat'[<<j, o>>] = "joined" => object[<<j, o>>] \notin shut[o]
    BY DEF TablesStay
  <2>2. BoundSound(j, o)
    BY DEF ClosedSound
  <2> QED BY <2>1, <2>2 DEF BoundSound
<1> QED BY <1>2, <1>3, <1>4

\* An owner that shuts RemoteConnections of closed connections, or that takes the
\* edge for dead.
LEMMA ShutsClosed ==
    ASSUME Types, ClosedSound, [Next]_vars, NEW o \in Owner, NEW C \in SUBSET Conn, Shuts(o, C),
           <<o, Edge>> \in cut' \/ \A c \in C : c \notin open
    PROVE  ShutSound(o)' /\ ListSound(o)' /\ \A j \in Join : BoundSound(j, o)'
<1>0. open' \subseteq open /\ cut \subseteq cut'
  BY Monotone
<1>1. /\ \A c \in Conn : current'[o][c] = IF c \in C THEN None ELSE current[o][c]
      /\ shut'[o] = shut[o] \cup Listed(o, C) /\ object' = object
      /\ \A j \in Join :
            seat'[<<j, o>>] = IF object[<<j, o>>] \in Listed(o, C) /\ seat[<<j, o>>] = "joined"
                              THEN "gone" ELSE seat[<<j, o>>]
  BY DEF Shuts
<1>2. ListSound(o) /\ ShutSound(o)
  BY DEF ClosedSound
<1>3. ShutSound(o)'
  <2> SUFFICES ASSUME <<o, Edge>> \notin cut', NEW x \in shut'[o] PROVE ConnOf[x] \notin open'
    BY DEF ShutSound
  <2>1. CASE x \in shut[o]
    BY <1>0, <1>2, <2>1 DEF ShutSound
  <2>2. CASE x \in Listed(o, C)
    <3>1. PICK c \in C : x = current[o][c] /\ x # None
      BY <2>2 DEF Listed
    <3>2. ConnOf[x] = c
      BY <1>2, <3>1 DEF ListSound
    <3> QED BY <1>0, <3>2
  <2> QED BY <1>1, <2>1, <2>2
<1>4. ListSound(o)'
  BY <1>1, <1>2 DEF ListSound
<1>5. ASSUME NEW j \in Join PROVE BoundSound(j, o)'
  <2>1. BoundSound(j, o)
    BY DEF ClosedSound
  <2>2. /\ object'[<<j, o>>] = object[<<j, o>>] /\ (Held(j, o)' => Held(j, o))
        /\ seat'[<<j, o>>] = "joined" => seat[<<j, o>>] = "joined" /\ object[<<j, o>>] \notin Listed(o, C)
    BY <1>1 DEF Held
  <2> QED BY <1>1, <2>1, <2>2 DEF BoundSound
<1> QED BY <1>3, <1>4, <1>5

\* An owner that takes a JOIN.
LEMMA TookClosed ==
    ASSUME Types, ClosedSound, [Next]_vars, NEW i \in Join, NEW o \in Owner, Took(i, o)
    PROVE  ShutSound(o)' /\ ListSound(o)' /\ \A j \in Join : BoundSound(j, o)'
<1> DEFINE c == ConnOf[i]
           x == RemoteConnection(o, c, i)
<1>0. c \in Conn /\ open' \subseteq open /\ cut \subseteq cut' /\ i # None
  BY Monotone, ClusterJoinAssumption
<1>1. /\ Becomes(i, o, IF i \in Creates THEN "auth" ELSE "joining")
      /\ object'[<<i, o>>] = x
      /\ \A k \in Join : k # i => object'[<<k, o>>] = object[<<k, o>>]
      /\ current'[o][c] = x
      /\ \A d \in Conn \ {c} : current'[o][d] = current[o][d]
      /\ shut' = shut
  BY DEF Took
<1>2. ListSound(o) /\ ShutSound(o)
  BY DEF ClosedSound
<1>3. x # None /\ ConnOf[x] = c
  BY <1>0, <1>2 DEF RemoteConnection, ListSound
<1> HIDE DEF x, c
<1>4. ShutSound(o)'
  BY <1>0, <1>1, <1>2 DEF ShutSound
<1>5. ListSound(o)'
  BY <1>0, <1>1, <1>2, <1>3 DEF ListSound
<1>6. ASSUME NEW j \in Join PROVE BoundSound(j, o)'
  <2>1. BoundSound(j, o)
    BY DEF ClosedSound
  <2>2. CASE j = i
    <3>1. seat'[<<j, o>>] # "joined"
      BY <1>1, <2>2 DEF Becomes
    <3> QED BY <1>1, <1>3, <2>2, <3>1 DEF BoundSound, c
  <2>3. CASE j # i
    <3>1. seat'[<<j, o>>] = seat[<<j, o>>] /\ object'[<<j, o>>] = object[<<j, o>>]
      BY <1>1, <2>3 DEF Becomes
    <3> QED BY <1>1, <2>1, <3>1 DEF BoundSound, Held
  <2> QED BY <2>2, <2>3
<1> QED BY <1>4, <1>5, <1>6

\* Steps that leave the tables of o alone, or prune its list, or end seats.
LEMMA TablesStayWhen ==
    ASSUME ClosedSound, NEW o \in Owner,
           \A c \in Conn : current'[o][c] = None \/ current'[o][c] = current[o][c],
           shut'[o] = shut[o],
           \A j \in Join : /\ object'[<<j, o>>] = object[<<j, o>>]
                           /\ \/ seat'[<<j, o>>] = seat[<<j, o>>] \/ ~Held(j, o)'
                              \/ seat[<<j, o>>] = "auth" /\ seat'[<<j, o>>] = "joining"
                              \/ /\ seat[<<j, o>>] = "joining"
                                 /\ seat'[<<j, o>>] = IF object[<<j, o>>] \in shut[o] THEN "gone" ELSE "joined"
    PROVE  TablesStay(o)
<1>1. ASSUME NEW j \in Join
      PROVE  /\ Held(j, o)' => Held(j, o)
             /\ seat'[<<j, o>>] = "joined" => object[<<j, o>>] \notin shut[o]
  <2>1. BoundSound(j, o)
    BY DEF ClosedSound
  <2> QED BY <2>1 DEF BoundSound, Held
<1> QED BY <1>1 DEF TablesStay

\* What the edge and the clients do leaves the owners alone.
LEMMA OwnersLeft ==
    ASSUME \/ UNCHANGED vars \/ EdgeCrashes \/ \E c \in Conn : ConnCloses(c)
           \/ \E j \in Join : Ask(j) \/ Locate(j) \/ TimeOut(j) \/ ClientLeaves(j)
           \/ \E o \in Owner : EdgeReceives(o) \/ EdgeDrops(o)
           \/ \E j \in Join, o \in Owner : EdgeLeaves(j, o)
    PROVE  UNCHANGED ownerVars
<1>1. UNCHANGED vars => UNCHANGED ownerVars
  BY DEF vars
<1>2. EdgeCrashes \/ (\E c \in Conn : ConnCloses(c)) => UNCHANGED ownerVars
  BY DEF EdgeCrashes, ConnCloses
<1>3. ASSUME NEW j \in Join
      PROVE  /\ Ask(j) => UNCHANGED ownerVars
             /\ Locate(j) => UNCHANGED ownerVars
             /\ TimeOut(j) => UNCHANGED ownerVars
             /\ ClientLeaves(j) => UNCHANGED ownerVars
  <2>1. Ask(j) => UNCHANGED ownerVars
    BY DEF Ask
  <2>2. Locate(j) => UNCHANGED ownerVars
    BY DEF Locate
  <2>3. TimeOut(j) => UNCHANGED ownerVars
    BY DEF TimeOut
  <2>4. ClientLeaves(j) => UNCHANGED ownerVars
    BY DEF ClientLeaves
  <2> QED BY <2>1, <2>2, <2>3, <2>4
<1>4. ASSUME NEW o \in Owner
      PROVE  /\ EdgeReceives(o) => UNCHANGED ownerVars
             /\ EdgeDrops(o) => UNCHANGED ownerVars
             /\ \A j \in Join : EdgeLeaves(j, o) => UNCHANGED ownerVars
  <2>1. EdgeReceives(o) => UNCHANGED ownerVars
    BY DEF EdgeReceives
  <2>2. EdgeDrops(o) => UNCHANGED ownerVars
    BY DEF EdgeDrops
  <2>3. \A j \in Join : EdgeLeaves(j, o) => UNCHANGED ownerVars
    BY DEF EdgeLeaves
  <2> QED BY <2>1, <2>2, <2>3
<1> HIDE DEF ownerVars
<1> QED BY <1>1, <1>2, <1>3, <1>4

\* Every step keeps the connections sound.
LEMMA ClosedStep == ASSUME Types, EdgeSound, ClosedSound, [Next]_vars PROVE ClosedSound'
<1> SUFFICES ASSUME NEW o \in Owner
             PROVE  /\ ShutSound(o)' /\ ListSound(o)' /\ ToldSound(o)'
                    /\ \A j \in Join : BoundSound(j, o)'
  BY DEF ClosedSound
<1>0. ToldSound(o)'
  <2> SUFFICES ASSUME NEW c \in Conn, Sends(toOwner'[o], "conn", c) PROVE c \notin open'
    BY DEF ToldSound
  <2>1. Sends(toOwner[o], "conn", c) \/ c \notin open'
    BY ConnMessages
  <2>2. open' \subseteq open
    BY Monotone
  <2> QED BY <2>1, <2>2 DEF ClosedSound, ToldSound
<1> DEFINE G == ShutSound(o)' /\ ListSound(o)' /\ \A j \in Join : BoundSound(j, o)'
<1>k. TablesStay(o) => G
  BY ClosedKept
<1>u. (\A j \in Join : object'[<<j, o>>] = object[<<j, o>>] /\ seat'[<<j, o>>] = seat[<<j, o>>])
      /\ (\A c \in Conn : current'[o][c] = current[o][c]) /\ shut'[o] = shut[o] => G
  BY <1>k, TablesStayWhen
<1>v. UNCHANGED ownerVars => G
  <2> HIDE DEF G
  <2> QED BY <1>u DEF ownerVars
<1>1. ASSUME \/ UNCHANGED vars \/ EdgeCrashes \/ \E c \in Conn : ConnCloses(c)
             \/ \E j \in Join : Ask(j) \/ Locate(j) \/ TimeOut(j) \/ ClientLeaves(j)
             \/ \E p \in Owner : EdgeReceives(p) \/ EdgeDrops(p)
             \/ \E j \in Join, p \in Owner : EdgeLeaves(j, p)
      PROVE  G
  <2>1. UNCHANGED ownerVars
    BY <1>1, OwnersLeft
  <2> QED BY <1>v, <2>1
<1>2. ASSUME NEW p \in Owner, OwnerReceives(p) PROVE G
  <2>1. \/ \E i \in Join : \/ Took(i, p) \/ Freed(i, p)
                           \/ \E t \in EdgeKind : TurnedDown(i, p, t)
        \/ \E d \in Conn : Heard(p, d)
    BY <1>2, OwnerReceivesStep
  <2>2. ASSUME NEW i \in Join, Took(i, p) PROVE G
    <3>1. CASE o = p
      BY <2>2, <3>1, TookClosed
    <3>2. CASE o # p
      <4>1. /\ \A j \in Join : object'[<<j, o>>] = object[<<j, o>>] /\ seat'[<<j, o>>] = seat[<<j, o>>]
            /\ current'[o] = current[o] /\ shut' = shut
        BY <2>2, <3>2 DEF Took, Becomes
      <4> HIDE DEF G
      <4> QED BY <1>u, <4>1
    <3> QED BY <3>1, <3>2
  <2>3. ASSUME NEW i \in Join, NEW t \in EdgeKind, TurnedDown(i, p, t) PROVE G
    <3>1. /\ object' = object /\ seat' = seat /\ shut' = shut
          /\ \A c \in Conn : current'[o][c] = None \/ current'[o][c] = current[o][c]
      BY <2>3 DEF TurnedDown, Prunes
    <3> QED BY <1>k, <3>1, TablesStayWhen
  <2>4. ASSUME NEW i \in Join, Freed(i, p) PROVE G
    <3>1. UNCHANGED <<current, object, shut>>
      BY <2>4 DEF Freed
    <3>2. \A j \in Join : seat'[<<j, o>>] = seat[<<j, o>>] \/ ~Held(j, o)'
      BY <2>4 DEF Freed, Becomes, Held
    <3> QED BY <1>k, <3>1, <3>2, TablesStayWhen
  <2>5. ASSUME NEW d \in Conn, Heard(p, d) PROVE G
    <3>1. CASE o = p
      <4>1. Shuts(o, {d}) /\ Sends(toOwner[o], "conn", d)
        BY <2>5, <3>1 DEF Heard, OwnerGets, Popped
      <4>2. d \notin open
        BY <4>1 DEF ClosedSound, ToldSound
      <4> QED BY <4>1, <4>2, ShutsClosed
    <3>2. CASE o # p
      <4>1. Shuts(p, {d})
        BY <2>5 DEF Heard
      <4>2. /\ \A j \in Join : object'[<<j, o>>] = object[<<j, o>>] /\ seat'[<<j, o>>] = seat[<<j, o>>]
            /\ current'[o] = current[o] /\ shut'[o] = shut[o]
        BY <3>2, <4>1 DEF Shuts
      <4> HIDE DEF G
      <4> QED BY <1>u, <4>2
    <3> QED BY <3>1, <3>2
  <2> HIDE DEF G
  <2> QED BY <2>1, <2>2, <2>3, <2>4, <2>5
<1>3. ASSUME NEW p \in Owner, OwnerDrops(p) PROVE G
  <2>1. /\ Shuts(p, Conn)
        /\ Edge \in alive => cut' = cut \cup {<<p, Edge>>}
    BY <1>3, OwnerDropsEffect
  <2>2. CASE o = p
    <3>1. Edge \notin alive => \A c \in Conn : c \notin open
      BY DEF EdgeSound
    <3>2. <<o, Edge>> \in cut' \/ \A c \in Conn : c \notin open
      BY <2>1, <2>2, <3>1
    <3> QED BY <2>1, <2>2, <3>2, ShutsClosed
  <2>3. CASE o # p
    <3>1. /\ \A j \in Join : object'[<<j, o>>] = object[<<j, o>>] /\ seat'[<<j, o>>] = seat[<<j, o>>]
          /\ current'[o] = current[o] /\ shut'[o] = shut[o]
      BY <2>1, <2>3 DEF Shuts
    <3> HIDE DEF G
    <3> QED BY <1>u, <3>1
  <2> QED BY <2>2, <2>3
<1>4. ASSUME NEW p \in Owner, OwnerCrashes(p) PROVE G
  <2>1. UNCHANGED <<current, object, shut>>
    BY <1>4 DEF OwnerCrashes
  <2>2. \A j \in Join : seat'[<<j, o>>] = seat[<<j, o>>] \/ ~Held(j, o)'
    BY <1>4, OwnerCrashesEffect DEF Held
  <2> QED BY <1>k, <2>1, <2>2, TablesStayWhen
<1>5. ASSUME NEW i \in Join, NEW p \in Owner,
             OwnerRefuses(i, p) \/ OwnerCreates(i, p) \/ OwnerSeats(i, p) \/ OwnerKicks(i, p)
      PROVE  G
  <2>1. UNCHANGED <<object, shut>>
    BY <1>5 DEF OwnerRefuses, OwnerCreates, OwnerSeats, OwnerKicks
  <2>2. \A c \in Conn : current'[o][c] = None \/ current'[o][c] = current[o][c]
    <3>1. CASE OwnerRefuses(i, p)
      BY <3>1, OwnerRefusesEffect DEF Prunes
    <3>2. CASE OwnerCreates(i, p) \/ OwnerSeats(i, p) \/ OwnerKicks(i, p)
      BY <3>2 DEF OwnerCreates, OwnerSeats, OwnerKicks
    <3> QED BY <1>5, <3>1, <3>2
  <2>3. ASSUME NEW j \in Join
        PROVE  \/ seat'[<<j, o>>] = seat[<<j, o>>] \/ ~Held(j, o)'
               \/ seat[<<j, o>>] = "auth" /\ seat'[<<j, o>>] = "joining"
               \/ /\ seat[<<j, o>>] = "joining"
                  /\ seat'[<<j, o>>] = IF object[<<j, o>>] \in shut[o] THEN "gone" ELSE "joined"
    <3>1. CASE OwnerRefuses(i, p)
      BY <3>1, OwnerRefusesEffect DEF Becomes, Held
    <3>2. CASE OwnerCreates(i, p)
      BY <3>2, OwnerCreatesEffect DEF Becomes, OwnerCreates
    <3>3. CASE OwnerSeats(i, p)
      BY <3>3, OwnerSeatsEffect DEF Becomes, OwnerSeats
    <3>4. CASE OwnerKicks(i, p)
      BY <3>4, OwnerKicksEffect DEF Becomes, Held
    <3> QED BY <1>5, <3>1, <3>2, <3>3, <3>4
  <2>4. TablesStay(o)
    BY <2>1, <2>2, <2>3, TablesStayWhen
  <2> QED BY <1>k, <2>4
<1>6. G
  <2> HIDE DEF G
  <2> QED BY <1>1, <1>2, <1>3, <1>4, <1>5 DEF Next
<1> QED BY <1>0, <1>6

----------------------------------------------------------------------------
(* Where a route leads. *)

\* A route, or a reply that will become one, leads to a seat, unless its end is on
\* its way, the owner died or took the edge for dead.
Lead(j, o) ==
    o \in alive /\ <<o, Edge>> \notin cut /\ ConnOf[j] \in open
    /\ (<<j, o>> \in route \/ Sends(toEdge[o], "join!", j))
        => seat[<<j, o>>] = "joined" \/ Sends(toEdge[o], "LEAVE", j)

Leads == \A j \in Join, o \in Owner : Lead(j, o)

\* It holds when the cluster starts.
LEMMA InitLeads == Init => Leads
  BY DEF Init, Leads, Lead, Sends

\* A step that keeps the seat, no new route or reply, and the LEAVE.
LEMMA LeadKept ==
    ASSUME Types, [Next]_vars, NEW j \in Join, NEW o \in Owner, Lead(j, o),
           seat[<<j, o>>] = "joined" => seat'[<<j, o>>] = "joined",
           <<j, o>> \in route' \/ Sends(toEdge'[o], "join!", j)
              => ConnOf[j] \notin open' \/ <<j, o>> \in route \/ Sends(toEdge[o], "join!", j),
           Sends(toEdge[o], "LEAVE", j) => Sends(toEdge'[o], "LEAVE", j) \/ ConnOf[j] \notin open'
    PROVE  Lead(j, o)'
<1>1. open' \subseteq open /\ alive' \subseteq alive /\ cut \subseteq cut'
  BY Monotone
<1> QED BY <1>1 DEF Lead

\* The steps of the edge.
LEMMA LeadEdgePart ==
    ASSUME Types, EdgeSound', [Next]_vars, NEW j \in Join, NEW o \in Owner,
           Lead(j, o), Phase(j, o), Still(j, o) \/ EdgePart(j, o)
    PROVE  Lead(j, o)'
<1>k. "join!" \in EdgeKind /\ "LEAVE" \in EdgeKind
  BY DEF EdgeKind
<1>0. EdgeAlike(j, o) => /\ Sends(toEdge'[o], "join!", j) <=> Sends(toEdge[o], "join!", j)
                         /\ Sends(toEdge'[o], "LEAVE", j) <=> Sends(toEdge[o], "LEAVE", j)
  BY <1>k DEF EdgeAlike, Alike
<1>a. ASSUME NEW t, Popped(toEdge[o], toEdge'[o], t, j)
      PROVE  /\ Sends(toEdge'[o], "join!", j) => Sends(toEdge[o], "join!", j)
             /\ t # "LEAVE" => (Sends(toEdge[o], "LEAVE", j) => Sends(toEdge'[o], "LEAVE", j))
  BY <1>a DEF Popped
<1>r. <<j, o>> \in route' => ConnOf[j] \in open' /\ req'[j].st = "ok" /\ req'[j].at = o
  BY DEF EdgeSound, RouteSound
<1>1. CASE Still(j, o)
  BY <1>0, <1>1, LeadKept DEF Still, SeatStays, RouteStays, Closes
<1>2. CASE Asks(j, o)
  BY <1>0, <1>2, LeadKept DEF Asks, SeatStays, RouteStays
<1>3. CASE Goes(j, o)
  BY <1>0, <1>r, <1>3, LeadKept DEF Goes, SeatStays
<1>4. CASE Misses(j, o)
  <2>1. /\ Sends(toEdge'[o], "join!", j) => Sends(toEdge[o], "join!", j)
        /\ Sends(toEdge[o], "LEAVE", j) => Sends(toEdge'[o], "LEAVE", j)
    BY <1>0, <1>a, <1>4 DEF Misses
  <2> QED BY <1>r, <1>4, <2>1, LeadKept DEF Misses, SeatStays
<1>5. CASE Lost(j, o)
  BY <1>0, <1>5, LeadKept DEF Lost, SeatStays
<1>6. CASE Enters(j, o)
  <2>1. Sends(toEdge[o], "join!", j) /\ (Sends(toEdge[o], "LEAVE", j) => Sends(toEdge'[o], "LEAVE", j))
    BY <1>a, <1>6 DEF Enters, Popped
  <2> QED BY <1>6, <2>1, LeadKept DEF Enters, SeatStays
<1>7. CASE Away(j, o) \/ Elsewhere(j, o)
  BY <1>0, <1>7, LeadKept DEF Away, Elsewhere, SeatStays, RouteStays
<1>8. ASSUME NEW t \in EdgeKind, Skips(j, o, t) PROVE Lead(j, o)'
  <2>1. /\ Sends(toEdge'[o], "join!", j) => Sends(toEdge[o], "join!", j)
        /\ t # "LEAVE" => (Sends(toEdge[o], "LEAVE", j) => Sends(toEdge'[o], "LEAVE", j))
        /\ t = "LEAVE" => ConnOf[j] \notin open'
    BY <1>a, <1>8 DEF Skips, EdgeIdle
  <2> QED BY <1>8, <2>1, LeadKept DEF Skips, EdgeIdle, SeatStays, RouteStays
<1>9. CASE HearsLeave(j, o)
  <2>1. Popped(toEdge[o], toEdge'[o], "LEAVE", j) /\ <<j, o>> \notin route'
    BY <1>9 DEF HearsLeave
  <2>2. Before(toEdge[o], "join!", j, "LEAVE", j)
    BY DEF Phase
  <2>3. ~Sends(toEdge'[o], "join!", j)
    BY <2>1, <2>2 DEF Popped
  <2> QED BY <2>1, <2>3 DEF Lead
<1>10. CASE HearsSuccess(j, o)
  BY <1>a, <1>10, LeadKept DEF HearsSuccess, SeatStays, RouteStays
<1>11. CASE EdgeDies(j, o)
  BY <1>11 DEF EdgeDies, Lead
<1> QED BY <1>1, <1>2, <1>3, <1>4, <1>5, <1>6, <1>7, <1>8, <1>9, <1>10, <1>11 DEF EdgePart

\* The steps of the owner.
LEMMA LeadOwnerPart ==
    ASSUME Types, EdgeSound, ClosedSound, ClosedSound', [Next]_vars, NEW j \in Join, NEW o \in Owner,
           Lead(j, o), Phase(j, o), OwnerPart(j, o)
    PROVE  Lead(j, o)'
<1>k. "join!" \in EdgeKind /\ "LEAVE" \in EdgeKind
  BY DEF EdgeKind
<1>0. EdgeAlike(j, o) => /\ Sends(toEdge'[o], "join!", j) <=> Sends(toEdge[o], "join!", j)
                         /\ Sends(toEdge'[o], "LEAVE", j) <=> Sends(toEdge[o], "LEAVE", j)
  BY <1>k DEF EdgeAlike, Alike
<1>m. open' \subseteq open /\ alive' \subseteq alive /\ cut \subseteq cut'
  BY Monotone
<1>r. <<j, o>> \in route => req[j].st = "ok" /\ req[j].at = o
  BY DEF EdgeSound, RouteSound
<1>n. Asked(j, o) \/ Trying(j, o) => <<j, o>> \notin route /\ ~Sends(toEdge[o], "join!", j)
  BY <1>k, <1>r DEF Phase, Silent
<1>c. /\ BoundSound(j, o) /\ BoundSound(j, o)' /\ ShutSound(o) /\ ShutSound(o)'
  BY DEF ClosedSound
<1>1. CASE Takes(j, o)
  <2>1. Asked(j, o) /\ EdgeAlike(j, o) /\ RouteStays(j, o)
    BY <1>1 DEF Takes, Popped, Asked, EdgeIdle
  <2> QED BY <1>0, <1>n, <2>1 DEF Lead, RouteStays
<1>2. CASE Declines(j, o)
  <2>1. Asked(j, o) /\ RouteStays(j, o)
    BY <1>2 DEF Declines, Popped, Asked, EdgeIdle
  <2>2. ~Sends(toEdge'[o], "join!", j)
    BY <1>2, <1>n, <2>1 DEF Declines, Grown
  <2> QED BY <1>n, <2>1, <2>2 DEF Lead, RouteStays
<1>3. CASE Fails(j, o)
  <2>1. Trying(j, o) /\ RouteStays(j, o)
    BY <1>3 DEF Fails, Trying, EdgeIdle
  <2>2. ~Sends(toEdge'[o], "join!", j)
    BY <1>3, <1>n, <2>1 DEF Fails, Grown
  <2> QED BY <1>n, <2>1, <2>2 DEF Lead, RouteStays
<1>4. CASE Opens(j, o)
  <2>1. Trying(j, o) /\ RouteStays(j, o) /\ EdgeAlike(j, o)
    BY <1>4 DEF Opens, Trying, EdgeIdle
  <2> QED BY <1>0, <1>n, <2>1 DEF Lead, RouteStays
<1>5. CASE Fills(j, o)
  <2>1. CASE object[<<j, o>>] \in shut[o]
    <3>1. seat[<<j, o>>] = "joining"
      BY <1>5 DEF Fills
    <3>2. ConnOf[object[<<j, o>>]] = ConnOf[j]
      BY <1>c, <3>1 DEF BoundSound, Held
    <3>3. <<o, Edge>> \in cut \/ ConnOf[j] \notin open
      BY <1>c, <2>1, <3>2 DEF ShutSound
    <3> QED BY <1>m, <3>3 DEF Lead
  <2>2. CASE object[<<j, o>>] \notin shut[o]
    BY <1>5, <2>2 DEF Fills, Lead
  <2> QED BY <2>1, <2>2
<1>6. CASE Ends(j, o)
  <2>1. Grown(toEdge[o], toEdge'[o], "LEAVE", Framed(j, o)) /\ seat[<<j, o>>] = "joined"
    BY <1>6 DEF Ends
  <2>2. Framed(j, o) = {j}
    BY <1>c, <2>1 DEF BoundSound, Framed
  <2>3. Sends(toEdge'[o], "LEAVE", j)
    BY <2>1, <2>2 DEF Grown
  <2> QED BY <2>3 DEF Lead
<1>7. CASE Shuttered(j, o)
  <2>1. /\ object'[<<j, o>>] = object[<<j, o>>] /\ object[<<j, o>>] \in shut'[o]
        /\ seat[<<j, o>>] = "joined"
    BY <1>7 DEF Shuttered
  <2>2. ConnOf[object'[<<j, o>>]] = ConnOf[j]
    BY <1>c, <2>1 DEF BoundSound, Held
  <2>3. <<o, Edge>> \in cut' \/ ConnOf[j] \notin open'
    BY <1>c, <2>1, <2>2 DEF ShutSound
  <2> QED BY <2>3 DEF Lead
<1>8. CASE OwnerDies(j, o)
  BY <1>8 DEF OwnerDies, Lead
<1> QED BY <1>1, <1>2, <1>3, <1>4, <1>5, <1>6, <1>7, <1>8 DEF OwnerPart

\* What holds in every cluster.
ClusterSound == Types /\ EdgeSound /\ PhasesSound /\ ClosedSound /\ Leads

\* It holds when the cluster starts.
LEMMA ClusterSoundInit == Init => ClusterSound
  BY InitTypes, InitEdgeSound, InitPhases, InitClosed, InitLeads DEF ClusterSound

\* Every step keeps it.
LEMMA ClusterSoundStep == ASSUME ClusterSound, [Next]_vars PROVE ClusterSound'
<1>1. Types' /\ EdgeSound' /\ PhasesSound' /\ ClosedSound'
  BY TypesStep, EdgeSoundStep, PhasesStep, ClosedStep DEF ClusterSound
<1>2. ASSUME NEW j \in Join, NEW o \in Owner PROVE Lead(j, o)'
  <2>1. Lead(j, o) /\ Phase(j, o) /\ Part(j, o)
    BY StepParts DEF ClusterSound, Leads, PhasesSound
  <2> QED BY <1>1, <2>1, LeadEdgePart, LeadOwnerPart DEF ClusterSound, Part
<1>3. Leads'
  BY <1>2 DEF Leads
<1> QED BY <1>1, <1>3 DEF ClusterSound

\* The routes of the edge are sound.
LEMMA ClusterSoundRoutes == ClusterSound => OneRoute /\ RouteLeads
<1> SUFFICES ASSUME ClusterSound PROVE OneRoute /\ RouteLeads
  OBVIOUS
<1>0. \A x \in route : x = <<x[1], x[2]>> /\ x[1] \in Join /\ x[2] \in Owner
  BY DEF ClusterSound, Types, EdgeTypes, Ref
<1>1. \A j \in Join, o \in Owner : <<j, o>> \in route => ConnOf[j] \in open /\ req[j].at = o
  BY DEF ClusterSound, EdgeSound, RouteSound
<1>2. OneRoute
  BY <1>0, <1>1 DEF OneRoute
<1>3. RouteLeads
  <2> SUFFICES ASSUME NEW x \in route, x[2] \in alive, <<x[2], Edge>> \notin cut
               PROVE  seat[x] = "joined" \/ Sends(toEdge[x[2]], "LEAVE", x[1])
    BY DEF RouteLeads
  <2>1. /\ x = <<x[1], x[2]>> /\ x[1] \in Join /\ x[2] \in Owner
        /\ Lead(x[1], x[2]) /\ ConnOf[x[1]] \in open
    BY <1>0, <1>1 DEF ClusterSound, Leads
  <2> QED BY <2>1 DEF Lead
<1> QED BY <1>2, <1>3

\* Whatever crashes, times out or is dropped, the edge routes the frames of a join
\* to one owner at most (`_createElsewhere` tries several), and that owner has the
\* seat or has sent the LEAVE that ends the route; unless it died or took the edge
\* for dead.
THEOREM RoutesLead == Spec => [](OneRoute /\ RouteLeads)
<1>1. Init => ClusterSound
  BY ClusterSoundInit
<1>2. ClusterSound /\ [Next]_vars => ClusterSound'
  BY ClusterSoundStep
<1>3. ClusterSound => OneRoute /\ RouteLeads
  BY ClusterSoundRoutes
<1> QED BY <1>1, <1>2, <1>3, PTL DEF Spec

----------------------------------------------------------------------------
(* Clients and routes. *)

\* No join that creates a room times out.  (Of two owners that both were asked to
\* create it, both may then seat the client, and the edge routes to the second.)
NoCreatingTimeOut == Creates \cap MayTimeOut = {}

\* A client that waits is only answered by the owner its join is at, and hears of
\* its seat when the edge has the route.
Waits(j, o) ==
    client[j] = "asked" /\ <<Edge, o>> \notin cut =>
        /\ o \in alive /\ (Asked(j, o) \/ Trying(j, o)) => req[j].at = o
        /\ Sends(toEdge[o], "join!", j) \/ Sends(toEdge[o], "JOIN_SUCCESS", j) => req[j].at = o
        /\ Sends(toEdge[o], "JOIN_SUCCESS", j) /\ ~Sends(toEdge[o], "join!", j) => <<j, o>> \in route

\* A client that is in a room at o is routed to it.
Routed(j, o) ==
    client[j] = "joined" /\ using[j] = o /\ <<Edge, o>> \notin cut => <<j, o>> \in route

ClientsSound == \A j \in Join, o \in Owner : Waits(j, o) /\ Routed(j, o)

\* It holds when the cluster starts.
LEMMA InitClients == Init => ClientsSound
  BY DEF Init, ClientsSound, Waits, Routed

\* A step that sends no answer and leaves the routes alone.
LEMMA WaitsKept ==
    ASSUME Types, [Next]_vars, NEW j \in Join, NEW o \in Owner, Waits(j, o),
           client'[j] = "asked" => client[j] = "asked",
           Asked(j, o)' \/ Trying(j, o)' => Asked(j, o) \/ Trying(j, o),
           Sends(toEdge'[o], "join!", j) <=> Sends(toEdge[o], "join!", j),
           Sends(toEdge'[o], "JOIN_SUCCESS", j) => Sends(toEdge[o], "JOIN_SUCCESS", j),
           client'[j] = "asked" => req'[j] = req[j] /\ (<<j, o>> \in route => <<j, o>> \in route')
    PROVE  Waits(j, o)'
<1>1. alive' \subseteq alive /\ cut \subseteq cut'
  BY Monotone
<1> QED BY <1>1 DEF Waits

\* A step that keeps the route of a client in a room.
LEMMA RoutedKept ==
    ASSUME Types, [Next]_vars, NEW j \in Join, NEW o \in Owner, Routed(j, o),
           client'[j] = "joined" => client[j] = "joined" /\ using'[j] = using[j],
           client'[j] = "joined" /\ using[j] = o /\ <<j, o>> \in route => <<j, o>> \in route'
    PROVE  Routed(j, o)'
<1>1. cut \subseteq cut'
  BY Monotone
<1> QED BY <1>1 DEF Routed

\* The steps of the edge.
LEMMA ClientEdgePart ==
    ASSUME NoCreatingTimeOut, Types, EdgeSound, EdgeSound', [Next]_vars, NEW j \in Join, NEW o \in Owner,
           Waits(j, o), Routed(j, o), Phase(j, o), Still(j, o) \/ EdgePart(j, o)
    PROVE  Waits(j, o)' /\ Routed(j, o)'
<1>k. /\ "join!" \in EdgeKind /\ "JOIN_SUCCESS" \in EdgeKind /\ "LEAVE" \in EdgeKind
      /\ "refused" \in EdgeKind /\ "failed" \in EdgeKind
  BY DEF EdgeKind
<1>0. EdgeAlike(j, o) => /\ Sends(toEdge'[o], "join!", j) <=> Sends(toEdge[o], "join!", j)
                         /\ Sends(toEdge'[o], "JOIN_SUCCESS", j) <=> Sends(toEdge[o], "JOIN_SUCCESS", j)
  BY <1>k DEF EdgeAlike, Alike
<1>q. OwnerAlike(j, o) => (Asked(j, o)' <=> Asked(j, o))
  BY DEF OwnerAlike, Alike, Asked
<1>s. SeatStays(j, o) => (Trying(j, o)' <=> Trying(j, o))
  BY DEF SeatStays, Trying
<1>m. open' \subseteq open /\ alive' \subseteq alive /\ cut \subseteq cut'
  BY Monotone
<1>r. /\ RequestSound(j) /\ RequestSound(j)' /\ RouteSound(j, o) /\ RouteSound(j, o)' /\ o # None
  BY ClusterJoinAssumption DEF EdgeSound
<1>f. ClientFades(j) => /\ client'[j] \in {"asked", "joined"} => client'[j] = client[j]
                        /\ using'[j] = using[j]
  BY DEF ClientFades
<1>1. CASE Still(j, o)
  <2>1. /\ EdgeAlike(j, o) /\ OwnerAlike(j, o) /\ SeatStays(j, o) /\ req'[j] = req[j]
        /\ ClientFades(j) /\ (RouteStays(j, o) \/ ConnOf[j] \notin open')
    BY <1>1 DEF Still, Closes
  <2>2. client'[j] \in {"asked", "joined"} => (<<j, o>> \in route => <<j, o>> \in route')
    BY <1>r, <2>1 DEF RouteStays, RequestSound
  <2>3. Waits(j, o)'
    BY <1>0, <1>q, <1>s, <1>f, <2>1, <2>2, WaitsKept
  <2>4. Routed(j, o)'
    BY <1>f, <2>1, <2>2, RoutedKept
  <2> QED BY <2>3, <2>4
<1>2. CASE Asks(j, o)
  <2>1. /\ EdgeAlike(j, o) /\ OwnerAlike(j, o) /\ SeatStays(j, o) /\ req[j].tried = {}
        /\ client'[j] = "asked"
    BY <1>2 DEF Asks
  <2>2. Silent(j, o) /\ ~Asked(j, o) /\ ~Trying(j, o)
    BY <2>1 DEF Phase, Trying
  <2>3. /\ ~Sends(toEdge'[o], "join!", j) /\ ~Sends(toEdge'[o], "JOIN_SUCCESS", j)
        /\ ~Asked(j, o)' /\ ~Trying(j, o)'
    BY <1>0, <1>k, <1>q, <1>s, <2>1, <2>2 DEF Silent
  <2> QED BY <2>1, <2>3 DEF Waits, Routed
<1>3. CASE Goes(j, o)
  <2>1. /\ EdgeAlike(j, o) /\ ClientFades(j) /\ o \notin req[j].tried /\ req'[j].at = o
        /\ req[j].st # "ok"
    BY <1>3 DEF Goes
  <2>2. Silent(j, o)
    BY <2>1 DEF Phase
  <2>3. ~Sends(toEdge'[o], "join!", j) /\ ~Sends(toEdge'[o], "JOIN_SUCCESS", j)
    BY <1>0, <1>k, <2>1, <2>2 DEF Silent
  <2>4. <<j, o>> \notin route
    BY <1>r, <2>1 DEF RouteSound
  <2>5. Routed(j, o)'
    BY <1>f, <2>1, <2>4, RoutedKept
  <2> QED BY <2>1, <2>3, <2>5 DEF Waits
<1>4. CASE Misses(j, o)
  <2>1. /\ OwnerAlike(j, o) /\ SeatStays(j, o) /\ ClientFades(j) /\ req[j].st # "ok" /\ req'[j].at # o
    BY <1>4 DEF Misses
  <2>2. <<j, o>> \notin route
    BY <1>r, <2>1 DEF RouteSound
  <2>3. Routed(j, o)'
    BY <1>f, <2>1, <2>2, RoutedKept
  <2>4. Waits(j, o)'
    <3> SUFFICES ASSUME client'[j] = "asked", <<Edge, o>> \notin cut'
                 PROVE  /\ ~(o \in alive' /\ (Asked(j, o)' \/ Trying(j, o)'))
                        /\ ~Sends(toEdge'[o], "join!", j) /\ ~Sends(toEdge'[o], "JOIN_SUCCESS", j)
      BY DEF Waits
    <3>1. client[j] = "asked" /\ <<Edge, o>> \notin cut
      BY <1>f, <1>m, <2>1
    <3>2. ASSUME EdgeAlike(j, o), req[j].at # o
          PROVE  /\ ~(o \in alive' /\ (Asked(j, o)' \/ Trying(j, o)'))
                 /\ ~Sends(toEdge'[o], "join!", j) /\ ~Sends(toEdge'[o], "JOIN_SUCCESS", j)
      BY <1>0, <1>m, <1>q, <1>s, <2>1, <3>1, <3>2 DEF Waits
    <3>3. ~(j \in MayTimeOut /\ (client'[j] = "asked" => j \in Creates))
      BY DEF NoCreatingTimeOut
    <3>4. ASSUME NEW t \in {"refused", "failed"}, Popped(toEdge[o], toEdge'[o], t, j)
          PROVE  /\ ~(o \in alive' /\ (Asked(j, o)' \/ Trying(j, o)'))
                 /\ ~Sends(toEdge'[o], "join!", j) /\ ~Sends(toEdge'[o], "JOIN_SUCCESS", j)
      <4>1. Sends(toEdge[o], t, j)
        BY <3>4 DEF Popped
      <4>2. ~Silent(j, o)
        BY <1>k, <3>4, <4>1 DEF Silent
      <4>3. ~Asked(j, o) /\ ~Trying(j, o) /\ ~Sends(toEdge[o], "join!", j) /\ ~Sends(toEdge[o], "JOIN_SUCCESS", j)
        BY <4>1, <4>2 DEF Phase
      <4> QED BY <1>q, <1>s, <2>1, <3>4, <4>3 DEF Popped
    <3>5. ASSUME EdgeAlike(j, o), o \in alive => <<Edge, o>> \in cut',
                 o \notin alive => \A t \in EdgeKind : ~Sends(toEdge[o], t, j)
          PROVE  /\ ~(o \in alive' /\ (Asked(j, o)' \/ Trying(j, o)'))
                 /\ ~Sends(toEdge'[o], "join!", j) /\ ~Sends(toEdge'[o], "JOIN_SUCCESS", j)
      BY <1>0, <1>k, <1>m, <3>5
    <3> QED BY <1>4, <3>2, <3>3, <3>4, <3>5 DEF Misses
  <2> QED BY <2>3, <2>4
<1>5. CASE Lost(j, o)
  <2>1. /\ EdgeAlike(j, o) /\ ClientFades(j)
        /\ client[j] = "joined" /\ using[j] = o /\ <<j, o>> \in route => client'[j] = "left"
        /\ o \in alive => <<Edge, o>> \in cut'
        /\ o \notin alive => \A t \in EdgeKind : ~Sends(toEdge[o], t, j)
    BY <1>5 DEF Lost
  <2>2. Routed(j, o)'
    BY <1>f, <2>1, RoutedKept
  <2>3. Waits(j, o)'
    BY <1>0, <1>k, <1>m, <2>1 DEF Waits
  <2> QED BY <2>2, <2>3
<1>6. CASE Enters(j, o)
  <2>1. /\ Popped(toEdge[o], toEdge'[o], "join!", j) /\ req[j].st = "waiting" /\ req'[j].at = o
        /\ client'[j] = client[j] /\ using'[j] = using[j]
        /\ ConnOf[j] \in open => <<j, o>> \in route'
    BY <1>6 DEF Enters
  <2>2. <<j, o>> \notin route
    BY <1>r, <2>1 DEF RouteSound
  <2>3. Routed(j, o)'
    BY <2>1, <2>2, RoutedKept
  <2>4. client'[j] = "asked" => <<j, o>> \in route'
    BY <1>r, <2>1 DEF RequestSound
  <2> QED BY <2>1, <2>3, <2>4 DEF Waits
<1>7. CASE Away(j, o)
  <2>1. /\ EdgeAlike(j, o) /\ OwnerAlike(j, o) /\ SeatStays(j, o) /\ RouteStays(j, o)
        /\ req[j].at # o /\ client'[j] = client[j] /\ using'[j] = using[j]
    BY <1>7 DEF Away
  <2>2. Routed(j, o)'
    BY <2>1, RoutedKept DEF RouteStays
  <2>3. Waits(j, o)'
    BY <1>0, <1>m, <1>q, <1>s, <2>1 DEF Waits
  <2> QED BY <2>2, <2>3
<1>8. CASE Elsewhere(j, o)
  BY <1>8 DEF Elsewhere, Waits, Routed
<1>9. ASSUME NEW t \in EdgeKind, Skips(j, o, t) PROVE Waits(j, o)' /\ Routed(j, o)'
  <2>1. /\ Popped(toEdge[o], toEdge'[o], t, j) /\ OwnerAlike(j, o) /\ SeatStays(j, o)
        /\ req'[j] = req[j] /\ RouteStays(j, o) /\ client'[j] = client[j] /\ using'[j] = using[j]
        /\ t = "join!" => ~(req[j].st = "waiting" /\ req[j].at = o)
        /\ t \in {"JOIN_SUCCESS", "LEAVE"} => ConnOf[j] \notin open
    BY <1>9 DEF Skips, EdgeIdle
  <2>2. Routed(j, o)'
    BY <2>1, RoutedKept DEF RouteStays
  <2>3. Sends(toEdge[o], t, j)
    BY <2>1 DEF Popped
  <2>4. CASE client[j] # "asked" \/ <<Edge, o>> \in cut
    BY <1>m, <2>1, <2>2, <2>4 DEF Waits
  <2>5. CASE client[j] = "asked" /\ <<Edge, o>> \notin cut
    <3>1. t # "join!"
      <4> SUFFICES ASSUME t = "join!" PROVE FALSE
        OBVIOUS
      <4>1. req[j].at = o
        BY <2>3, <2>5 DEF Waits
      <4>2. req[j].st = "ok"
        BY <1>r, <2>1, <4>1 DEF RequestSound
      <4> QED BY <2>3, <4>1, <4>2 DEF Phase
    <3>2. /\ Sends(toEdge'[o], "join!", j) <=> Sends(toEdge[o], "join!", j)
          /\ Sends(toEdge'[o], "JOIN_SUCCESS", j) => Sends(toEdge[o], "JOIN_SUCCESS", j)
      BY <2>1, <3>1 DEF Popped
    <3>3. Waits(j, o)'
      BY <1>q, <1>s, <2>1, <3>2, WaitsKept DEF RouteStays
    <3> QED BY <2>2, <3>3
  <2> QED BY <2>4, <2>5
<1>10. CASE HearsLeave(j, o)
  <2>1. /\ Popped(toEdge[o], toEdge'[o], "LEAVE", j) /\ OwnerAlike(j, o) /\ SeatStays(j, o)
        /\ req'[j] = req[j] /\ ClientFades(j)
        /\ client[j] = "joined" /\ using[j] = o => client'[j] = "left"
    BY <1>10 DEF HearsLeave
  <2>2. Routed(j, o)'
    BY <1>f, <2>1, RoutedKept
  <2>3. Before(toEdge[o], "join!", j, "LEAVE", j) /\ Before(toEdge[o], "JOIN_SUCCESS", j, "LEAVE", j)
    BY DEF Phase
  <2>4. ~Sends(toEdge'[o], "join!", j) /\ ~Sends(toEdge'[o], "JOIN_SUCCESS", j)
    BY <2>1, <2>3 DEF Popped
  <2>5. Waits(j, o)'
    BY <1>f, <1>m, <1>q, <1>s, <2>1, <2>4 DEF Waits
  <2> QED BY <2>2, <2>5
<1>11. CASE HearsSuccess(j, o)
  <2>1. /\ Popped(toEdge[o], toEdge'[o], "JOIN_SUCCESS", j) /\ OwnerAlike(j, o) /\ SeatStays(j, o)
        /\ req'[j] = req[j] /\ RouteStays(j, o)
        /\ client[j] = "asked" => client'[j] = "joined"
        /\ client[j] # "asked" => client'[j] = client[j] /\ using'[j] = using[j]
    BY <1>11 DEF HearsSuccess
  <2>2. client'[j] # "asked"
    BY <2>1
  <2>3. CASE client[j] = "asked"
    <3>1. Before(toEdge[o], "join!", j, "JOIN_SUCCESS", j)
      BY DEF Phase
    <3>2. Sends(toEdge[o], "JOIN_SUCCESS", j) /\ ~Sends(toEdge[o], "join!", j)
      BY <2>1, <3>1 DEF Popped
    <3>3. <<Edge, o>> \notin cut => <<j, o>> \in route'
      BY <2>1, <2>3, <3>2 DEF Waits, RouteStays
    <3> QED BY <1>m, <2>2, <3>3 DEF Waits, Routed
  <2>4. CASE client[j] # "asked"
    <3>1. Routed(j, o)'
      BY <2>1, <2>4, RoutedKept DEF RouteStays
    <3> QED BY <2>2, <3>1 DEF Waits
  <2> QED BY <2>3, <2>4
<1>12. CASE EdgeDies(j, o)
  BY <1>12 DEF EdgeDies, Waits, Routed
<1> QED BY <1>1, <1>2, <1>3, <1>4, <1>5, <1>6, <1>7, <1>8, <1>9, <1>10, <1>11, <1>12 DEF EdgePart

\* The steps of the owner.
LEMMA ClientOwnerPart ==
    ASSUME Types, [Next]_vars, NEW j \in Join, NEW o \in Owner,
           Waits(j, o), Routed(j, o), Phase(j, o), OwnerPart(j, o)
    PROVE  Waits(j, o)' /\ Routed(j, o)'
<1>k. "join!" \in EdgeKind /\ "JOIN_SUCCESS" \in EdgeKind
  BY DEF EdgeKind
<1>0. EdgeAlike(j, o) => /\ Sends(toEdge'[o], "join!", j) <=> Sends(toEdge[o], "join!", j)
                         /\ Sends(toEdge'[o], "JOIN_SUCCESS", j) <=> Sends(toEdge[o], "JOIN_SUCCESS", j)
  BY <1>k DEF EdgeAlike, Alike
<1>q. OwnerAlike(j, o) => (Asked(j, o)' <=> Asked(j, o))
  BY DEF OwnerAlike, Alike, Asked
<1>m. alive' \subseteq alive /\ cut \subseteq cut'
  BY Monotone
<1>i. EdgeIdle(j, o) => /\ req'[j] = req[j] /\ client'[j] = client[j] /\ using'[j] = using[j]
                        /\ (<<j, o>> \in route => <<j, o>> \in route')
  BY DEF EdgeIdle, RouteStays
<1>d. EdgeIdle(j, o) => Routed(j, o)'
  BY <1>i, RoutedKept
<1>1. CASE Takes(j, o)
  <2>1. EdgeAlike(j, o) /\ EdgeIdle(j, o) /\ Asked(j, o) /\ o \in alive
    BY <1>1 DEF Takes, Popped, Asked
  <2>2. ~Sends(toEdge'[o], "join!", j) /\ ~Sends(toEdge'[o], "JOIN_SUCCESS", j)
    BY <1>0, <1>k, <2>1 DEF Phase, Silent
  <2> QED BY <1>d, <1>i, <1>m, <2>1, <2>2 DEF Waits
<1>2. CASE Declines(j, o)
  <2>1. EdgeIdle(j, o) /\ Asked(j, o) /\ SeatStays(j, o)
    BY <1>2 DEF Declines, Popped, Asked
  <2>2. ~Sends(toEdge[o], "join!", j) /\ ~Sends(toEdge[o], "JOIN_SUCCESS", j) /\ ~Trying(j, o)
    BY <1>k, <2>1 DEF Phase, Silent, Trying
  <2>3. ~Sends(toEdge'[o], "join!", j) /\ ~Sends(toEdge'[o], "JOIN_SUCCESS", j)
    BY <1>2, <2>2 DEF Declines, Grown
  <2>4. Waits(j, o)'
    BY <1>i, <2>1, <2>2, <2>3, WaitsKept DEF SeatStays, Trying
  <2> QED BY <1>d, <2>1, <2>4
<1>3. CASE Fails(j, o)
  <2>1. EdgeIdle(j, o) /\ OwnerAlike(j, o) /\ Trying(j, o) /\ ~Trying(j, o)'
    BY <1>3 DEF Fails, Trying
  <2>2. ~Sends(toEdge[o], "join!", j) /\ ~Sends(toEdge[o], "JOIN_SUCCESS", j)
    BY <1>k, <2>1 DEF Phase, Silent
  <2>3. ~Sends(toEdge'[o], "join!", j) /\ ~Sends(toEdge'[o], "JOIN_SUCCESS", j)
    BY <1>3, <2>2 DEF Fails, Grown
  <2>4. Waits(j, o)'
    BY <1>i, <1>q, <2>1, <2>2, <2>3, WaitsKept
  <2> QED BY <1>d, <2>1, <2>4
<1>4. CASE Opens(j, o)
  <2>1. EdgeIdle(j, o) /\ OwnerAlike(j, o) /\ EdgeAlike(j, o) /\ Trying(j, o)
    BY <1>4 DEF Opens, Trying
  <2>2. Waits(j, o)'
    BY <1>0, <1>i, <1>q, <2>1, WaitsKept
  <2> QED BY <1>d, <2>1, <2>2
<1>5. CASE Fills(j, o)
  <2>1. /\ EdgeIdle(j, o) /\ OwnerAlike(j, o) /\ Trying(j, o) /\ o \in alive
        /\ seat'[<<j, o>>] \in {"joined", "gone"}
    BY <1>5 DEF Fills, Trying
  <2>2. ~Trying(j, o)' /\ ~Asked(j, o)
    BY <2>1 DEF Trying, Phase
  <2>3. Sends(toEdge'[o], "join!", j)
    BY <1>5 DEF Fills, Grown
  <2>4. Waits(j, o)'
    BY <1>i, <1>m, <1>q, <2>1, <2>2, <2>3 DEF Waits
  <2> QED BY <1>d, <2>1, <2>4
<1>6. CASE Ends(j, o)
  <2>1. EdgeIdle(j, o) /\ OwnerAlike(j, o) /\ ~Trying(j, o)'
    BY <1>6 DEF Ends, Trying
  <2>2. /\ Sends(toEdge'[o], "join!", j) <=> Sends(toEdge[o], "join!", j)
        /\ Sends(toEdge'[o], "JOIN_SUCCESS", j) <=> Sends(toEdge[o], "JOIN_SUCCESS", j)
    BY <1>6 DEF Ends, Grown
  <2>3. Waits(j, o)'
    BY <1>i, <1>q, <2>1, <2>2, WaitsKept
  <2> QED BY <1>d, <2>1, <2>3
<1>7. CASE Shuttered(j, o)
  <2>1. /\ EdgeAlike(j, o) /\ OwnerAlike(j, o) /\ req'[j] = req[j] /\ RouteStays(j, o)
        /\ client'[j] \in {"asked", "joined"} => client'[j] = client[j]
        /\ using'[j] = using[j] /\ ~Trying(j, o)'
    BY <1>7 DEF Shuttered, Trying, ClientFades
  <2>2. Waits(j, o)'
    BY <1>0, <1>q, <2>1, WaitsKept DEF RouteStays
  <2>3. Routed(j, o)'
    BY <2>1, RoutedKept DEF RouteStays
  <2> QED BY <2>2, <2>3
<1>8. CASE OwnerDies(j, o)
  <2>1. EdgeIdle(j, o) /\ EdgeAlike(j, o) /\ ~Trying(j, o)' /\ ~Asked(j, o)'
    BY <1>8 DEF OwnerDies, Trying, Asked
  <2>2. Waits(j, o)'
    BY <1>0, <1>i, <2>1, WaitsKept
  <2> QED BY <1>d, <2>1, <2>2
<1> QED BY <1>1, <1>2, <1>3, <1>4, <1>5, <1>6, <1>7, <1>8 DEF OwnerPart

\* Every step keeps the clients sound.
LEMMA ClientsStep ==
    ASSUME NoCreatingTimeOut, ClusterSound, ClientsSound, [Next]_vars PROVE ClientsSound'
<1> SUFFICES ASSUME NEW j \in Join, NEW o \in Owner PROVE Waits(j, o)' /\ Routed(j, o)'
  BY DEF ClientsSound
<1>1. /\ Types /\ EdgeSound /\ EdgeSound' /\ Phase(j, o) /\ Waits(j, o) /\ Routed(j, o) /\ Part(j, o)
  BY ClusterSoundStep, StepParts DEF ClusterSound, ClientsSound, PhasesSound
<1> QED BY <1>1, ClientEdgePart, ClientOwnerPart DEF Part

\* Clients in a room have a route.
LEMMA ClientsAreRouted == Types /\ ClientsSound => ClientRouted
  BY DEF Types, ClientTypes, ClientsSound, Routed, ClientRouted

\* A client in a room on another process is routed to it, as long as the edge does
\* not take that process for dead: the reply that makes the route (`forwardJoin`)
\* reaches the edge before the JOIN_SUCCESS that tells the client.  No join that
\* creates a room may time out; see NoCreatingTimeOut.
THEOREM ClientsRouted == NoCreatingTimeOut => (Spec => []ClientRouted)
<1> SUFFICES ASSUME NoCreatingTimeOut PROVE Spec => []ClientRouted
  OBVIOUS
<1> DEFINE Inv == ClusterSound /\ ClientsSound
<1>1. Init => Inv
  BY ClusterSoundInit, InitClients
<1>2. Inv /\ [Next]_vars => Inv'
  BY ClusterSoundStep, ClientsStep
<1>3. Inv => ClientRouted
  BY ClientsAreRouted DEF ClusterSound
<1> HIDE DEF Inv
<1> QED BY <1>1, <1>2, <1>3, PTL DEF Spec

----------------------------------------------------------------------------
(* The RemoteConnections that an owner lists. *)

\* A join that creates a room, or that is forwarded after its connection closed,
\* is the only join of its connection.
Alone == \A j \in Creates \cup Late, i \in Join : ConnOf[i] = ConnOf[j] => i = j

\* The owner lists the RemoteConnection of every join that it holds, while that is
\* open.  A plain join is sent before the end of its connection is; once a
\* RemoteConnection of its connection is shut, none is listed any more and no join
\* is on its way.
Ordered(j, o) == Plain(j) => Before(toOwner[o], "join?", j, "conn", ConnOf[j])
ListedAt(j, o) ==
    /\ seat[<<j, o>>] = "auth" => j \in Creates
    /\ <<o, Edge>> \notin cut =>
          /\ Held(j, o) /\ object[<<j, o>>] \notin shut[o] => current[o][ConnOf[j]] = object[<<j, o>>]
          /\ Plain(j) => \A x \in shut[o] : ConnOf[x] = ConnOf[j]
                            => current[o][ConnOf[j]] = None /\ ~Asked(j, o)

ListedSound == \A j \in Join, o \in Owner : Ordered(j, o) /\ ListedAt(j, o)

\* It holds when the cluster starts.
LEMMA InitListed == Init => ListedSound
<1> SUFFICES ASSUME Init, NEW j \in Join, NEW o \in Owner PROVE Ordered(j, o) /\ ListedAt(j, o)
  BY DEF ListedSound
<1>1. /\ toOwner[o] = <<>> /\ seat[<<j, o>>] = "none" /\ shut[o] = {}
  BY DEF Init, Ref
<1> QED BY <1>1 DEF Ordered, ListedAt, Before, Held

\* A plain join is forwarded only while its connection is open, and so before its
\* end is told.
LEMMA OrderedStep ==
    ASSUME ClusterSound, [Next]_vars, NEW j \in Join, NEW o \in Owner, Ordered(j, o)
    PROVE  Ordered(j, o)' /\ (Plain(j) /\ Asked(j, o)' => Asked(j, o) \/ ConnOf[j] \in open)
<1> DEFINE P == Ordered(j, o)' /\ (Plain(j) /\ Asked(j, o)' => Asked(j, o) \/ ConnOf[j] \in open)
<1> SUFFICES P
  OBVIOUS
<1>t. Types /\ EdgeSound /\ ToldSound(o) /\ ConnOf[j] \in Conn
  BY ClusterJoinAssumption DEF ClusterSound, ClosedSound
<1>0. toOwner'[o] = toOwner[o] => P
  BY DEF Ordered, Asked
<1>a. ASSUME NEW u, NEW J, u # "join?" \/ j \notin J, Grown(toOwner[o], toOwner'[o], u, J) PROVE P
  BY <1>a DEF Grown, Ordered, Asked
<1>b. ASSUME NEW u, NEW i, Popped(toOwner[o], toOwner'[o], u, i) PROVE P
  BY <1>b DEF Popped, Ordered, Asked
<1>m. ASSUME NEW W, NEW next, MoveStep(W, next), ~Plain(j) \/ j \notin W \/ next[j] # o \/ ConnOf[j] \in open
      PROVE P
  <2>1. Grown(toOwner[o], toOwner'[o], "join?", {k \in W : next[k] = o})
    BY <1>m DEF MoveStep, Moves
  <2>2. CASE ~Plain(j)
    BY <2>2 DEF Ordered
  <2>3. CASE j \notin W \/ next[j] # o
    <3>1. j \notin {k \in W : next[k] = o}
      BY <2>3
    <3> HIDE DEF P
    <3> QED BY <1>a, <2>1, <3>1
  <2>4. CASE ConnOf[j] \in open
    <3>1. ~Sends(toOwner[o], "conn", ConnOf[j])
      BY <1>t, <2>4 DEF ToldSound
    <3>2. Plain(j) => Before(toOwner'[o], "join?", j, "conn", ConnOf[j])
      BY <2>1, <3>1 DEF Grown, Ordered
    <3> QED BY <2>4, <3>2 DEF Ordered
  <2> HIDE DEF P
  <2> QED BY <1>m, <2>2, <2>3, <2>4
<1>g. ASSUME NEW p \in Owner, NEW u, NEW i, OwnerGets(p, u, i) PROVE P
  <2> HIDE DEF P
  <2>1. CASE o = p
    BY <1>b, <1>g, <2>1 DEF OwnerGets
  <2>2. CASE o # p
    BY <1>0, <1>g, <2>2 DEF OwnerGets
  <2> QED BY <2>1, <2>2
<1>1. CASE EdgeCrashes \/ UNCHANGED vars
  BY <1>0, <1>1 DEF EdgeCrashes, vars
<1>2. ASSUME NEW d \in Conn, ConnCloses(d) PROVE P
  <2>1. Grown(toOwner[o], toOwner'[o], "conn", IF o \in owners[d] THEN {d} ELSE {})
    BY <1>t, <1>2, ConnClosesTypes
  <2> HIDE DEF P
  <2> QED BY <1>a, <2>1
<1>3. ASSUME NEW i \in Join, Ask(i) \/ ClientLeaves(i) PROVE P
  BY <1>0, <1>3 DEF Ask, ClientLeaves
<1>4. ASSUME NEW i \in Join, Locate(i) \/ TimeOut(i) PROVE P
  <2>1. PICK next : Located(i, next) \/ TimedOut(i, next)
    BY <1>t, <1>4, LocateStep, TimeOutStep
  <2>2. MoveStep({i}, next) /\ (next[i] # None => ConnOf[i] \in open \/ ~Plain(i))
    BY <2>1 DEF Located, TimedOut, Plain
  <2>3. ~Plain(j) \/ j \notin {i} \/ next[j] # o \/ ConnOf[j] \in open
    BY <2>2, ClusterJoinAssumption
  <2> HIDE DEF P
  <2> QED BY <1>m, <2>2, <2>3
<1>5. ASSUME NEW p \in Owner, EdgeReceives(p) PROVE P
  <2>1. PICK i \in Join, t \in EdgeKind :
          \/ Seated(i, p) \/ Ignored(i, p, t) \/ RelayedLeave(i, p) \/ RelayedSuccess(i, p)
          \/ \E next : Refused(i, p, t, next)
    BY <1>t, <1>5, EdgeReceivesStep
  <2>2. CASE Seated(i, p)
    <3>1. CASE ConnOf[i] \in open
      BY <1>0, <2>2, <3>1 DEF Seated
    <3>2. CASE ConnOf[i] \notin open
      <4>1. EdgePuts(p, "conn", {ConnOf[i]})
        BY <2>2, <3>2 DEF Seated
      <4> HIDE DEF P
      <4>2. CASE o = p
        BY <1>a, <4>1, <4>2 DEF EdgePuts
      <4>3. CASE o # p
        BY <1>0, <4>1, <4>3 DEF EdgePuts
      <4> QED BY <4>2, <4>3
    <3> QED BY <3>1, <3>2
  <2>3. CASE Ignored(i, p, t) \/ RelayedLeave(i, p) \/ RelayedSuccess(i, p)
    BY <1>0, <2>3 DEF Ignored, RelayedLeave, RelayedSuccess
  <2>4. ASSUME NEW next, Refused(i, p, t, next) PROVE P
    <3>1. MoveStep({i}, next) /\ (next[i] # None => i \in Creates)
      BY <2>4 DEF Refused
    <3>2. ~Plain(j) \/ j \notin {i} \/ next[j] # o
      BY <3>1, ClusterJoinAssumption DEF Plain
    <3> HIDE DEF P
    <3> QED BY <1>m, <3>1, <3>2
  <2> QED BY <2>1, <2>2, <2>3, <2>4
<1>6. ASSUME NEW p \in Owner, OwnerReceives(p) PROVE P
  <2>1. PICK u, i : OwnerGets(p, u, i)
    BY <1>t, <1>6, OwnerReceivesStep DEF Took, Freed, TurnedDown, Heard
  <2> HIDE DEF P
  <2> QED BY <1>g, <2>1
<1>7. ASSUME NEW p \in Owner, EdgeDrops(p) PROVE P
  <2>1. PICK next : Dropped(p, next)
    BY <1>t, <1>7, EdgeDropsStep
  <2>2. /\ MoveStep(WaitingAt(p), next)
        /\ \A k \in WaitingAt(p) : next[k] # None => k \in Creates
    BY <2>1 DEF Dropped
  <2>3. ~Plain(j) \/ j \notin WaitingAt(p) \/ next[j] # o
    BY <2>2, ClusterJoinAssumption DEF Plain
  <2> HIDE DEF P
  <2> QED BY <1>m, <2>2, <2>3
<1>8. ASSUME NEW p \in Owner, OwnerDrops(p) PROVE P
  BY <1>0, <1>8 DEF OwnerDrops
<1>9. ASSUME NEW p \in Owner, OwnerCrashes(p) PROVE P
  <2>1. CASE o = p
    BY <1>t, <1>9, <2>1, OwnerCrashesEffect DEF Ordered, Asked
  <2>2. CASE o # p
    BY <1>0, <1>t, <1>9, <2>2, OwnerCrashesEffect
  <2> QED BY <2>1, <2>2
<1>10. ASSUME NEW i \in Join, NEW p \in Owner, EdgeLeaves(i, p) PROVE P
  <2>1. PICK J : EdgePuts(p, "leave", J)
    BY <1>t, <1>10, EdgeLeavesTypes
  <2> HIDE DEF P
  <2>2. CASE o = p
    BY <1>a, <2>1, <2>2 DEF EdgePuts
  <2>3. CASE o # p
    BY <1>0, <2>1, <2>3 DEF EdgePuts
  <2> QED BY <2>2, <2>3
<1>11. ASSUME NEW i \in Join, NEW p \in Owner,
              OwnerRefuses(i, p) \/ OwnerCreates(i, p) \/ OwnerSeats(i, p) \/ OwnerKicks(i, p)
       PROVE  P
  BY <1>0, <1>11 DEF OwnerRefuses, OwnerCreates, OwnerSeats, OwnerKicks
<1> HIDE DEF P
<1> QED BY <1>1, <1>2, <1>3, <1>4, <1>5, <1>6, <1>7, <1>8, <1>9, <1>10, <1>11 DEF Next

\* A step that binds no seat, shuts no RemoteConnection and lists what was listed.
LEMMA ListedKept ==
    ASSUME ClusterSound, ListedSound, [Next]_vars, NEW j \in Join, NEW o \in Owner,
           current'[o][ConnOf[j]] = current[o][ConnOf[j]], shut'[o] = shut[o],
           object'[<<j, o>>] = object[<<j, o>>],
           Held(j, o)' => Held(j, o), seat'[<<j, o>>] = "auth" => seat[<<j, o>>] = "auth"
    PROVE  ListedAt(j, o)'
<1>1. ListedAt(j, o) /\ Ordered(j, o) /\ ShutSound(o) /\ Types
  BY DEF ListedSound, ClusterSound, ClosedSound
<1>2. cut \subseteq cut'
  BY <1>1, Monotone
<1>3. Plain(j) /\ Asked(j, o)' => Asked(j, o) \/ ConnOf[j] \in open
  BY <1>1, OrderedStep
<1>4. ASSUME <<o, Edge>> \notin cut', Plain(j), NEW x \in shut'[o], ConnOf[x] = ConnOf[j]
      PROVE  current'[o][ConnOf[j]] = None /\ ~Asked(j, o)'
  <2>1. <<o, Edge>> \notin cut /\ x \in shut[o]
    BY <1>2, <1>4
  <2>2. ConnOf[j] \notin open
    BY <1>1, <1>4, <2>1 DEF ShutSound
  <2>3. current[o][ConnOf[j]] = None /\ ~Asked(j, o)
    BY <1>1, <1>4, <2>1 DEF ListedAt
  <2> QED BY <1>3, <1>4, <2>2, <2>3
<1> QED BY <1>1, <1>2, <1>4 DEF ListedAt

\* A join that an owner takes.
LEMMA ListedTook ==
    ASSUME Alone, ClusterSound, ListedSound, [Next]_vars, NEW i \in Join, NEW o \in Owner, Took(i, o),
           NEW j \in Join
    PROVE  ListedAt(j, o)'
<1> DEFINE c == ConnOf[j]
           x == RemoteConnection(o, ConnOf[i], i)
<1>0. /\ ListedAt(j, o) /\ ListedAt(i, o) /\ BoundSound(j, o) /\ Types /\ c \in Conn /\ ConnOf[i] \in Conn
      /\ Phase(j, o) /\ i # None
  BY ClusterJoinAssumption DEF ListedSound, ClusterSound, ClosedSound, PhasesSound
<1>1. /\ seat'[<<i, o>>] = IF i \in Creates THEN "auth" ELSE "joining"
      /\ object'[<<i, o>>] = x
      /\ j # i => object'[<<j, o>>] = object[<<j, o>>] /\ seat'[<<j, o>>] = seat[<<j, o>>]
      /\ current'[o][ConnOf[i]] = x
      /\ \A d \in Conn \ {ConnOf[i]} : current'[o][d] = current[o][d]
      /\ shut' = shut /\ cut' = cut /\ Asked(i, o)
      /\ Popped(toOwner[o], toOwner'[o], "join?", i)
  BY DEF Took, Becomes, OwnerGets, Popped, Asked
<1>2. CASE c # ConnOf[i]
  <2>1. j # i
    BY <1>2
  <2>2. /\ object'[<<j, o>>] = object[<<j, o>>] /\ seat'[<<j, o>>] = seat[<<j, o>>]
        /\ current'[o][ConnOf[j]] = current[o][ConnOf[j]] /\ shut'[o] = shut[o]
    BY <1>0, <1>1, <1>2, <2>1
  <2> QED BY <2>2, ListedKept DEF Held
<1>3. CASE c = ConnOf[i]
  <2>1. seat'[<<j, o>>] = "auth" => j \in Creates
    <3>1. CASE j = i
      BY <1>1, <3>1
    <3>2. CASE j # i
      BY <1>0, <1>1, <3>2 DEF ListedAt
    <3> QED BY <3>1, <3>2
  <2>2. ASSUME <<o, Edge>> \notin cut, Held(j, o)', object'[<<j, o>>] \notin shut'[o]
        PROVE  current'[o][c] = object'[<<j, o>>]
    <3>1. CASE j = i
      BY <1>1, <3>1
    <3>2. CASE j # i
      <4>1. Held(j, o) /\ object[<<j, o>>] \notin shut[o]
        BY <1>1, <2>2, <3>2 DEF Held
      <4>2. current[o][c] = object[<<j, o>>] /\ object[<<j, o>>] # None
        BY <1>0, <2>2, <4>1 DEF ListedAt, BoundSound
      <4>3. x = current[o][c]
        BY <1>3, <4>2 DEF RemoteConnection
      <4> QED BY <1>1, <1>3, <3>2, <4>2, <4>3
    <3> QED BY <3>1, <3>2
  <2>3. ASSUME <<o, Edge>> \notin cut, Plain(j), NEW y \in shut'[o], ConnOf[y] = c
        PROVE  FALSE
    <3>1. Plain(i)
      <4>1. i \in Creates \cup Late => j = i
        BY <1>3 DEF Alone
      <4> QED BY <2>3, <4>1 DEF Plain
    <3>2. ~Asked(i, o)
      BY <1>0, <1>1, <1>3, <2>3, <3>1 DEF ListedAt
    <3> QED BY <1>1, <3>2
  <2>4. cut' = cut
    BY <1>1
  <2> QED BY <2>1, <2>2, <2>3, <2>4 DEF ListedAt
<1> QED BY <1>2, <1>3

\* A RemoteConnection that is pruned is shut, or has no seat.
LEMMA ListedPruned ==
    ASSUME ClusterSound, ListedSound, [Next]_vars, NEW i \in Join, NEW o \in Owner, NEW x, NEW s,
           Prunes(o, ConnOf[i], x, s), shut'[o] = shut[o], cut' = cut, NEW j \in Join,
           object'[<<j, o>>] = object[<<j, o>>],
           Held(j, o)' => Held(j, o), seat'[<<j, o>>] = "auth" => seat[<<j, o>>] = "auth",
           <<o, Edge>> \notin cut /\ ConnOf[j] = ConnOf[i] /\ Held(j, o)' /\ object[<<j, o>>] \notin shut[o]
              => SeatsOn(x, o, s) # {}
    PROVE  ListedAt(j, o)'
<1>0. ConnOf[j] \in Conn /\ ConnOf[i] \in Conn /\ ListedAt(j, o) /\ ShutSound(o) /\ Ordered(j, o)
  BY ClusterJoinAssumption DEF ListedSound, ClusterSound, ClosedSound
<1>1. CASE current'[o][ConnOf[j]] = current[o][ConnOf[j]]
  BY <1>1, ListedKept
<1>2. CASE current'[o][ConnOf[j]] # current[o][ConnOf[j]]
  <2>1. ConnOf[j] = ConnOf[i] /\ current'[o][ConnOf[j]] = None /\ SeatsOn(x, o, s) = {}
    BY <1>0, <1>2 DEF Prunes
  <2>2. ASSUME <<o, Edge>> \notin cut', Held(j, o)', object'[<<j, o>>] \notin shut'[o] PROVE FALSE
    BY <2>1, <2>2
  <2>3. ASSUME <<o, Edge>> \notin cut', Plain(j), NEW y \in shut'[o], ConnOf[y] = ConnOf[j]
        PROVE  ~Asked(j, o)'
    <3>1. ~Asked(j, o) /\ ConnOf[j] \notin open
      BY <1>0, <2>3 DEF ListedAt, ShutSound
    <3>2. Plain(j) /\ Asked(j, o)' => Asked(j, o) \/ ConnOf[j] \in open
      BY <1>0, OrderedStep
    <3> QED BY <2>3, <3>1, <3>2
  <2>4. seat'[<<j, o>>] = "auth" => j \in Creates
    BY <1>0 DEF ListedAt
  <2> QED BY <2>1, <2>2, <2>3, <2>4 DEF ListedAt
<1> QED BY <1>1, <1>2

\* A JOIN that an owner turns down.
LEMMA ListedTurnedDown ==
    ASSUME Alone, ClusterSound, ListedSound, [Next]_vars, NEW i \in Join, NEW o \in Owner, NEW t,
           TurnedDown(i, o, t), NEW j \in Join
    PROVE  ListedAt(j, o)'
<1> DEFINE x == RemoteConnection(o, ConnOf[i], i)
<1>0. /\ ListedAt(j, o) /\ BoundSound(j, o) /\ Phase(i, o)
  BY DEF ListedSound, ClusterSound, ClosedSound, PhasesSound
<1>1. /\ UNCHANGED <<seat, object, shut, cut>> /\ Prunes(o, ConnOf[i], x, seat) /\ Asked(i, o)
  BY DEF TurnedDown, OwnerGets, Popped, Asked
<1>2. ASSUME <<o, Edge>> \notin cut, ConnOf[j] = ConnOf[i], Held(j, o), object[<<j, o>>] \notin shut[o]
      PROVE  SeatsOn(x, o, seat) # {}
  <2>1. j # i
    BY <1>0, <1>1, <1>2 DEF Phase, Held
  <2>2. current[o][ConnOf[i]] = object[<<j, o>>] /\ object[<<j, o>>] # None
    BY <1>0, <1>2 DEF ListedAt, BoundSound
  <2>3. x = object[<<j, o>>]
    BY <2>2 DEF RemoteConnection
  <2>4. seat[<<j, o>>] \in {"joining", "joined"}
    <3>1. seat[<<j, o>>] = "auth" => i = j
      BY <1>0, <1>2 DEF ListedAt, Alone
    <3> QED BY <1>2, <2>1, <3>1 DEF Held
  <2>5. j \in SeatsOn(x, o, seat)
    BY <2>3, <2>4 DEF SeatsOn
  <2> QED BY <2>5
<1>3. Held(j, o)' = Held(j, o)
  BY <1>1 DEF Held
<1> HIDE DEF x
<1> QED BY <1>1, <1>2, <1>3, ListedPruned

\* A join at an owner that comes to nothing.
LEMMA ListedRefused ==
    ASSUME Alone, ClusterSound, ListedSound, [Next]_vars, NEW i \in Join, NEW o \in Owner,
           OwnerRefuses(i, o), NEW j \in Join
    PROVE  ListedAt(j, o)'
<1> DEFINE x == object[<<i, o>>]
<1>0. /\ ListedAt(j, o) /\ ListedAt(i, o) /\ BoundSound(j, o) /\ BoundSound(i, o) /\ Types
  BY DEF ListedSound, ClusterSound, ClosedSound
<1>1. /\ UNCHANGED <<object, shut, cut>> /\ Prunes(o, ConnOf[i], x, seat') /\ Becomes(i, o, "none")
      /\ seat[<<i, o>>] \in {"auth", "joining"}
  BY <1>0, OwnerRefusesEffect DEF OwnerRefuses, procVars
<1>2. Held(i, o) /\ x # None /\ ConnOf[x] = ConnOf[i]
  BY <1>0, <1>1 DEF Held, BoundSound
<1>3. /\ Held(j, o)' => Held(j, o) /\ j # i
      /\ j # i => seat'[<<j, o>>] = seat[<<j, o>>]
      /\ seat'[<<j, o>>] = "auth" => seat[<<j, o>>] = "auth"
  BY <1>1 DEF Held, Becomes
<1>4. ASSUME <<o, Edge>> \notin cut, ConnOf[j] = ConnOf[i], Held(j, o)', object[<<j, o>>] \notin shut[o]
      PROVE  SeatsOn(x, o, seat') # {}
  <2>1. j # i /\ Held(j, o)
    BY <1>3, <1>4
  <2>2. j \notin Creates \cup Late
    BY <1>4, <2>1 DEF Alone
  <2>3. current[o][ConnOf[j]] = object[<<j, o>>] /\ object[<<j, o>>] # None
    BY <1>0, <1>4, <2>1 DEF ListedAt, BoundSound
  <2>4. x \notin shut[o]
    BY <1>0, <1>2, <1>4, <2>2, <2>3 DEF ListedAt, Plain
  <2>5. x = object[<<j, o>>]
    BY <1>0, <1>2, <1>4, <2>3, <2>4 DEF ListedAt
  <2>6. seat'[<<j, o>>] \in {"joining", "joined"}
    BY <1>0, <1>3, <2>1, <2>2 DEF ListedAt, Held
  <2>7. object[<<j, o>>] = x /\ seat'[<<j, o>>] \in {"joining", "joined"}
    BY <2>5, <2>6
  <2> HIDE DEF x
  <2>8. j \in SeatsOn(x, o, seat')
    BY <2>7 DEF SeatsOn
  <2> QED BY <2>8
<1> HIDE DEF x
<1> QED BY <1>1, <1>3, <1>4, ListedPruned

\* An owner that shuts all it lists for the connections of C.
LEMMA ListedShuts ==
    ASSUME ClusterSound, ListedSound, [Next]_vars, NEW o \in Owner, NEW C \in SUBSET Conn, Shuts(o, C),
           NEW j \in Join,
           <<o, Edge>> \notin cut' /\ Plain(j) /\ ConnOf[j] \in C => ~Asked(j, o)'
    PROVE  ListedAt(j, o)'
<1>0. /\ ListedAt(j, o) /\ BoundSound(j, o) /\ ListSound(o) /\ ShutSound(o) /\ Ordered(j, o)
      /\ Types /\ ConnOf[j] \in Conn
  BY ClusterJoinAssumption DEF ListedSound, ClusterSound, ClosedSound
<1>1. /\ current'[o][ConnOf[j]] = IF ConnOf[j] \in C THEN None ELSE current[o][ConnOf[j]]
      /\ shut'[o] = shut[o] \cup Listed(o, C) /\ object' = object
      /\ seat'[<<j, o>>] = IF object[<<j, o>>] \in Listed(o, C) /\ seat[<<j, o>>] = "joined"
                           THEN "gone" ELSE seat[<<j, o>>]
  BY <1>0 DEF Shuts
<1>2. cut \subseteq cut'
  BY <1>0, Monotone
<1>3. Held(j, o)' => Held(j, o)
  BY <1>1 DEF Held
<1>4. seat'[<<j, o>>] = "auth" => j \in Creates
  BY <1>0, <1>1 DEF ListedAt
<1>5. ASSUME <<o, Edge>> \notin cut', Held(j, o)', object'[<<j, o>>] \notin shut'[o]
      PROVE  current'[o][ConnOf[j]] = object'[<<j, o>>]
  <2>1. current[o][ConnOf[j]] = object[<<j, o>>] /\ object[<<j, o>>] # None
    BY <1>0, <1>1, <1>2, <1>3, <1>5 DEF ListedAt, BoundSound
  <2>2. ConnOf[j] \notin C
    <3>1. ConnOf[j] \in C => object[<<j, o>>] \in Listed(o, C)
      BY <2>1 DEF Listed
    <3> QED BY <1>1, <1>5, <3>1
  <2> QED BY <1>1, <2>1, <2>2
<1>6. ASSUME <<o, Edge>> \notin cut', Plain(j), NEW y \in shut'[o], ConnOf[y] = ConnOf[j]
      PROVE  current'[o][ConnOf[j]] = None /\ ~Asked(j, o)'
  <2>1. CASE ConnOf[j] \in C
    BY <1>1, <1>6, <2>1
  <2>2. CASE ConnOf[j] \notin C
    <3>1. y \in shut[o]
      <4>1. ASSUME y \in Listed(o, C) PROVE FALSE
        <5>1. PICK c \in C : y = current[o][c] /\ y # None
          BY <4>1 DEF Listed
        <5>2. ConnOf[y] = c
          BY <1>0, <5>1 DEF ListSound
        <5> QED BY <1>6, <2>2, <5>1, <5>2
      <4> QED BY <1>1, <4>1
    <3>2. current[o][ConnOf[j]] = None /\ ~Asked(j, o) /\ ConnOf[j] \notin open
      BY <1>0, <1>2, <1>6, <3>1 DEF ListedAt, ShutSound
    <3>3. Plain(j) /\ Asked(j, o)' => Asked(j, o) \/ ConnOf[j] \in open
      BY <1>0, OrderedStep
    <3> QED BY <1>1, <1>6, <2>2, <3>2, <3>3
  <2> QED BY <2>1, <2>2
<1> QED BY <1>4, <1>5, <1>6 DEF ListedAt

\* Every step keeps the lists of the owners sound.
LEMMA ListedStep ==
    ASSUME Alone, ClusterSound, ListedSound, [Next]_vars PROVE ListedSound'
<1> SUFFICES ASSUME NEW j \in Join, NEW o \in Owner PROVE Ordered(j, o)' /\ ListedAt(j, o)'
  BY DEF ListedSound
<1>0. Types /\ EdgeSound /\ Ordered(j, o) /\ ConnOf[j] \in Conn
  BY ClusterJoinAssumption DEF ClusterSound, ListedSound
<1>o. Ordered(j, o)'
  BY <1>0, OrderedStep
<1> DEFINE G == ListedAt(j, o)'
<1>k. /\ current'[o] = current[o] /\ shut'[o] = shut[o] /\ object'[<<j, o>>] = object[<<j, o>>]
      /\ Held(j, o)' => Held(j, o)
      /\ seat'[<<j, o>>] = "auth" => seat[<<j, o>>] = "auth"
      => G
  BY ListedKept
<1>u. /\ current'[o] = current[o] /\ shut'[o] = shut[o] /\ object'[<<j, o>>] = object[<<j, o>>]
      /\ seat'[<<j, o>>] = seat[<<j, o>>]
      => G
  BY <1>k DEF Held
<1>1. ASSUME \/ UNCHANGED vars \/ EdgeCrashes \/ \E c \in Conn : ConnCloses(c)
             \/ \E i \in Join : Ask(i) \/ Locate(i) \/ TimeOut(i) \/ ClientLeaves(i)
             \/ \E p \in Owner : EdgeReceives(p) \/ EdgeDrops(p)
             \/ \E i \in Join, p \in Owner : EdgeLeaves(i, p)
      PROVE  G
  <2>1. UNCHANGED ownerVars
    BY <1>1, OwnersLeft
  <2> HIDE DEF G
  <2> QED BY <1>u, <2>1 DEF ownerVars
<1>2. ASSUME NEW p \in Owner, OwnerReceives(p) PROVE G
  <2>1. \/ \E i \in Join : \/ Took(i, p) \/ Freed(i, p)
                           \/ \E t \in EdgeKind : TurnedDown(i, p, t)
        \/ \E d \in Conn : Heard(p, d)
    BY <1>0, <1>2, OwnerReceivesStep
  <2>2. ASSUME NEW i \in Join, Took(i, p) PROVE G
    <3>1. CASE o = p
      BY <2>2, <3>1, ListedTook
    <3>2. CASE o # p
      <4>1. /\ object'[<<j, o>>] = object[<<j, o>>] /\ seat'[<<j, o>>] = seat[<<j, o>>]
            /\ current'[o] = current[o] /\ shut' = shut
        BY <2>2, <3>2 DEF Took, Becomes
      <4> HIDE DEF G
      <4> QED BY <1>u, <4>1
    <3> QED BY <3>1, <3>2
  <2>3. ASSUME NEW i \in Join, NEW t \in EdgeKind, TurnedDown(i, p, t) PROVE G
    <3>1. CASE o = p
      BY <2>3, <3>1, ListedTurnedDown
    <3>2. CASE o # p
      <4>1. UNCHANGED <<object, seat, shut>> /\ current'[o] = current[o]
        BY <2>3, <3>2 DEF TurnedDown, Prunes
      <4> HIDE DEF G
      <4> QED BY <1>u, <4>1
    <3> QED BY <3>1, <3>2
  <2>4. ASSUME NEW i \in Join, Freed(i, p) PROVE G
    <3>1. UNCHANGED <<current, object, shut>>
      BY <2>4 DEF Freed
    <3>2. (Held(j, o)' => Held(j, o)) /\ (seat'[<<j, o>>] = "auth" => seat[<<j, o>>] = "auth")
      BY <2>4 DEF Freed, Becomes, Held
    <3> HIDE DEF G
    <3> QED BY <1>k, <3>1, <3>2
  <2>5. ASSUME NEW d \in Conn, Heard(p, d) PROVE G
    <3>0. Shuts(p, {d})
      BY <2>5 DEF Heard
    <3>1. CASE o = p
      <4>1. Popped(toOwner[o], toOwner'[o], "conn", d)
        BY <2>5, <3>1 DEF Heard, OwnerGets
      <4>2. Plain(j) /\ ConnOf[j] = d => ~Asked(j, o)'
        BY <1>0, <4>1 DEF Popped, Ordered, Asked
      <4>3. Shuts(o, {d}) /\ {d} \in SUBSET Conn
        BY <3>0, <3>1
      <4>4. <<o, Edge>> \notin cut' /\ Plain(j) /\ ConnOf[j] \in {d} => ~Asked(j, o)'
        BY <4>2
      <4> QED BY <4>3, <4>4, ListedShuts
    <3>2. CASE o # p
      <4>1. /\ object'[<<j, o>>] = object[<<j, o>>] /\ seat'[<<j, o>>] = seat[<<j, o>>]
            /\ current'[o] = current[o] /\ shut'[o] = shut[o]
        BY <3>0, <3>2 DEF Shuts
      <4> HIDE DEF G
      <4> QED BY <1>u, <4>1
    <3> QED BY <3>1, <3>2
  <2> HIDE DEF G
  <2> QED BY <2>1, <2>2, <2>3, <2>4, <2>5
<1>3. ASSUME NEW p \in Owner, OwnerDrops(p) PROVE G
  <2>1. /\ Shuts(p, Conn) /\ toOwner' = toOwner
        /\ Edge \in alive => cut' = cut \cup {<<p, Edge>>}
        /\ Edge \notin alive => \A t, i : ~Sends(toOwner[p], t, i)
    BY <1>0, <1>3, OwnerDropsEffect DEF OwnerDrops
  <2>2. CASE o = p
    <3>1. <<o, Edge>> \notin cut' => ~Asked(j, o)'
      BY <2>1, <2>2 DEF Asked
    <3> QED BY <2>1, <2>2, <3>1, ListedShuts
  <2>3. CASE o # p
    <3>1. /\ object'[<<j, o>>] = object[<<j, o>>] /\ seat'[<<j, o>>] = seat[<<j, o>>]
          /\ current'[o] = current[o] /\ shut'[o] = shut[o]
      BY <2>1, <2>3 DEF Shuts
    <3> HIDE DEF G
    <3> QED BY <1>u, <3>1
  <2> QED BY <2>2, <2>3
<1>4. ASSUME NEW p \in Owner, OwnerCrashes(p) PROVE G
  <2>1. UNCHANGED <<current, object, shut>>
    BY <1>4 DEF OwnerCrashes
  <2>2. (Held(j, o)' => Held(j, o)) /\ (seat'[<<j, o>>] = "auth" => seat[<<j, o>>] = "auth")
    BY <1>0, <1>4, OwnerCrashesEffect DEF Held
  <2> HIDE DEF G
  <2> QED BY <1>k, <2>1, <2>2
<1>5. ASSUME NEW i \in Join, NEW p \in Owner, OwnerRefuses(i, p) PROVE G
  <2>1. CASE o = p
    BY <1>5, <2>1, ListedRefused
  <2>2. CASE o # p
    <3>1. UNCHANGED <<object, shut>> /\ current'[o] = current[o] /\ seat'[<<j, o>>] = seat[<<j, o>>]
      <4>1. /\ Prunes(p, ConnOf[i], object[<<i, p>>], seat') /\ Becomes(i, p, "none")
            /\ UNCHANGED <<object, shut>>
        BY <1>0, <1>5, OwnerRefusesEffect DEF OwnerRefuses
      <4> QED BY <2>2, <4>1 DEF Prunes, Becomes
    <3> HIDE DEF G
    <3> QED BY <1>u, <3>1
  <2> QED BY <2>1, <2>2
<1>6. ASSUME NEW i \in Join, NEW p \in Owner,
             OwnerCreates(i, p) \/ OwnerSeats(i, p) \/ OwnerKicks(i, p)
      PROVE  G
  <2>1. UNCHANGED <<current, object, shut>>
    BY <1>6 DEF OwnerCreates, OwnerSeats, OwnerKicks
  <2>2. (Held(j, o)' => Held(j, o)) /\ (seat'[<<j, o>>] = "auth" => seat[<<j, o>>] = "auth")
    <3>1. CASE OwnerCreates(i, p)
      BY <1>0, <3>1, OwnerCreatesEffect DEF Becomes, OwnerCreates, Held
    <3>2. CASE OwnerSeats(i, p)
      BY <1>0, <3>2, OwnerSeatsEffect DEF Becomes, OwnerSeats, Held
    <3>3. CASE OwnerKicks(i, p)
      BY <1>0, <3>3, OwnerKicksEffect DEF Becomes, Held
    <3> QED BY <1>6, <3>1, <3>2, <3>3
  <2> HIDE DEF G
  <2> QED BY <1>k, <2>1, <2>2
<1>7. G
  <2> HIDE DEF G
  <2> QED BY <1>1, <1>2, <1>3, <1>4, <1>5, <1>6 DEF Next
<1> QED BY <1>o, <1>7

----------------------------------------------------------------------------
(* The seats that an owner fills. *)

\* SeatRouted at one owner.
Filled(j, o) ==
    o \in alive /\ seat[<<j, o>>] = "joined" /\ Edge \in alive /\ Kept(j, o) =>
        \/ <<j, o>> \in route \/ Sends(toEdge[o], "join!", j) \/ Sends(toOwner[o], "conn", ConnOf[j])

FilledSound == \A j \in Join, o \in Owner : Filled(j, o)

\* It holds when the cluster starts.
LEMMA InitFilled == Init => FilledSound
  BY DEF Init, FilledSound, Filled, Ref

\* An owner that hears that a connection closed ends every seat it filled for it.
LEMMA HeardEnds ==
    ASSUME ClusterSound, ListedSound, NEW j \in Join, NEW o \in Owner, Heard(o, ConnOf[j]),
           <<o, Edge>> \notin cut, seat[<<j, o>>] = "joined"
    PROVE  seat'[<<j, o>>] = "gone"
<1>0. ListedAt(j, o) /\ BoundSound(j, o)
  BY DEF ClusterSound, ClosedSound, ListedSound
<1>1. object[<<j, o>>] # None /\ object[<<j, o>>] \notin shut[o]
  BY <1>0 DEF BoundSound, Held
<1>2. current[o][ConnOf[j]] = object[<<j, o>>]
  BY <1>0, <1>1 DEF ListedAt, Held
<1>3. object[<<j, o>>] \in Listed(o, {ConnOf[j]})
  BY <1>1, <1>2 DEF Listed
<1>4. Shuts(o, {ConnOf[j]})
  BY DEF Heard
<1> QED BY <1>3, <1>4 DEF Shuts

\* A step that fills no seat, and that loses neither the route nor the reply but
\* for one another or for the end of the connection.
LEMMA FilledKept ==
    ASSUME ClusterSound, ListedSound, [Next]_vars, NEW j \in Join, NEW o \in Owner, Filled(j, o),
           seat'[<<j, o>>] = "joined" => seat[<<j, o>>] = "joined",
           req'[j].at = o => req[j].at = o,
           <<j, o>> \in route => <<j, o>> \in route' \/ Sends(toOwner'[o], "conn", ConnOf[j]),
           Sends(toEdge[o], "join!", j)
              => \/ Sends(toEdge'[o], "join!", j) \/ <<j, o>> \in route'
                 \/ Sends(toOwner'[o], "conn", ConnOf[j])
    PROVE  Filled(j, o)'
<1> SUFFICES ASSUME o \in alive', seat'[<<j, o>>] = "joined", Edge \in alive', Kept(j, o)'
             PROVE  \/ <<j, o>> \in route' \/ Sends(toEdge'[o], "join!", j)
                    \/ Sends(toOwner'[o], "conn", ConnOf[j])
  BY DEF Filled
<1>0. Types /\ ConnOf[j] \in Conn
  BY ClusterJoinAssumption DEF ClusterSound
<1>1. alive' \subseteq alive /\ cut \subseteq cut'
  BY <1>0, Monotone
<1>2. Kept(j, o) /\ <<o, Edge>> \notin cut
  BY <1>1 DEF Kept
<1>3. \/ <<j, o>> \in route \/ Sends(toEdge[o], "join!", j) \/ Sends(toOwner[o], "conn", ConnOf[j])
  BY <1>1, <1>2 DEF Filled
<1>4. Sends(toOwner[o], "conn", ConnOf[j]) => Sends(toOwner'[o], "conn", ConnOf[j]) \/ Heard(o, ConnOf[j])
  BY <1>0, ConnMessages
<1>5. ~Heard(o, ConnOf[j])
  BY <1>2, HeardEnds
<1> QED BY <1>3, <1>4, <1>5

\* The steps of the edge.
LEMMA FilledEdgePart ==
    ASSUME ClusterSound, ListedSound, [Next]_vars, NEW j \in Join, NEW o \in Owner,
           Filled(j, o), Still(j, o) \/ EdgePart(j, o)
    PROVE  Filled(j, o)'
<1>t. Types /\ Phase(j, o) /\ RequestSound(j) /\ RouteSound(j, o)
  BY DEF ClusterSound, EdgeSound, PhasesSound
<1>0. EdgeAlike(j, o) => (Sends(toEdge'[o], "join!", j) <=> Sends(toEdge[o], "join!", j))
  BY DEF EdgeAlike, Alike, EdgeKind
<1>a. ASSUME NEW t, Popped(toEdge[o], toEdge'[o], t, j), t # "join!"
      PROVE  Sends(toEdge[o], "join!", j) => Sends(toEdge'[o], "join!", j)
  BY <1>a DEF Popped
<1>1. CASE Still(j, o)
  <2>1. EdgeAlike(j, o) /\ SeatStays(j, o) /\ req'[j] = req[j] /\ (RouteStays(j, o) \/ Closes(j, o))
    BY <1>1 DEF Still
  <2>2. <<j, o>> \in route => o \in owners[ConnOf[j]]
    BY <1>t DEF RouteSound, RequestSound
  <2>3. <<j, o>> \in route => <<j, o>> \in route' \/ Sends(toOwner'[o], "conn", ConnOf[j])
    BY <2>1, <2>2 DEF RouteStays, Closes
  <2> QED BY <1>0, <2>1, <2>3, FilledKept DEF SeatStays
<1>2. CASE Asks(j, o)
  <2>1. SeatStays(j, o) /\ req[j].tried = {}
    BY <1>2 DEF Asks
  <2>2. seat'[<<j, o>>] = "none"
    BY <1>t, <2>1 DEF Phase, SeatStays
  <2> QED BY <2>2 DEF Filled
<1>3. CASE Goes(j, o)
  <2>1. SeatStays(j, o) /\ o \notin req[j].tried
    BY <1>3 DEF Goes
  <2>2. seat'[<<j, o>>] = "none"
    BY <1>t, <2>1 DEF Phase, SeatStays
  <2> QED BY <2>2 DEF Filled
<1>4. CASE Misses(j, o)
  BY <1>4 DEF Misses, Filled, Kept
<1>5. CASE Lost(j, o)
  <2>1. o \in alive => <<Edge, o>> \in cut'
    BY <1>5 DEF Lost
  <2>2. alive' \subseteq alive
    BY <1>t, Monotone
  <2> QED BY <2>1, <2>2 DEF Filled, Kept
<1>6. CASE Enters(j, o)
  BY <1>6 DEF Enters, Filled
<1>7. CASE Away(j, o)
  BY <1>7 DEF Away, Filled, Kept
<1>8. CASE Elsewhere(j, o)
  BY <1>0, <1>8, FilledKept DEF Elsewhere, SeatStays, RouteStays
<1>9. ASSUME NEW t \in EdgeKind, Skips(j, o, t) PROVE Filled(j, o)'
  <2>1. Popped(toEdge[o], toEdge'[o], t, j) /\ SeatStays(j, o) /\ req'[j] = req[j] /\ RouteStays(j, o)
    BY <1>9 DEF Skips, EdgeIdle
  <2>2. CASE t # "join!"
    BY <1>a, <2>1, <2>2, FilledKept DEF SeatStays, RouteStays
  <2>3. CASE t = "join!"
    <3>1. Sends(toEdge[o], "join!", j) /\ ~(req[j].st = "waiting" /\ req[j].at = o)
      BY <1>9, <2>1, <2>3 DEF Skips, Popped
    <3>2. ~(req[j].st = "ok" /\ req[j].at = o)
      BY <1>t, <3>1 DEF Phase
    <3>3. req[j].at # o
      BY <1>t, <3>1, <3>2, ClusterJoinAssumption DEF RequestSound
    <3> QED BY <2>1, <3>3 DEF Filled, Kept
  <2> QED BY <2>2, <2>3
<1>10. CASE HearsLeave(j, o)
  <2>1. Sends(toEdge[o], "LEAVE", j) /\ SeatStays(j, o)
    BY <1>10 DEF HearsLeave, Popped
  <2>2. seat'[<<j, o>>] # "joined"
    BY <1>t, <2>1 DEF Phase, SeatStays
  <2> QED BY <2>2 DEF Filled
<1>11. CASE HearsSuccess(j, o)
  BY <1>a, <1>11, FilledKept DEF HearsSuccess, SeatStays, RouteStays
<1>12. CASE EdgeDies(j, o)
  BY <1>12 DEF EdgeDies, Filled
<1> QED BY <1>1, <1>2, <1>3, <1>4, <1>5, <1>6, <1>7, <1>8, <1>9, <1>10, <1>11, <1>12 DEF EdgePart

\* The steps of the owner: a seat is filled when the reply is sent.
LEMMA FilledOwnerPart ==
    ASSUME ClusterSound, NEW j \in Join, NEW o \in Owner, OwnerPart(j, o)
    PROVE  Filled(j, o)'
<1>t. Phase(j, o)
  BY DEF ClusterSound, PhasesSound
<1>1. CASE Fills(j, o)
  <2>1. PICK r : /\ Grown(toEdge[o], r, "join!", {j})
                 /\ Grown(r, toEdge'[o], "JOIN_SUCCESS", Framed(j, o))
    BY <1>1 DEF Fills
  <2>2. Sends(r, "join!", j)
    BY <2>1 DEF Grown
  <2>3. Sends(toEdge'[o], "join!", j)
    BY <2>1, <2>2 DEF Grown
  <2> QED BY <2>3 DEF Filled
<1>2. CASE Declines(j, o)
  <2>1. Asked(j, o) /\ SeatStays(j, o)
    BY <1>2 DEF Declines, Popped, Asked
  <2>2. seat'[<<j, o>>] = "none"
    BY <1>t, <2>1 DEF Phase, SeatStays
  <2> QED BY <2>2 DEF Filled
<1>3. CASE Takes(j, o) \/ Fails(j, o) \/ Opens(j, o) \/ Ends(j, o) \/ Shuttered(j, o) \/ OwnerDies(j, o)
  <2>1. seat'[<<j, o>>] # "joined"
    BY <1>3 DEF Takes, Fails, Opens, Ends, Shuttered, OwnerDies
  <2> QED BY <2>1 DEF Filled
<1> QED BY <1>1, <1>2, <1>3 DEF OwnerPart

\* The invariant of the seats, for the clusters in which Alone holds.
SeatsSound == ClusterSound /\ ListedSound /\ FilledSound

\* It holds when the cluster starts.
LEMMA SeatsSoundInit == Init => SeatsSound
  BY ClusterSoundInit, InitListed, InitFilled DEF SeatsSound

\* Every step keeps it.
LEMMA SeatsSoundStep == ASSUME Alone, SeatsSound, [Next]_vars PROVE SeatsSound'
<1>1. ClusterSound /\ ListedSound
  BY DEF SeatsSound
<1>2. ASSUME NEW j \in Join, NEW o \in Owner PROVE Filled(j, o)'
  <2>1. Part(j, o) /\ Filled(j, o)
    BY <1>1, StepParts DEF ClusterSound, SeatsSound, FilledSound
  <2> QED BY <1>1, <2>1, FilledEdgePart, FilledOwnerPart DEF Part
<1>3. ClusterSound' /\ ListedSound'
  BY <1>1, ClusterSoundStep, ListedStep
<1> QED BY <1>2, <1>3 DEF SeatsSound, FilledSound

\* It says what the properties of the seats say.
LEMMA SeatsAreListed == SeatsSound => SeatReachable /\ SeatRouted
<1> SUFFICES ASSUME SeatsSound PROVE SeatReachable /\ SeatRouted
  OBVIOUS
<1>1. ASSUME NEW j \in Join, NEW o \in alive \cap Owner, seat[<<j, o>>] = "joined", <<o, Edge>> \notin cut
      PROVE  current[o][ConnOf[j]] = object[<<j, o>>]
  <2>1. ListedAt(j, o) /\ BoundSound(j, o)
    BY DEF SeatsSound, ClusterSound, ClosedSound, ListedSound
  <2> QED BY <1>1, <2>1 DEF ListedAt, BoundSound, Held
<1>2. SeatReachable
  BY <1>1 DEF SeatReachable
<1>3. SeatRouted
  BY DEF SeatsSound, FilledSound, Filled, SeatRouted
<1> QED BY <1>2, <1>3

\* The owner lists the RemoteConnection of every seat it filled, so it finds the
\* seat when the connection closes (`_closeRemoteConnection`); and the edge has the
\* route to that seat, or the reply or the end of the connection is on its way.
\* Only joins that do not share their connection may create a room, or be forwarded
\* late: `_pruneRemoteConnection` breaks it otherwise; see Alone.
THEOREM SeatsListed == Alone => (Spec => [](SeatReachable /\ SeatRouted))
<1> SUFFICES ASSUME Alone PROVE Spec => [](SeatReachable /\ SeatRouted)
  OBVIOUS
<1>1. Init => SeatsSound
  BY SeatsSoundInit
<1>2. SeatsSound /\ [Next]_vars => SeatsSound'
  BY SeatsSoundStep
<1>3. SeatsSound => SeatReachable /\ SeatRouted
  BY SeatsAreListed
<1> QED BY <1>1, <1>2, <1>3, PTL DEF Spec

\* The edge and the owners agree on the seats, in every cluster in which a join that
\* creates a room neither times out nor shares its connection, and a join that is
\* forwarded late does not share its connection either.
THEOREM RoutesAndSeatsAgree == NoCreatingTimeOut /\ Alone => (Spec => []RoutesAndSeats)
<1> SUFFICES ASSUME NoCreatingTimeOut, Alone PROVE Spec => []RoutesAndSeats
  OBVIOUS
<1> DEFINE Inv == SeatsSound /\ ClientsSound
<1>1. Init => Inv
  BY SeatsSoundInit, InitClients
<1>2. Inv /\ [Next]_vars => Inv'
  BY SeatsSoundStep, ClientsStep DEF SeatsSound
<1>3. Inv => RoutesAndSeats
  <2>1. Inv => ClusterSound /\ Types /\ ClientsSound
    BY DEF SeatsSound, ClusterSound
  <2> QED BY <2>1, ClientsAreRouted, ClusterSoundRoutes, SeatsAreListed DEF RoutesAndSeats
<1> HIDE DEF Inv
<1> QED BY <1>1, <1>2, <1>3, PTL DEF Spec
=============================================================================
