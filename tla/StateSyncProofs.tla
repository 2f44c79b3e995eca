-------------------------- MODULE StateSyncProofs --------------------------
(***************************************************************************)
(* Proofs about StateSync, for every set of clients, keys and values, every *)
(* precision the wire may lose, every pause threshold and every bound.     *)
(***************************************************************************)
EXTENDS StateSync, SequenceTheorems, TLAPS

\* A frame, with the view it leads to.
Frames == [kind : {"snapshot", "patch"}, ops : Ops, view : Content]

-----------------------------------------------------------------------------
(* What the operators on contents and operations return.                   *)

\* A content is decoded to a content, and to one of the values a frame can put.
LEMMA ToWireType == ASSUME NEW m \in Content PROVE ToWire(m) \in Content
  BY StateSyncAssumption DEF ToWire, Content

\* What a client sees of a content is a content.
LEMMA ViewType == ASSUME NEW m \in Content, NEW b PROVE View(m, b) \in Content
  BY ToWireType DEF View, Empty, Content

\* Applying operations to a content gives a content.
LEMMA ApplyType == ASSUME NEW m \in Content, NEW ops \in Ops PROVE Apply(m, ops) \in Content
  BY StateSyncAssumption DEF Apply, Ops, Content

\* A patch and a snapshot are made of operations.
LEMMA PutsType == ASSUME NEW m \in Content PROVE Puts(m) \in [Key -> Val \cup {Absent, None}]
  BY StateSyncAssumption DEF Puts, Content

\* So are the coalesced changes of a tracked map.
LEMMA CoalescedType == ASSUME TypeOK PROVE Coalesced \in [Key -> Val \cup {Absent, None}]
  <1>1. ToWire(map) \in Content
    BY ToWireType DEF TypeOK
  <1> QED BY <1>1 DEF Coalesced, Content

\* So is whatever generateDeltas makes for one client.
LEMMA DeltaOpsType == ASSUME TypeOK, NEW c PROVE DeltaOps(c) \in Ops
  <1>1. /\ Puts(map) \in [Key -> Val \cup {Absent, None}]
        /\ Coalesced \in [Key -> Val \cup {Absent, None}]
        /\ Nothing \in [Key -> Val \cup {Absent, None}]
    BY PutsType, CoalescedType DEF TypeOK, Nothing
  <1> QED BY <1>1 DEF DeltaOps, Silent, Reveal, Hide, CollectionOps, Ops

\* So is a snapshot.
LEMMA SnapshotOpsType == ASSUME NEW m \in Content, NEW c PROVE SnapshotOps(m, c) \in Ops
  BY PutsType DEF SnapshotOps, Nothing, Ops

\* The state of a boundary is a content.
LEMMA CurrentType == ASSUME TypeOK PROVE Current \in Content
  BY DEF TypeOK, Current, Adopting

\* At a boundary a client is sent nothing, a patch that is due or a snapshot.
LEMMA SentCases == ASSUME TypeOK, NEW c \in Client
  PROVE LET view == View(Current, c \in VisibleNow)
        IN  \/ /\ Sent(c) = <<>>
               /\ c \in closing \/ c \notin Due \cup Snapped
            \/ /\ c \in Due \ closing
               /\ Sent(c) = <<Frame("patch", DeltaOps(c), view)>>
            \/ /\ c \in Snapped \ closing
               /\ Sent(c) = <<Frame("snapshot", SnapshotOps(Current, c), view)>>
  <1> DEFINE view == View(Current, c \in VisibleNow)
  <1>1. c \in Due => c \notin Snapped
    BY DEF Due, Snapped, Waiting
  <1>2. CASE c \in closing
    BY <1>2 DEF Sent
  <1>3. CASE c \in Due \ closing
    BY <1>3, <1>1 DEF Sent
  <1>4. CASE c \in Snapped \ closing
    BY <1>4, <1>1 DEF Sent
  <1>5. CASE c \notin closing /\ c \notin Due /\ c \notin Snapped
    BY <1>5 DEF Sent
  <1> QED BY <1>2, <1>3, <1>4, <1>5

\* What is sent to one client: nothing or one frame.
LEMMA SentFrame == ASSUME TypeOK, NEW c \in Client, Sent(c) # <<>>
  PROVE \E f \in Frames : /\ Sent(c) = <<f>>
                          /\ f.view = View(Current, c \in VisibleNow)
                          /\ \/ /\ c \in Due \ closing
                                /\ f.kind = "patch" /\ f.ops = DeltaOps(c)
                             \/ /\ c \in Snapped \ closing
                                /\ f.kind = "snapshot" /\ f.ops = SnapshotOps(Current, c)
  <1> DEFINE view == View(Current, c \in VisibleNow)
  <1>1. view \in Content
    BY CurrentType, ViewType
  <1>2. DeltaOps(c) \in Ops /\ SnapshotOps(Current, c) \in Ops
    BY DeltaOpsType, SnapshotOpsType, CurrentType
  <1>3. CASE c \in Due \ closing /\ Sent(c) = <<Frame("patch", DeltaOps(c), view)>>
    <2> DEFINE f == Frame("patch", DeltaOps(c), view)
    <2>1. f \in Frames
      BY <1>1, <1>2 DEF Frame, Frames
    <2>2. f.view = view /\ f.kind = "patch" /\ f.ops = DeltaOps(c)
      BY DEF Frame
    <2> QED BY <1>3, <2>1, <2>2
  <1>4. CASE c \in Snapped \ closing /\ Sent(c) = <<Frame("snapshot", SnapshotOps(Current, c), view)>>
    <2> DEFINE f == Frame("snapshot", SnapshotOps(Current, c), view)
    <2>1. f \in Frames
      BY <1>1, <1>2 DEF Frame, Frames
    <2>2. f.view = view /\ f.kind = "snapshot" /\ f.ops = SnapshotOps(Current, c)
      BY DEF Frame
    <2> QED BY <1>4, <2>1, <2>2
  <1> QED BY <1>3, <1>4, SentCases

-----------------------------------------------------------------------------
(* Types.                                                                  *)

\* What a boundary does to the frames on the way to one client.
LEMMA SyncNet == ASSUME TypeOK, Sync, NEW c \in Client
  PROVE \/ Sent(c) = <<>> /\ net'[c] = net[c]
        \/ \E f \in Frames : /\ net'[c] = Append(net[c], f)
                             /\ f.view = View(Current, c \in VisibleNow)
                             /\ \/ /\ c \in Due \ closing
                                   /\ f.kind = "patch" /\ f.ops = DeltaOps(c)
                                \/ /\ c \in Snapped \ closing
                                   /\ f.kind = "snapshot" /\ f.ops = SnapshotOps(Current, c)
  <1>1. net'[c] = net[c] \o Sent(c)
    BY DEF Sync
  <1>2. net[c] \in Seq(Frames)
    BY DEF TypeOK, Frames
  <1>3. CASE Sent(c) = <<>>
    BY <1>1, <1>2, <1>3, ConcatEmptySeq
  <1>4. CASE Sent(c) # <<>>
    <2>1. PICK f \in Frames : /\ Sent(c) = <<f>>
                              /\ f.view = View(Current, c \in VisibleNow)
                              /\ \/ /\ c \in Due \ closing
                                    /\ f.kind = "patch" /\ f.ops = DeltaOps(c)
                                 \/ /\ c \in Snapped \ closing
                                    /\ f.kind = "snapshot" /\ f.ops = SnapshotOps(Current, c)
      BY <1>4, SentFrame
    <2>2. net'[c] = Append(net[c], f)
      BY <1>1, <1>2, <2>1
    <2> QED BY <2>1, <2>2
  <1> QED BY <1>3, <1>4

\* A boundary sends only to connected seats.
LEMMA SyncSeats == ASSUME TypeOK
  PROVE Patched \subseteq joined /\ Snapped \subseteq joined /\ Due \subseteq Patched
  BY DEF Patched, Snapped, Due, Waiting

\* Whom a boundary remembers, pauses and puts in step are clients.
LEMMA SyncSets == ASSUME TypeOK
  PROVE VisibleNow \subseteq Client /\ PausedNow \subseteq Client
  BY DEF TypeOK, VisibleNow, PausedNow, Pausing, Measured

\* At first every variable has its type.
LEMMA TypeInit == ASSUME Init PROVE TypeOK
  <1>1. Empty \in Content /\ Nothing \in [Key -> Val \cup {Absent, None}]
    BY DEF Empty, Content, Nothing
  <1>2. net \in [Client -> Seq(Frames)]
    BY DEF Init
  <1>3. writes \in 0..MaxWrites
    BY StateSyncAssumption DEF Init
  <1>4. replica \in [Client -> Content] /\ map \in Content /\ boundary \in Content
    BY <1>1 DEF Init
  <1>5. touched \in [Key -> Val \cup {Absent, None}]
    BY <1>1 DEF Init
  <1> QED BY <1>2, <1>3, <1>4, <1>5 DEF Init, TypeOK, Frames

\* Every step of user code and every boundary keeps the types.
LEMMA TypeNext == ASSUME TypeOK, [Next]_vars PROVE TypeOK'
  <1> USE StateSyncAssumption
  <1>0. Empty \in Content /\ Nothing \in [Key -> Val \cup {Absent, None}]
    BY DEF Empty, Content, Nothing
  <1>1. ASSUME NEW k \in Key, NEW x \in Val \cup {Absent}, Assign(k, x) PROVE TypeOK'
    <2>1. writes' \in 0..MaxWrites
      BY <1>1 DEF Assign, Write, TypeOK
    <2>2. Record(k) \in [Key -> Val \cup {Absent, None}]
      BY DEF Record, TypeOK, Content
    <2>4. ASSUME NEW m \in Content PROVE [m EXCEPT ![k] = x] \in Content
      BY DEF Content
    <2>5. map \in Content /\ next \in Content \cup {NoState, Invalid}
          /\ touched \in [Key -> Val \cup {Absent, None}]
      BY DEF TypeOK
    <2>3. next' \in Content \cup {NoState, Invalid} /\ map' \in Content
          /\ touched' \in [Key -> Val \cup {Absent, None}]
      <3>1. CASE next \in Content /\ next' = [next EXCEPT ![k] = x] /\ UNCHANGED <<map, touched>>
        BY <3>1, <2>4, <2>5
      <3>2. CASE touched' = Record(k) /\ map' = [map EXCEPT ![k] = x] /\ UNCHANGED next
        BY <3>2, <2>2, <2>4, <2>5
      <3> QED BY <1>1, <3>1, <3>2 DEF Assign
    <2> QED BY <1>1, <2>1, <2>3 DEF Assign, TypeOK, seatVars, syncVars, peerVars
  <1>2. CASE Clear
    <2>1. writes' \in 0..MaxWrites
      BY <1>2 DEF Clear, Write, TypeOK
    <2>2. next' \in Content \cup {NoState, Invalid} /\ map' \in Content
          /\ touched' \in [Key -> Val \cup {Absent, None}] /\ cleared' \in BOOLEAN
      BY <1>2, <1>0 DEF Clear, TypeOK
    <2> QED BY <1>2, <2>1, <2>2 DEF Clear, TypeOK, seatVars, syncVars, peerVars
  <1>3. ASSUME NEW s \in Fresh \cup {Invalid}, Replace(s) PROVE TypeOK'
    <2>1. writes' \in 0..MaxWrites
      BY <1>3 DEF Replace, Write, TypeOK
    <2>2. next' \in Content \cup {NoState, Invalid}
      BY <1>3 DEF Replace
    <2> QED BY <1>3, <2>1, <2>2 DEF Replace, TypeOK, seatVars, syncVars, peerVars
  <1>4. ASSUME NEW c \in Client, FlipFilter(c) PROVE TypeOK'
    <2>1. writes' \in 0..MaxWrites
      BY <1>4 DEF FlipFilter, Write, TypeOK
    <2>2. allowed' \subseteq Client
      BY <1>4 DEF FlipFilter, TypeOK
    <2> QED BY <1>4, <2>1, <2>2 DEF FlipFilter, TypeOK, stateVars, seatVars, syncVars, peerVars
  <1>5. CASE Sync
    <2>1. net' \in [Client -> Seq(Frames)]
      <3>1. net' = [c \in Client |-> net[c] \o Sent(c)]
        BY <1>5 DEF Sync
      <3>2. ASSUME NEW c \in Client PROVE net[c] \o Sent(c) \in Seq(Frames)
        <4>1. net[c] \in Seq(Frames)
          BY DEF TypeOK, Frames
        <4>2. net'[c] = net[c] \o Sent(c)
          BY <3>1
        <4>3. net'[c] \in Seq(Frames)
          BY <4>1, <1>5, SyncNet, AppendProperties, SMTT(30)
        <4> QED BY <4>2, <4>3
      <3> QED BY <3>1, <3>2
    <2>2. ASSUME NEW c \in Client \ joined PROVE net'[c] = <<>>
      BY <1>5, SyncNet, SyncSeats DEF TypeOK
    <2>3. Current \in Content
      BY CurrentType
    <2>4. RootNow \in {"none", "untracked", "tracked"}
      BY DEF RootNow, RootAtSnapshots, TypeOK
    <2>5. VisibleNow \subseteq Client /\ PausedNow \subseteq Client
          /\ Patched \cup Snapped \subseteq joined
      BY SyncSets, SyncSeats
    <2>6. Nothing \in [Key -> Val \cup {Absent, None}]
      BY <1>0
    <2>7. /\ joined' = joined /\ held' = held /\ closing' = closing
          /\ session' = session /\ replica' = replica
      BY <1>5 DEF Sync, seatVars, peerVars
    <2>8. /\ root' \in {"none", "untracked", "tracked"}
          /\ map' \in Content /\ boundary' \in Content
          /\ next' \in Content \cup {NoState, Invalid}
          /\ touched' \in [Key -> Val \cup {Absent, None}] /\ cleared' \in BOOLEAN
          /\ visible' \subseteq Client /\ synced' \subseteq joined' /\ paused' \subseteq Client
          /\ allowed' = allowed /\ writes' = writes
      BY <1>5, <2>3, <2>4, <2>5, <2>6, <2>7 DEF Sync, TypeOK
    <2> QED BY <2>1, <2>2, <2>7, <2>8 DEF TypeOK, Frames
  <1>6. ASSUME NEW c \in Client, Join(c) PROVE TypeOK'
    BY <1>6 DEF Join, TypeOK, stateVars, syncVars, peerVars
  <1>7. ASSUME NEW c \in Client, Shed(c) PROVE TypeOK'
    BY <1>7 DEF Shed, TypeOK, stateVars, syncVars, peerVars
  <1>8. ASSUME NEW c \in Client, Disconnect(c) PROVE TypeOK'
    <2>1. net' \in [Client -> Seq(Frames)] /\ net' = [net EXCEPT ![c] = <<>>]
      <3>1. net \in [Client -> Seq(Frames)]
        BY DEF TypeOK, Frames
      <3>3. <<>> \in Seq(Frames)
        OBVIOUS
      <3>2. net' = [net EXCEPT ![c] = <<>>]
        BY <1>8 DEF Disconnect
      <3> QED BY <3>1, <3>2, <3>3
    <2>2. \A d \in Client \ joined' : net'[d] = <<>>
      BY <1>8, <2>1 DEF Disconnect, TypeOK
    <2> QED BY <1>8, <2>1, <2>2 DEF Disconnect, TypeOK, Frames, stateVars, peerVars
  <1>9. ASSUME NEW c \in Client, Reconnect(c) PROVE TypeOK'
    BY <1>9 DEF Reconnect, TypeOK, stateVars
  <1>10. ASSUME NEW c \in Client, Leave(c) PROVE TypeOK'
    <2>1. net' \in [Client -> Seq(Frames)] /\ net' = [net EXCEPT ![c] = <<>>]
      <3>1. net \in [Client -> Seq(Frames)]
        BY DEF TypeOK, Frames
      <3>3. <<>> \in Seq(Frames)
        OBVIOUS
      <3>2. net' = [net EXCEPT ![c] = <<>>]
        BY <1>10 DEF Leave
      <3> QED BY <3>1, <3>2, <3>3
    <2>2. \A d \in Client \ joined' : net'[d] = <<>>
      BY <1>10, <2>1 DEF Leave, TypeOK
    <2>3. replica' \in [Client -> Content]
      BY <1>10, <1>0 DEF Leave, TypeOK
    <2> QED BY <1>10, <2>1, <2>2, <2>3 DEF Leave, TypeOK, Frames, stateVars, peerVars
  <1>11. ASSUME NEW c \in Client, Receive(c) PROVE TypeOK'
    <2> DEFINE f == Head(net[c])
               desync == f.kind = "patch" /\ c \notin session
    <2>1. net[c] \in Seq(Frames) /\ net[c] # <<>>
      BY <1>11 DEF Receive, TypeOK, Frames
    <2>2. f \in Frames /\ Tail(net[c]) \in Seq(Frames)
      BY <2>1
    <2>3. c \in joined
      BY <2>1 DEF TypeOK
    <2>4. f.ops \in Ops
      BY <2>2 DEF Frames
    <2>5. Apply(IF f.kind = "snapshot" THEN Empty ELSE replica[c], f.ops) \in Content
      BY <2>4, <1>0, ApplyType DEF TypeOK
    <2> HIDE DEF f
    <2>6. net' = [net EXCEPT ![c] = IF desync THEN <<>> ELSE Tail(@)]
          /\ closing' = (IF desync THEN closing \cup {c} ELSE closing)
          /\ session' = (IF desync THEN session ELSE session \cup {c})
          /\ replica' = [replica EXCEPT ![c] =
                IF desync THEN @ ELSE Apply(IF f.kind = "snapshot" THEN Empty ELSE @, f.ops)]
      BY <1>11 DEF Receive, f
    <2>10. (IF desync THEN <<>> ELSE Tail(net[c])) \in Seq(Frames)
      BY <2>2
    <2>11. net' \in [Client -> Seq(Frames)]
      <3>1. net \in [Client -> Seq(Frames)]
        BY DEF TypeOK, Frames
      <3> HIDE DEF desync
      <3> QED BY <2>6, <2>10, <3>1
    <2>7. net' \in [Client -> Seq(Frames)] /\ \A d \in Client \ joined : net'[d] = <<>>
      BY <2>3, <2>6, <2>11 DEF TypeOK
    <2>8. replica' \in [Client -> Content]
      BY <2>5, <2>6 DEF TypeOK
    <2>9. UNCHANGED <<stateVars, joined, held, allowed, syncVars, boundary, writes>>
      BY <1>11 DEF Receive
    <2> QED BY <2>3, <2>6, <2>7, <2>8, <2>9 DEF TypeOK, Frames, stateVars, syncVars
  <1>12. CASE UNCHANGED vars
    BY <1>12 DEF vars, TypeOK, stateVars, seatVars, syncVars, peerVars
  <1>13. ASSUME NEW k \in Key, NEW v \in Val, Set(k, v) PROVE TypeOK'
    BY <1>1, <1>13 DEF Set
  <1>14. ASSUME NEW k \in Key, Delete(k) PROVE TypeOK'
    BY <1>1, <1>14 DEF Delete
  <1> QED BY <1>2, <1>3, <1>4, <1>5, <1>6, <1>7, <1>8, <1>9, <1>10, <1>11, <1>12, <1>13, <1>14
          DEF Next

\* Every variable has its type, only connected seats are in step or have frames on the
\* way, and no seat is connected and held at once (room.ts, `_clients`, `_synced`).
THEOREM TypeCorrect == Spec => []TypeOK
  BY TypeInit, TypeNext, PTL DEF Spec

-----------------------------------------------------------------------------
(* What the room knows of the changes since the last boundary.             *)

\* Of a tracked map that was not cleared, `touched` has what every changed key held.
Recorded ==
    root = "tracked" /\ ~cleared =>
        \A k \in Key : boundary[k] = IF touched[k] = None THEN map[k] ELSE touched[k]

\* A room without a state shows an empty one.
Rootless == root = "none" => map = Empty /\ boundary = Empty

\* Nobody follows a state whose changes are not tracked.
Tracking == root = "untracked" => synced = {}

\* The change record of the state is right.
Changes == Recorded /\ Rootless /\ Tracking

\* At first nothing has changed.
LEMMA ChangesInit == ASSUME Init PROVE Changes
  BY DEF Init, Changes, Recorded, Rootless, Tracking

\* Changes are recorded when they are made, and forgotten at the boundary.
LEMMA ChangesNext == ASSUME TypeOK, Changes, [Next]_vars PROVE Changes'
  <1> USE StateSyncAssumption
  <1>1. ASSUME NEW k \in Key, NEW x \in Val \cup {Absent}, Assign(k, x) PROVE Changes'
    <2>1. UNCHANGED <<root, cleared, boundary, synced>>
      BY <1>1 DEF Assign, syncVars
    <2>2. CASE UNCHANGED <<map, touched>>
      BY <2>1, <2>2 DEF Changes, Recorded, Rootless, Tracking
    <2>3. CASE root # "none" /\ touched' = Record(k) /\ map' = [map EXCEPT ![k] = x]
      <3>1. ASSUME root = "tracked", ~cleared, NEW j \in Key
            PROVE boundary[j] = IF touched'[j] = None THEN map'[j] ELSE touched'[j]
        <4>1. boundary[j] = IF touched[j] = None THEN map[j] ELSE touched[j]
          BY <3>1 DEF Changes, Recorded
        <4>2. map \in [Key -> Val \cup {Absent}] /\ touched \in [Key -> Val \cup {Absent, None}]
          BY DEF TypeOK, Content
        <4>3. map[j] # None
          BY <4>2
        <4>4. CASE j = k
          BY <2>3, <3>1, <4>1, <4>2, <4>3, <4>4 DEF Record
        <4>5. CASE j # k
          BY <2>3, <3>1, <4>1, <4>2, <4>5 DEF Record
        <4> QED BY <4>4, <4>5
      <3> QED BY <2>1, <2>3, <3>1 DEF Changes, Recorded, Rootless, Tracking
    <2> QED BY <1>1, <2>2, <2>3 DEF Assign
  <1>2. CASE Clear
    <2>1. UNCHANGED <<root, boundary, synced>>
      BY <1>2 DEF Clear, syncVars
    <2>2. CASE UNCHANGED <<map, touched, cleared>>
      BY <2>1, <2>2 DEF Changes, Recorded, Rootless, Tracking
    <2>3. CASE map' = Empty /\ cleared' = (cleared \/ root = "tracked")
      BY <2>1, <2>3 DEF Changes, Recorded, Rootless, Tracking
    <2> QED BY <1>2, <2>2, <2>3 DEF Clear
  <1>3. CASE Sync
    <2>1. root' = RootNow /\ map' = Current /\ boundary' = Current /\ touched' = Nothing
          /\ synced' = Patched \cup Snapped
      BY <1>3 DEF Sync
    <2>2. Recorded'
      BY <2>1 DEF Recorded, Nothing
    <2>3. Rootless'
      BY <2>1 DEF Rootless, Changes, RootNow, RootAtSnapshots, Current
    <2>4. Tracking'
      <3> SUFFICES ASSUME RootNow = "untracked" PROVE Patched \cup Snapped = {}
        BY <2>1 DEF Tracking
      <3>1. Waiting = {} /\ RootAtSnapshots = "untracked"
        BY DEF RootNow
      <3>2. Following = {}
        BY <3>1 DEF Following, RootAtSnapshots, Changes, Tracking
      <3> QED BY <3>1, <3>2 DEF Snapped, Patched
    <2> QED BY <2>2, <2>3, <2>4 DEF Changes
  <1>4. CASE UNCHANGED <<root, map, touched, cleared, boundary>> /\ synced' \subseteq synced
    BY <1>4 DEF Changes, Recorded, Rootless, Tracking
  <1>5. ASSUME NEW s, Replace(s) PROVE Changes'
    BY <1>5, <1>4 DEF Replace, syncVars
  <1>6. ASSUME NEW c \in Client, FlipFilter(c) PROVE Changes'
    BY <1>6, <1>4 DEF FlipFilter, syncVars, stateVars
  <1>7. ASSUME NEW c \in Client, Join(c) \/ Shed(c) \/ Disconnect(c) \/ Reconnect(c) \/ Leave(c)
        PROVE Changes'
    BY <1>7, <1>4 DEF Join, Shed, Disconnect, Reconnect, Leave, syncVars, stateVars
  <1>8. ASSUME NEW c \in Client, Receive(c) PROVE Changes'
    BY <1>8, <1>4 DEF Receive, syncVars, stateVars
  <1>9. CASE UNCHANGED vars
    BY <1>9, <1>4 DEF vars, syncVars, stateVars
  <1> QED BY <1>1, <1>2, <1>3, <1>5, <1>6, <1>7, <1>8, <1>9 DEF Next, Set, Delete

-----------------------------------------------------------------------------
(* What patches and snapshots do to a replica.                             *)

\* No operations, no change.
LEMMA SilentApply == ASSUME NEW m \in Content PROVE Apply(m, Silent) = m
  BY DEF Apply, Silent, Nothing, Content

\* Putting every entry of a content on an empty map, or on one that is cleared, gives it.
LEMMA PutsApply == ASSUME NEW m \in Content, NEW old \in Content, NEW clear \in BOOLEAN,
                          clear \/ old = Empty
  PROVE Apply(old, [clear |-> clear, put |-> Puts(m)]) = ToWire(m)
  <1> USE StateSyncAssumption
  <1>1. ASSUME NEW k \in Key
        PROVE Apply(old, [clear |-> clear, put |-> Puts(m)])[k] = ToWire(m)[k]
    <2>1. m[k] \in Val \cup {Absent}
      BY DEF Content
    <2>2. CASE m[k] = Absent
      BY <2>2 DEF Apply, Puts, ToWire, Empty
    <2>3. CASE m[k] # Absent
      BY <2>1, <2>3 DEF Apply, Puts, ToWire
    <2> QED BY <2>2, <2>3
  <1> QED BY <1>1 DEF Apply, ToWire

\* The coalesced changes take a replica of the last boundary to the present state:
\* a key that was changed back, or to what looks the same, is not sent.
LEMMA CoalescedApply == ASSUME TypeOK, Changes, root = "tracked", ~cleared
  PROVE Apply(ToWire(boundary), [clear |-> FALSE, put |-> Coalesced]) = ToWire(map)
  <1> USE StateSyncAssumption
  <1>1. ASSUME NEW k \in Key
        PROVE Apply(ToWire(boundary), [clear |-> FALSE, put |-> Coalesced])[k] = ToWire(map)[k]
    <2>1. map[k] \in Val \cup {Absent} /\ boundary[k] \in Val \cup {Absent}
          /\ touched[k] \in Val \cup {Absent, None}
      BY DEF TypeOK, Content
    <2>2. boundary[k] = IF touched[k] = None THEN map[k] ELSE touched[k]
      BY DEF Changes, Recorded
    <2>3. ToWire(map)[k] # None /\ (touched[k] # None => ToWire(touched)[k] = ToWire(boundary)[k])
      BY <2>1, <2>2 DEF ToWire
    <2>4. touched[k] = None => ToWire(map)[k] = ToWire(boundary)[k]
      BY <2>2 DEF ToWire
    <2>5. Apply(ToWire(boundary), [clear |-> FALSE, put |-> Coalesced])[k]
          = IF Coalesced[k] = None THEN ToWire(boundary)[k] ELSE Coalesced[k]
      BY DEF Apply
    <2>6. Coalesced[k] = IF touched[k] = None \/ ToWire(touched)[k] = ToWire(map)[k]
                         THEN None ELSE ToWire(map)[k]
      BY DEF Coalesced
    <2> QED BY <2>3, <2>4, <2>5, <2>6
  <1> QED BY <1>1 DEF Apply, ToWire

\* The operations generateDeltas makes for a client in step take what it saw at the last
\* boundary to what it may see at this one.
LEMMA PatchExact == ASSUME TypeOK, Changes, NEW c \in Patched
  PROVE Apply(View(boundary, c \in visible), DeltaOps(c)) = View(Current, c \in VisibleNow)
  <1> USE StateSyncAssumption
  <1>1. ~Adopting /\ c \in synced /\ Current = map
    BY DEF Patched, Following, Current
  <1>2. map \in Content /\ boundary \in Content /\ ToWire(boundary) \in Content /\ Empty \in Content
    BY ToWireType DEF TypeOK, Empty, Content
  <1>3. root # "untracked"
    BY <1>1 DEF Changes, Tracking
  <1>4. CASE root = "none"
    <2>1. map = Empty /\ boundary = Empty
      BY <1>4 DEF Changes, Rootless
    <2>2. ToWire(Empty) = Empty
      BY DEF ToWire, Empty
    <2>3. DeltaOps(c) = Silent
      BY <1>4 DEF DeltaOps
    <2> QED BY <1>1, <1>2, <2>1, <2>2, <2>3, SilentApply DEF View
  <1>5. CASE root = "tracked"
    <2>1. RootAtSnapshots = "tracked"
      BY <1>1, <1>5 DEF RootAtSnapshots
    <2>2. c \in VisibleNow <=> c \in allowed
      BY <2>1 DEF VisibleNow, Told
    <2>3. CASE c \in visible /\ c \in allowed
      <3>1. DeltaOps(c) = CollectionOps
        BY <1>5, <2>3 DEF DeltaOps
      <3>2. CASE cleared
        <4>1. CollectionOps = [clear |-> TRUE, put |-> Puts(map)]
          BY <3>2 DEF CollectionOps
        <4>2. Apply(ToWire(boundary), [clear |-> TRUE, put |-> Puts(map)]) = ToWire(map)
          BY <1>2, PutsApply
        <4> QED BY <1>1, <2>2, <2>3, <3>1, <4>1, <4>2 DEF View
      <3>3. CASE ~cleared
        <4>1. CollectionOps = [clear |-> FALSE, put |-> Coalesced]
          BY <3>3 DEF CollectionOps
        <4> QED BY <1>1, <1>5, <2>2, <2>3, <3>1, <3>3, <4>1, CoalescedApply DEF View
      <3> QED BY <3>2, <3>3
    <2>4. CASE c \notin visible /\ c \in allowed
      <3>1. DeltaOps(c) = [clear |-> FALSE, put |-> Puts(map)]
        BY <1>5, <2>4 DEF DeltaOps, Reveal
      <3>2. Apply(Empty, [clear |-> FALSE, put |-> Puts(map)]) = ToWire(map)
        BY <1>2, PutsApply
      <3> QED BY <1>1, <2>2, <2>4, <3>1, <3>2 DEF View
    <2>5. CASE c \in visible /\ c \notin allowed
      <3>1. DeltaOps(c) = Hide
        BY <1>5, <2>5 DEF DeltaOps
      <3>2. Apply(ToWire(boundary), Hide) = Empty
        BY DEF Apply, Hide, Nothing, Empty
      <3> QED BY <2>2, <2>5, <3>1, <3>2 DEF View
    <2>6. CASE c \notin visible /\ c \notin allowed
      <3>1. DeltaOps(c) = Silent
        BY <1>5, <2>6 DEF DeltaOps
      <3> QED BY <1>2, <2>2, <2>6, <3>1, SilentApply DEF View
    <2> QED BY <2>3, <2>4, <2>5, <2>6
  <1> QED BY <1>3, <1>4, <1>5 DEF TypeOK

\* A snapshot takes an empty replica to what its client may see.
LEMMA SnapshotExact == ASSUME TypeOK, Changes, NEW c \in Waiting
  PROVE Apply(Empty, SnapshotOps(Current, c)) = View(Current, c \in VisibleNow)
  <1>1. Current \in Content /\ Empty \in Content
    BY CurrentType DEF Empty, Content
  <1>2. Apply(Empty, [clear |-> FALSE, put |-> Puts(Current)]) = ToWire(Current)
    BY <1>1, PutsApply
  <1>3. Apply(Empty, [clear |-> FALSE, put |-> Nothing]) = Empty
    BY <1>1, SilentApply DEF Silent
  <1>4. CASE RootAtSnapshots = "none"
    <2>1. Current = Empty
      BY <1>4 DEF RootAtSnapshots, Current, Changes, Rootless
    <2>2. ToWire(Empty) = Empty
      BY DEF ToWire, Empty
    <2> QED BY <1>2, <1>3, <2>1, <2>2 DEF SnapshotOps, View
  <1>5. CASE RootAtSnapshots # "none"
    <2>1. c \in VisibleNow <=> c \in allowed
      BY <1>5 DEF VisibleNow, Told
    <2> QED BY <1>2, <1>3, <2>1 DEF SnapshotOps, View
  <1> QED BY <1>4, <1>5

-----------------------------------------------------------------------------
(* Slow clients.                                                           *)

\* A paused client is not in step.
PauseEnds == synced \cap paused = {}

\* What a step does to the frames on the way to one client: it leaves them, drops them,
\* hands the first one over, or is a boundary.
LEMMA NetEffect == ASSUME TypeOK, Next, NEW d \in Client
  PROVE \/ net'[d] = net[d]
        \/ net'[d] = <<>>
        \/ Receive(d) /\ net'[d] = Tail(net[d])
        \/ Sync
  <1>1. ASSUME NEW k \in Key, NEW x, Assign(k, x) PROVE net'[d] = net[d]
    BY <1>1 DEF Assign
  <1>2. CASE Clear
    BY <1>2 DEF Clear
  <1>3. ASSUME NEW s, Replace(s) PROVE net'[d] = net[d]
    BY <1>3 DEF Replace
  <1>4. ASSUME NEW c \in Client,
               FlipFilter(c) \/ Join(c) \/ Shed(c) \/ Reconnect(c) PROVE net'[d] = net[d]
    BY <1>4 DEF FlipFilter, Join, Shed, Reconnect
  <1>5. ASSUME NEW c \in Client, Disconnect(c) \/ Leave(c)
        PROVE net'[d] = net[d] \/ net'[d] = <<>>
    <2>1. net' = [net EXCEPT ![c] = <<>>]
      BY <1>5 DEF Disconnect, Leave
    <2> QED BY <2>1 DEF TypeOK
  <1>6. ASSUME NEW c \in Client, Receive(c)
        PROVE \/ net'[d] = net[d]
              \/ net'[d] = <<>>
              \/ Receive(d) /\ net'[d] = Tail(net[d])
    <2> DEFINE desync == Head(net[c]).kind = "patch" /\ c \notin session
    <2>1. net' = [net EXCEPT ![c] = IF desync THEN <<>> ELSE Tail(@)]
      BY <1>6 DEF Receive
    <2>2. net'[d] = IF d # c THEN net[d] ELSE IF desync THEN <<>> ELSE Tail(net[d])
      <3> HIDE DEF desync
      <3> QED BY <2>1 DEF TypeOK
    <2> QED BY <1>6, <2>2
  <1> QED BY <1>1, <1>2, <1>3, <1>4, <1>5, <1>6 DEF Next, Set, Delete

\* A client is not put in step while it is paused, nor paused without losing step.
LEMMA PauseEndsNext == ASSUME TypeOK, PauseEnds, [Next]_vars PROVE PauseEnds'
  <1>1. ASSUME synced' \subseteq synced, paused' \subseteq paused PROVE PauseEnds'
    BY <1>1 DEF PauseEnds
  <1>2. ASSUME NEW k \in Key, NEW x, Assign(k, x) PROVE PauseEnds'
    BY <1>1, <1>2 DEF Assign, syncVars
  <1>3. CASE Clear
    BY <1>1, <1>3 DEF Clear, syncVars
  <1>4. ASSUME NEW s, Replace(s) PROVE PauseEnds'
    BY <1>1, <1>4 DEF Replace, syncVars
  <1>5. CASE Sync
    <2>1. synced' = Patched \cup Snapped /\ paused' = PausedNow
      BY <1>5 DEF Sync
    <2>2. Patched \cap PausedNow = {}
      BY DEF PauseEnds, Patched, PausedNow, Following
    <2>3. Snapped \cap PausedNow = {}
      BY DEF Snapped, Waiting
    <2> QED BY <2>1, <2>2, <2>3 DEF PauseEnds
  <1>6. ASSUME NEW c \in Client, FlipFilter(c) \/ Join(c) \/ Shed(c) \/ Disconnect(c) \/
                                 Reconnect(c) \/ Leave(c)
        PROVE PauseEnds'
    BY <1>1, <1>6 DEF FlipFilter, Join, Shed, Disconnect, Reconnect, Leave, syncVars
  <1>7. ASSUME NEW c \in Client, Receive(c) PROVE PauseEnds'
    BY <1>1, <1>7 DEF Receive, syncVars
  <1>8. CASE UNCHANGED vars
    BY <1>1, <1>8 DEF vars, syncVars
  <1> QED BY <1>2, <1>3, <1>4, <1>5, <1>6, <1>7, <1>8 DEF Next, Set, Delete

\* A boundary adds a frame to a measured queue only while the queue is short.
LEMMA QueueBoundedNext == ASSUME TypeOK, PauseEnds, QueueBounded, [Next]_vars PROVE QueueBounded'
  <1> USE StateSyncAssumption
  <1> DEFINE most == IF PauseAt > ResumeAt THEN PauseAt ELSE ResumeAt
  <1> SUFFICES ASSUME PauseAt > 0, NEW c \in Client \ Remote PROVE Len(net'[c]) <= 1 + most
    BY DEF QueueBounded
  <1>0. Len(net[c]) <= 1 + most /\ net[c] \in Seq(Frames) /\ most \in Nat
    BY DEF QueueBounded, TypeOK, Frames
  <1>1. CASE net'[c] = net[c]
    BY <1>0, <1>1
  <1>2. CASE net'[c] = <<>>
    BY <1>0, <1>2
  <1>3. CASE Receive(c) /\ net'[c] = Tail(net[c])
    <2>1. net[c] # <<>>
      BY <1>3 DEF Receive
    <2>2. Len(Tail(net[c])) = Len(net[c]) - 1 /\ Len(net[c]) \in Nat
      BY <1>0, <2>1
    <2> QED BY <1>0, <1>3, <2>2
  <1>4. CASE Sync
    <2>1. ASSUME NEW f \in Frames, net'[c] = Append(net[c], f), c \in Due \cup Snapped
          PROVE Len(net'[c]) <= 1 + most
      <3>1. Len(net'[c]) = Len(net[c]) + 1 /\ Len(net[c]) \in Nat
        BY <1>0, <2>1
      <3>2. Measured = joined \ Remote /\ c \in joined
        BY <2>1, SyncSeats DEF Measured
      <3>3. CASE c \in Resuming
        <4>1. Len(net[c]) <= ResumeAt
          BY <3>3 DEF Resuming
        <4> QED BY <3>1, <4>1
      <3>4. CASE c \notin Resuming
        <4>1. c \notin paused /\ c \notin Pausing
          BY <2>1, <3>4 DEF Due, Snapped, Waiting, Patched, PausedNow, PauseEnds, Following
        <4>2. ~(Len(net[c]) > PauseAt)
          BY <3>2, <4>1 DEF Pausing
        <4> QED BY <3>1, <4>2
      <3> QED BY <3>3, <3>4
    <2> QED BY <1>1, <1>4, <2>1, SyncNet
  <1>5. CASE UNCHANGED vars
    BY <1>1, <1>5 DEF vars
  <1> QED BY <1>1, <1>2, <1>3, <1>4, <1>5, NetEffect

-----------------------------------------------------------------------------
(* Snapshots come before patches.                                          *)

\* A client in step has a session, or the snapshot that starts one is on its way.
Begun ==
    \A c \in synced \ closing :
        c \in session \/ \E j \in DOMAIN net[c] : net[c][j].kind = "snapshot"

\* What a step does for one client: nothing it is told of, the loss of what was on the
\* way and of its place in step, the first frame on the way, or a boundary.
LEMMA ClientEffect == ASSUME TypeOK, [Next]_vars, NEW d \in Client
  PROVE \/ /\ net'[d] = net[d] /\ replica'[d] = replica[d]
           /\ d \in session <=> d \in session'
           /\ d \in synced' \ closing' =>
                d \in synced \ closing /\ boundary' = boundary /\ (d \in visible <=> d \in visible')
        \/ net'[d] = <<>> /\ d \notin synced' \ closing'
        \/ /\ net[d] # <<>> /\ net'[d] = Tail(net[d])
           /\ ~(Head(net[d]).kind = "patch" /\ d \notin session)
           /\ d \in session'
           /\ replica'[d] = Apply(IF Head(net[d]).kind = "snapshot" THEN Empty ELSE replica[d],
                                  Head(net[d]).ops)
           /\ UNCHANGED <<synced, closing, boundary, visible>>
        \/ Sync
  <1>1. ASSUME NEW k \in Key, NEW x, Assign(k, x)
        PROVE UNCHANGED <<net, peerVars, seatVars, syncVars, boundary>>
    BY <1>1 DEF Assign
  <1>2. CASE Clear
    BY <1>2 DEF Clear, peerVars, seatVars, syncVars
  <1>3. ASSUME NEW s, Replace(s)
        PROVE UNCHANGED <<net, peerVars, seatVars, syncVars, boundary>>
    BY <1>3 DEF Replace
  <1>4. ASSUME NEW c \in Client, FlipFilter(c)
        PROVE UNCHANGED <<net, peerVars, seatVars, syncVars, boundary>>
    BY <1>4 DEF FlipFilter
  <1>5. ASSUME NEW c \in Client, Join(c) \/ Shed(c)
        PROVE /\ UNCHANGED <<net, peerVars, syncVars, boundary>>
              /\ closing \subseteq closing'
    BY <1>5 DEF Join, Shed
  <1>6. ASSUME NEW c \in Client, Disconnect(c) \/ Leave(c)
        PROVE \/ net'[d] = <<>> /\ d \notin synced'
              \/ /\ net'[d] = net[d] /\ replica'[d] = replica[d] /\ boundary' = boundary
                 /\ d \in session <=> d \in session'
                 /\ d \in synced <=> d \in synced'
                 /\ d \in closing <=> d \in closing'
                 /\ d \in visible <=> d \in visible'
    <2>1. net' = [net EXCEPT ![c] = <<>>] /\ synced' = synced \ {c} /\ closing' = closing \ {c}
          /\ boundary' = boundary
      BY <1>6 DEF Disconnect, Leave
    <2>2. CASE d = c
      BY <2>1, <2>2 DEF TypeOK
    <2>3. CASE d # c
      <3>1. net'[d] = net[d] /\ (d \in synced <=> d \in synced') /\ (d \in closing <=> d \in closing')
        BY <2>1, <2>3 DEF TypeOK
      <3>2. replica'[d] = replica[d] /\ (d \in session <=> d \in session')
            /\ (d \in visible <=> d \in visible')
        BY <1>6, <2>3 DEF Disconnect, Leave, TypeOK, peerVars
      <3> QED BY <2>1, <3>1, <3>2
    <2> QED BY <2>2, <2>3
  <1>7. ASSUME NEW c \in Client, Reconnect(c)
        PROVE \/ net'[d] = <<>> /\ d \notin synced'
              \/ /\ UNCHANGED <<net, replica, boundary, visible, closing>>
                 /\ d \in session <=> d \in session'
                 /\ d \in synced <=> d \in synced'
    <2>1. c \notin joined
      BY <1>7 DEF Reconnect, TypeOK
    <2>2. net[c] = <<>> /\ c \notin synced
      BY <2>1 DEF TypeOK
    <2>3. CASE d = c
      BY <1>7, <2>2, <2>3 DEF Reconnect
    <2>4. CASE d # c
      BY <1>7, <2>4 DEF Reconnect
    <2> QED BY <2>3, <2>4
  <1>8. ASSUME NEW c \in Client, Receive(c)
        PROVE \/ /\ net'[d] = net[d] /\ replica'[d] = replica[d]
                 /\ UNCHANGED <<synced, boundary, visible>>
                 /\ d \in session <=> d \in session'
                 /\ closing \subseteq closing'
              \/ net'[d] = <<>> /\ d \notin synced' \ closing'
              \/ /\ net[d] # <<>> /\ net'[d] = Tail(net[d])
                 /\ ~(Head(net[d]).kind = "patch" /\ d \notin session)
                 /\ d \in session'
                 /\ replica'[d] = Apply(IF Head(net[d]).kind = "snapshot" THEN Empty ELSE replica[d],
                                        Head(net[d]).ops)
                 /\ UNCHANGED <<synced, closing, boundary, visible>>
    <2> DEFINE f == Head(net[c])
               desync == f.kind = "patch" /\ c \notin session
    <2>1. /\ net' = [net EXCEPT ![c] = IF desync THEN <<>> ELSE Tail(@)]
          /\ closing' = (IF desync THEN closing \cup {c} ELSE closing)
          /\ session' = (IF desync THEN session ELSE session \cup {c})
          /\ replica' = [replica EXCEPT ![c] =
                IF desync THEN @ ELSE Apply(IF f.kind = "snapshot" THEN Empty ELSE @, f.ops)]
          /\ UNCHANGED <<synced, boundary, visible>>
          /\ net[c] # <<>>
      BY <1>8 DEF Receive, syncVars
    <2>2. net'[d] = (IF d = c THEN IF desync THEN <<>> ELSE Tail(net[d]) ELSE net[d])
      <3> HIDE DEF desync
      <3> QED BY <2>1 DEF TypeOK
    <2>3. replica'[d] = (IF d = c
                         THEN IF desync THEN replica[d]
                              ELSE Apply(IF f.kind = "snapshot" THEN Empty ELSE replica[d], f.ops)
                         ELSE replica[d])
      <3> HIDE DEF desync, f
      <3> QED BY <2>1 DEF TypeOK
    <2>4. CASE d # c
      <3> HIDE DEF desync
      <3> QED BY <2>1, <2>2, <2>3, <2>4
    <2>5. CASE d = c /\ desync
      <3> HIDE DEF desync
      <3> QED BY <2>1, <2>2, <2>5
    <2>6. CASE d = c /\ ~desync
      <3>1. ~(Head(net[d]).kind = "patch" /\ d \notin session)
        BY <2>6
      <3>2. replica'[d] = Apply(IF Head(net[d]).kind = "snapshot" THEN Empty ELSE replica[d],
                                Head(net[d]).ops)
        BY <2>3, <2>6
      <3> HIDE DEF desync
      <3> QED BY <2>1, <2>2, <2>6, <3>1, <3>2
    <2> QED BY <2>4, <2>5, <2>6
  <1>9. CASE UNCHANGED vars
    BY <1>9 DEF vars, peerVars, seatVars, syncVars
  <1>10. ASSUME UNCHANGED <<net, peerVars, seatVars, syncVars, boundary>>
         PROVE /\ net'[d] = net[d] /\ replica'[d] = replica[d]
               /\ d \in session <=> d \in session'
               /\ d \in synced' \ closing' =>
                    d \in synced \ closing /\ boundary' = boundary
                    /\ (d \in visible <=> d \in visible')
    BY <1>10 DEF peerVars, seatVars, syncVars
  <1>11. ASSUME NEW c \in Client, Join(c) \/ Shed(c)
         PROVE /\ net'[d] = net[d] /\ replica'[d] = replica[d]
               /\ d \in session <=> d \in session'
               /\ d \in synced' \ closing' =>
                    d \in synced \ closing /\ boundary' = boundary
                    /\ (d \in visible <=> d \in visible')
    BY <1>5, <1>11 DEF peerVars, syncVars
  <1> QED BY <1>1, <1>2, <1>3, <1>4, <1>6, <1>7, <1>8, <1>9, <1>10, <1>11 DEF Next, Set, Delete

\* Whom a boundary puts in step and does not close was sent a snapshot, or was in step.
LEMMA SyncFollows == ASSUME TypeOK, Sync, NEW d \in Client, d \in synced' \ closing'
  PROVE /\ d \notin closing
        /\ \/ /\ d \in Snapped
              /\ \E f \in Frames : /\ net'[d] = Append(net[d], f) /\ f.kind = "snapshot"
                                   /\ f.view = View(Current, d \in VisibleNow)
           \/ /\ d \in Patched /\ d \in synced /\ d \notin Snapped
              /\ \/ net'[d] = net[d] /\ d \notin Due
                 \/ \E f \in Frames : /\ net'[d] = Append(net[d], f) /\ f.kind = "patch"
                                      /\ f.view = View(Current, d \in VisibleNow)
  <1>1. synced' = Patched \cup Snapped /\ closing' = closing
    BY DEF Sync, seatVars
  <1>2. d \notin closing /\ d \in Patched \cup Snapped
    BY <1>1
  <1>3. Patched \cap Snapped = {} /\ Due \subseteq Patched /\ Patched \subseteq synced
    BY DEF Snapped, Waiting, Due, Patched, Following
  <1>4. Sent(d) = <<>> => d \notin Due \cup Snapped
    BY <1>2, SentCases
  <1>5. CASE d \in Snapped
    BY <1>2, <1>3, <1>4, <1>5, SyncNet
  <1>6. CASE d \in Patched /\ d \notin Snapped
    BY <1>2, <1>3, <1>4, <1>6, SyncNet
  <1> QED BY <1>2, <1>5, <1>6

\* Appending a frame, or handing the first one over, keeps the others in their order.
LEMMA FrameIndices == ASSUME NEW s \in Seq(Frames), NEW f \in Frames
  PROVE /\ DOMAIN s = 1..Len(s) /\ Len(s) \in Nat
        /\ Len(Append(s, f)) = Len(s) + 1 /\ DOMAIN Append(s, f) = 1..(Len(s) + 1)
        /\ \A i \in 1..Len(s) : Append(s, f)[i] = s[i]
        /\ Append(s, f)[Len(s) + 1] = f
  OBVIOUS

\* Snapshots come before patches, on every connection.
LEMMA SessionNext == ASSUME TypeOK, NoDesync, Begun, [Next]_vars PROVE NoDesync' /\ Begun'
  <1> DEFINE Ordered(s, has) ==
               \A i \in DOMAIN s : s[i].kind = "patch" =>
                   has \/ \E j \in 1..(i - 1) : s[j].kind = "snapshot"
             Starts(s, has) == has \/ \E j \in DOMAIN s : s[j].kind = "snapshot"
  <1> SUFFICES ASSUME NEW d \in Client
               PROVE /\ Ordered(net'[d], d \in session')
                     /\ d \in synced' \ closing' => Starts(net'[d], d \in session')
    <2>1. synced' \subseteq Client
      BY TypeNext DEF TypeOK
    <2> QED BY <2>1 DEF NoDesync, Begun
  <1>1. Ordered(net[d], d \in session)
    BY DEF NoDesync
  <1>2. d \in synced \ closing => Starts(net[d], d \in session)
    BY DEF Begun
  <1>3. net[d] \in Seq(Frames)
    BY DEF TypeOK, Frames
  <1>4. CASE net'[d] = net[d] /\ (d \in session <=> d \in session')
             /\ (d \in synced' \ closing' => d \in synced \ closing)
    BY <1>1, <1>2, <1>4
  <1>5. CASE net'[d] = <<>> /\ d \notin synced' \ closing'
    BY <1>5
  <1>6. CASE d \in session'
    BY <1>6
  <1>7. CASE Sync
    <2>1. session' = session /\ closing' = closing
      BY <1>7 DEF Sync, peerVars, seatVars
    <2>2. d \in Due => d \in synced
      BY DEF Due, Patched, Following
    <2>3. ASSUME NEW f \in Frames, net'[d] = Append(net[d], f),
                 f.kind = "patch" => Starts(net[d], d \in session)
          PROVE Ordered(net'[d], d \in session')
      <3> SUFFICES ASSUME NEW i \in DOMAIN net'[d], net'[d][i].kind = "patch", d \notin session
                   PROVE \E j \in 1..(i - 1) : net'[d][j].kind = "snapshot"
        BY <2>1
      <3>1. /\ DOMAIN net[d] = 1..Len(net[d]) /\ Len(net[d]) \in Nat
            /\ i \in 1..(Len(net[d]) + 1)
            /\ \A j \in 1..Len(net[d]) : net'[d][j] = net[d][j]
            /\ net'[d][Len(net[d]) + 1] = f
        BY <1>3, <2>3, FrameIndices
      <3>2. CASE i = Len(net[d]) + 1
        <4>1. \E j \in DOMAIN net[d] : net[d][j].kind = "snapshot"
          BY <2>3, <3>1, <3>2
        <4> QED BY <3>1, <3>2, <4>1
      <3>3. CASE i \in 1..Len(net[d])
        <4>1. \E j \in 1..(i - 1) : net[d][j].kind = "snapshot"
          BY <1>1, <3>1, <3>3
        <4> QED BY <3>1, <3>3, <4>1
      <3> QED BY <3>1, <3>2, <3>3
    <2>4. Ordered(net'[d], d \in session')
      <3>1. CASE net'[d] = net[d]
        BY <1>1, <2>1, <3>1
      <3>2. ASSUME NEW f \in Frames, net'[d] = Append(net[d], f),
                   (d \in Due \ closing /\ f.kind = "patch") \/ f.kind = "snapshot"
            PROVE Ordered(net'[d], d \in session')
        <4>1. f.kind = "patch" => Starts(net[d], d \in session)
          BY <3>2, <1>2, <2>2
        <4> QED BY <3>2, <4>1, <2>3
      <3> QED BY <1>7, <3>1, <3>2, SyncNet
    <2>5. ASSUME d \in synced' \ closing' PROVE Starts(net'[d], d \in session')
      <3>1. ASSUME NEW f \in Frames, net'[d] = Append(net[d], f),
                   f.kind = "snapshot" \/ Starts(net[d], d \in session)
            PROVE Starts(net'[d], d \in session')
        <4>1. /\ DOMAIN net[d] = 1..Len(net[d]) /\ Len(net[d]) \in Nat
              /\ DOMAIN net'[d] = 1..(Len(net[d]) + 1)
              /\ \A j \in 1..Len(net[d]) : net'[d][j] = net[d][j]
              /\ net'[d][Len(net[d]) + 1] = f
          BY <1>3, <3>1, FrameIndices
        <4> QED BY <2>1, <3>1, <4>1
      <3>2. d \in Patched => d \in synced \ closing
        BY <2>1, <2>5 DEF Patched, Following
      <3> QED BY <1>2, <1>7, <2>1, <2>5, <3>1, <3>2, SyncFollows
    <2> QED BY <2>4, <2>5
  <1> QED BY <1>4, <1>5, <1>6, <1>7, ClientEffect

-----------------------------------------------------------------------------
(* Frames lead from view to view.                                          *)

\* What the frame at i is applied to, and what a client shows once it has every frame.
Base(s, r, i) == IF s[i].kind = "snapshot" THEN Empty ELSE IF i = 1 THEN r ELSE s[i - 1].view
Latest(s, r)  == IF s = <<>> THEN r ELSE s[Len(s)].view

\* Each frame takes a replica to the view it was made for.
Linked(s, r) == \A i \in 1..Len(s) : Apply(Base(s, r, i), s[i].ops) = s[i].view
Chain == \A c \in Client : Linked(net[c], replica[c])

\* Who is in step is on the way to what it is to see.
Reached == \A c \in synced \ closing : Latest(net[c], replica[c]) = View(boundary, c \in visible)

\* Applying the first frame leaves the rest linked, and leads to the same last view.
LEMMA LinkedTail == ASSUME NEW s \in Seq(Frames), s # <<>>, NEW r, Linked(s, r)
  PROVE LET q == Apply(IF Head(s).kind = "snapshot" THEN Empty ELSE r, Head(s).ops)
        IN  /\ q = Head(s).view
            /\ Linked(Tail(s), q)
            /\ Latest(Tail(s), q) = Latest(s, r)
  <1> DEFINE q == Apply(IF Head(s).kind = "snapshot" THEN Empty ELSE r, Head(s).ops)
  <1>1. Len(s) \in Nat \ {0} /\ Head(s) = s[1]
        /\ Len(Tail(s)) = Len(s) - 1 /\ \A i \in 1..(Len(s) - 1) : Tail(s)[i] = s[i + 1]
    OBVIOUS
  <1>2. q = s[1].view
    <2>1. 1 \in 1..Len(s)
      BY <1>1
    <2>2. Apply(Base(s, r, 1), s[1].ops) = s[1].view
      BY <2>1 DEF Linked
    <2> QED BY <1>1, <2>2 DEF Base
  <1> HIDE DEF q
  <1>3. ASSUME NEW i \in 1..Len(Tail(s))
        PROVE Apply(Base(Tail(s), q, i), Tail(s)[i].ops) = Tail(s)[i].view
    <2>1. i \in 1..(Len(s) - 1) /\ i + 1 \in 1..Len(s) /\ Tail(s)[i] = s[i + 1] /\ (i + 1) - 1 = i
      BY <1>1
    <2>2. i # 1 => i - 1 \in 1..(Len(s) - 1) /\ Tail(s)[i - 1] = s[i]
      <3> SUFFICES ASSUME i # 1 PROVE i - 1 \in 1..(Len(s) - 1) /\ Tail(s)[i - 1] = s[i]
        OBVIOUS
      <3>1. i - 1 \in 1..(Len(s) - 1) /\ (i - 1) + 1 = i
        BY <1>1
      <3> QED BY <1>1, <3>1
    <2>3. Base(Tail(s), q, i) = Base(s, r, i + 1)
      BY <1>2, <2>1, <2>2 DEF Base
    <2>4. Apply(Base(s, r, i + 1), s[i + 1].ops) = s[i + 1].view
      BY <2>1 DEF Linked
    <2> QED BY <2>1, <2>3, <2>4
  <1>4. Latest(Tail(s), q) = Latest(s, r)
    <2>1. CASE Len(s) = 1
      <3>1. Tail(s) = <<>>
        <4>1. Tail(s) \in Seq(Frames) /\ Len(Tail(s)) = 0
          BY <1>1, <2>1, HeadTailProperties
        <4> QED BY <4>1, EmptySeq
      <3> QED BY <1>2, <2>1, <3>1 DEF Latest
    <2>2. CASE Len(s) # 1
      <3>1. Len(s) - 1 \in 1..(Len(s) - 1) /\ (Len(s) - 1) + 1 = Len(s)
        BY <1>1, <2>2
      <3>2. Tail(s)[Len(Tail(s))] = s[Len(s)]
        BY <1>1, <3>1
      <3>3. Tail(s) # <<>>
        <4>1. Len(Tail(s)) # Len(<<>>)
          BY <1>1, <2>2, EmptySeq
        <4> QED BY <4>1
      <3> QED BY <3>2, <3>3 DEF Latest
    <2> QED BY <2>1, <2>2
  <1> QED BY <1>1, <1>2, <1>3, <1>4 DEF Linked, q

\* A frame made for the last view, or a snapshot, links to the others.
LEMMA LinkedAppend == ASSUME NEW s \in Seq(Frames), NEW r, Linked(s, r), NEW f \in Frames,
                             Apply(IF f.kind = "snapshot" THEN Empty ELSE Latest(s, r), f.ops) = f.view
  PROVE Linked(Append(s, f), r) /\ Latest(Append(s, f), r) = f.view
  <1>1. /\ Len(s) \in Nat /\ Len(Append(s, f)) = Len(s) + 1
        /\ \A i \in 1..Len(s) : Append(s, f)[i] = s[i]
        /\ Append(s, f)[Len(s) + 1] = f
    BY FrameIndices
  <1>2. ASSUME NEW i \in 1..(Len(s) + 1)
        PROVE Apply(Base(Append(s, f), r, i), Append(s, f)[i].ops) = Append(s, f)[i].view
    <2>1. CASE i = Len(s) + 1
      <3>1. Base(Append(s, f), r, i) = IF f.kind = "snapshot" THEN Empty ELSE Latest(s, r)
        <4>1. CASE s = <<>>
          BY <1>1, <2>1, <4>1 DEF Base, Latest
        <4>2. CASE s # <<>>
          <5>1. Len(s) \in 1..Len(s) /\ i - 1 = Len(s) /\ i # 1
            BY <1>1, <2>1, <4>2
          <5> QED BY <1>1, <2>1, <4>2, <5>1 DEF Base, Latest
        <4> QED BY <4>1, <4>2
      <3> QED BY <1>1, <2>1, <3>1
    <2>2. CASE i \in 1..Len(s)
      <3>1. i # 1 => i - 1 \in 1..Len(s)
        BY <1>1, <2>2
      <3>2. Base(Append(s, f), r, i) = Base(s, r, i)
        BY <1>1, <2>2, <3>1 DEF Base
      <3> QED BY <1>1, <2>2, <3>2 DEF Linked
    <2> QED BY <1>1, <2>1, <2>2
  <1>3. Append(s, f) # <<>>
    <2>1. Len(Append(s, f)) # Len(<<>>)
      BY <1>1, EmptySeq
    <2> QED BY <2>1
  <1> QED BY <1>1, <1>2, <1>3 DEF Linked, Latest

\* Every step keeps the frames linked, and whoever is in step on the way to its view,
\* when every key can be encoded.
LEMMA ChainNext == ASSUME BadKey = {}, TypeOK, Changes, Chain, Reached, [Next]_vars
  PROVE Chain' /\ Reached'
  <1> SUFFICES ASSUME NEW d \in Client
               PROVE /\ Linked(net'[d], replica'[d])
                     /\ d \in synced' \ closing' =>
                          Latest(net'[d], replica'[d]) = View(boundary', d \in visible')
    <2>1. synced' \subseteq Client
      BY TypeNext DEF TypeOK
    <2> QED BY <2>1 DEF Chain, Reached, Linked, Latest, View, ToWire, Empty, Base, Apply
  <1>1. Linked(net[d], replica[d])
    BY DEF Chain
  <1>2. d \in synced \ closing => Latest(net[d], replica[d]) = View(boundary, d \in visible)
    BY DEF Reached
  <1>3. net[d] \in Seq(Frames)
    BY DEF TypeOK, Frames
  <1>4. CASE /\ net'[d] = net[d] /\ replica'[d] = replica[d]
             /\ d \in synced' \ closing' =>
                  d \in synced \ closing /\ boundary' = boundary /\ (d \in visible <=> d \in visible')
    <2>1. ASSUME d \in synced' \ closing'
          PROVE View(boundary', d \in visible') = View(boundary, d \in visible)
      BY <1>4, <2>1 DEF View
    <2> QED BY <1>1, <1>2, <1>4, <2>1
  <1>5. CASE net'[d] = <<>> /\ d \notin synced' \ closing'
    <2>1. Len(<<>>) = 0
      OBVIOUS
    <2> QED BY <1>5, <2>1 DEF Linked
  <1>6. CASE /\ net[d] # <<>> /\ net'[d] = Tail(net[d])
             /\ replica'[d] = Apply(IF Head(net[d]).kind = "snapshot" THEN Empty ELSE replica[d],
                                    Head(net[d]).ops)
             /\ UNCHANGED <<synced, closing, boundary, visible>>
    BY <1>1, <1>2, <1>3, <1>6, LinkedTail
  <1>7. CASE Sync
    <2>1. replica' = replica /\ closing' = closing /\ boundary' = Current /\ visible' = VisibleNow
      BY <1>7 DEF Sync, peerVars, seatVars
    <2>2. ASSUME NEW f \in Frames, net'[d] = Append(net[d], f),
                 f.view = View(Current, d \in VisibleNow),
                 \/ d \in Due \ closing /\ f.kind = "patch" /\ f.ops = DeltaOps(d)
                 \/ d \in Snapped \ closing /\ f.kind = "snapshot" /\ f.ops = SnapshotOps(Current, d)
          PROVE Linked(net'[d], replica'[d]) /\ Latest(net'[d], replica'[d]) = f.view
      <3>1. CASE d \in Due \ closing /\ f.kind = "patch" /\ f.ops = DeltaOps(d)
        <4>1. d \in Patched /\ d \in synced \ closing
          BY <3>1 DEF Due, Patched, Following
        <4>2. Apply(Latest(net[d], replica[d]), f.ops) = f.view
          BY <1>2, <2>2, <3>1, <4>1, PatchExact
        <4> QED BY <1>1, <1>3, <2>1, <2>2, <3>1, <4>2, LinkedAppend
      <3>2. CASE d \in Snapped \ closing /\ f.kind = "snapshot" /\ f.ops = SnapshotOps(Current, d)
        <4>1. d \in Waiting
          BY <3>2 DEF Snapped
        <4>2. Apply(Empty, f.ops) = f.view
          BY <2>2, <3>2, <4>1, SnapshotExact
        <4> QED BY <1>1, <1>3, <2>1, <2>2, <3>2, <4>2, LinkedAppend
      <3> QED BY <2>2, <3>1, <3>2
    <2>3. CASE net'[d] = net[d]
      <3>1. Linked(net'[d], replica'[d])
        BY <1>1, <2>1, <2>3
      <3>2. ASSUME d \in synced' \ closing'
            PROVE Latest(net'[d], replica'[d]) = View(boundary', d \in visible')
        <4>1. \A f \in Frames : net[d] # Append(net[d], f)
          BY <1>3
        <4>2. d \in Patched /\ d \in synced \ closing /\ d \notin Due
          BY <1>7, <2>1, <2>3, <3>2, <4>1, SyncFollows
        <4>3. Encodable(DeltaOps(d))
          BY DEF Encodable
        <4>4. DeltaOps(d) = Silent
          BY <4>2, <4>3 DEF Due
        <4>5. View(boundary, d \in visible) \in Content
          BY ViewType DEF TypeOK
        <4>6. View(Current, d \in VisibleNow) = View(boundary, d \in visible)
          BY <4>2, <4>4, <4>5, PatchExact, SilentApply
        <4>7. View(boundary', d \in visible') = View(Current, d \in VisibleNow)
          BY <2>1 DEF View
        <4> QED BY <1>2, <2>1, <2>3, <4>2, <4>6, <4>7
      <3> QED BY <3>1, <3>2
    <2>4. View(boundary', d \in visible') = View(Current, d \in VisibleNow)
      BY <2>1 DEF View
    <2> QED BY <1>7, <2>2, <2>3, <2>4, SyncNet
  <1> QED BY <1>4, <1>5, <1>6, <1>7, ClientEffect, SMTT(30)

-----------------------------------------------------------------------------
(* The theorems.                                                           *)

\* What holds whatever keys there are.
SyncInv == TypeOK /\ PauseEnds /\ QueueBounded /\ NoDesync /\ Begun

\* What holds with them when every key can be encoded.
StreamInv == SyncInv /\ Changes /\ Chain /\ Reached

\* At first nobody is in step and nothing is on the way.
LEMMA InvInit == ASSUME Init PROVE StreamInv
  <1>1. \A c \in Client : net[c] = <<>>
    BY DEF Init
  <1>2. Len(<<>>) = 0 /\ DOMAIN <<>> = {}
    OBVIOUS
  <1>3. PauseEnds /\ NoDesync /\ Begun
    BY <1>1, <1>2 DEF Init, PauseEnds, NoDesync, Begun
  <1>4. QueueBounded
    <2>1. 0 <= 1 + (IF PauseAt > ResumeAt THEN PauseAt ELSE ResumeAt)
      BY StateSyncAssumption
    <2> QED BY <1>1, <1>2, <2>1 DEF QueueBounded
  <1>5. Chain /\ Reached
    BY <1>1, <1>2 DEF Init, Chain, Linked, Reached
  <1> QED BY <1>3, <1>4, <1>5, TypeInit, ChangesInit DEF SyncInv, StreamInv

\* Every step keeps them.
LEMMA SyncInvNext == ASSUME SyncInv, [Next]_vars PROVE SyncInv'
  BY TypeNext, PauseEndsNext, QueueBoundedNext, SessionNext DEF SyncInv

\* Every step keeps StreamInv when every key can be encoded.
LEMMA StreamInvNext == ASSUME BadKey = {}, StreamInv, [Next]_vars PROVE StreamInv'
  BY SyncInvNext, ChangesNext, ChainNext DEF SyncInv, StreamInv

\* A client in step with nothing on the way has what it is to see.
LEMMA FollowsFromReached == ASSUME Reached PROVE ReplicaFollows
  BY DEF Reached, Latest, ReplicaFollows

\* A boundary tells a client nothing of a map its filter turns down.
LEMMA FilterStep == ASSUME TypeOK, [Next]_vars
  PROVE \A c \in Client \ allowed :
          Len(net'[c]) > Len(net[c]) => net'[c][Len(net'[c])].ops.put = Nothing
  <1> SUFFICES ASSUME NEW c \in Client, c \notin allowed, Len(net'[c]) > Len(net[c])
               PROVE net'[c][Len(net'[c])].ops.put = Nothing
    OBVIOUS
  <1>9. net[c] \in Seq(Frames)
    BY DEF TypeOK, Frames
  <1>0. net[c] \in Seq(Frames) /\ Len(net[c]) \in Nat
    BY <1>9, LenProperties
  <1>1. net'[c] # net[c]
    BY <1>0
  <1>2. net'[c] # <<>>
    BY <1>0, EmptySeq
  <1>3. ~(net[c] # <<>> /\ net'[c] = Tail(net[c]))
    <2> SUFFICES ASSUME net[c] # <<>>, net'[c] = Tail(net[c]) PROVE FALSE
      OBVIOUS
    <2>1. Len(net'[c]) = Len(net[c]) - 1
      BY <1>0, HeadTailProperties
    <2> QED BY <1>0, <2>1
  <1>4. Sync
    BY <1>1, <1>2, <1>3, ClientEffect
  <1>5. PICK f \in Frames : /\ net'[c] = Append(net[c], f)
                            /\ \/ c \in Due /\ f.ops = DeltaOps(c)
                               \/ f.ops = SnapshotOps(Current, c)
    BY <1>1, <1>4, SyncNet
  <1>6. net'[c][Len(net'[c])] = f
    BY <1>0, <1>5, FrameIndices
  <1>7. DeltaOps(c).put = Nothing
    BY DEF DeltaOps, Silent, Hide
  <1>8. SnapshotOps(Current, c).put = Nothing
    BY DEF SnapshotOps
  <1> QED BY <1>5, <1>6, <1>7, <1>8

\* No frame carries a value of a filtered map to a client its filter turns down at that
\* boundary, whatever the state, the wire or the other clients do (encoder.ts,
\* generateDeltas and generateSnapshot).
THEOREM FilterIsKept == Spec => FilterHolds
  <1>1. TypeOK /\ [Next]_vars =>
          [\A c \in Client \ allowed :
             Len(net'[c]) > Len(net[c]) => net'[c][Len(net'[c])].ops.put = Nothing]_vars
    BY FilterStep
  <1> QED BY <1>1, TypeCorrect, PTL DEF Spec, FilterHolds

\* No client is sent a patch before its snapshot, and the frames queued for a slow socket
\* of this process are bounded, also when some keys cannot be encoded (room.ts _syncOnce
\* and _applyBackpressure).
THEOREM StreamsAreOrdered == Spec => [](NoDesync /\ QueueBounded)
  <1>1. Init => SyncInv
    BY InvInit DEF StreamInv
  <1>2. SyncInv /\ [Next]_vars => SyncInv'
    BY SyncInvNext
  <1>3. SyncInv => NoDesync /\ QueueBounded
    BY DEF SyncInv
  <1> QED BY <1>1, <1>2, <1>3, PTL DEF Spec

\* When every key can be encoded, a client in step that received everything sent to it
\* has the state of the last boundary as its filter let it see it, on top of what the two
\* theorems above say: coalescing, clearing, revealing, hiding, pausing and replacing
\* lose nothing, for every set of keys and values and every rounding of the wire.
THEOREM StaysInStep == ASSUME BadKey = {} PROVE Spec => InStep
  <1>1. Init => StreamInv
    BY InvInit
  <1>2. StreamInv /\ [Next]_vars => StreamInv'
    BY StreamInvNext
  <1>3. StreamInv => ReplicaFollows /\ NoDesync /\ QueueBounded
    BY FollowsFromReached DEF StreamInv, SyncInv
  <1>4. Spec => [](ReplicaFollows /\ NoDesync /\ QueueBounded)
    BY <1>1, <1>2, <1>3, PTL DEF Spec
  <1> QED BY <1>4, FilterIsKept DEF InStep

-----------------------------------------------------------------------------
(* Snapshots and patches implement the stream of views.                    *)

\* The views of the frames on the way, as ReplicaStream sees them.
ViewsOf(s) == [i \in DOMAIN s |-> s[i].view]

\* The views of fewer or more frames are fewer or more views.
LEMMA ViewsOfFrames == ASSUME NEW s \in Seq(Frames), NEW f \in Frames
  PROVE /\ ViewsOf(s) \in Seq(Content)
        /\ ViewsOf(Append(s, f)) = Append(ViewsOf(s), f.view)
        /\ ViewsOf(<<>>) = <<>>
        /\ s # <<>> => /\ ViewsOf(s) # <<>> /\ Head(ViewsOf(s)) = Head(s).view
                       /\ ViewsOf(Tail(s)) = Tail(ViewsOf(s))
  <1>1. /\ DOMAIN s = 1..Len(s) /\ Len(s) \in Nat
        /\ \A i \in 1..Len(s) : s[i] \in Frames
    BY LenProperties, ElementOfSeq
  <1>2. ViewsOf(s) \in Seq(Content)
    BY <1>1 DEF ViewsOf, Frames
  <1>3. Len(ViewsOf(s)) = Len(s) /\ \A i \in 1..Len(s) : ViewsOf(s)[i] = s[i].view
    BY <1>1 DEF ViewsOf
  <1>4. ViewsOf(Append(s, f)) = Append(ViewsOf(s), f.view)
    <2>1. /\ Len(Append(s, f)) = Len(s) + 1 /\ DOMAIN Append(s, f) = 1..(Len(s) + 1)
          /\ \A i \in 1..Len(s) : Append(s, f)[i] = s[i]
          /\ Append(s, f)[Len(s) + 1] = f
      BY FrameIndices
    <2>2. f.view \in Content
      BY DEF Frames
    <2>3. Append(ViewsOf(s), f.view) \in Seq(Content)
          /\ Len(Append(ViewsOf(s), f.view)) = Len(s) + 1
          /\ \A i \in 1..(Len(s) + 1) :
               Append(ViewsOf(s), f.view)[i] = IF i = Len(s) + 1 THEN f.view ELSE s[i].view
      BY <1>1, <1>2, <1>3, <2>2
    <2>4. ViewsOf(Append(s, f)) = [i \in 1..(Len(s) + 1) |->
                                     IF i = Len(s) + 1 THEN f.view ELSE s[i].view]
      BY <1>1, <2>1 DEF ViewsOf
    <2>5. [i \in 1..(Len(s) + 1) |-> IF i = Len(s) + 1 THEN f.view ELSE s[i].view] \in Seq(Content)
      BY <1>1, <2>2 DEF Frames
    <2> QED BY <1>1, <2>3, <2>4, <2>5, SeqEqual
  <1>5. ViewsOf(<<>>) = <<>>
    <2>1. <<>> \in Seq(Frames)
      OBVIOUS
    <2> QED BY DEF ViewsOf
  <1>6. ASSUME s # <<>>
        PROVE /\ ViewsOf(s) # <<>> /\ Head(ViewsOf(s)) = Head(s).view
              /\ ViewsOf(Tail(s)) = Tail(ViewsOf(s))
    <2>1. Len(s) > 0 /\ Head(s) = s[1]
      BY <1>6, EmptySeq, <1>1
    <2>2. ViewsOf(s) # <<>> /\ Head(ViewsOf(s)) = s[1].view
      BY <1>1, <1>2, <1>3, <2>1, EmptySeq
    <2>3. Tail(ViewsOf(s)) \in Seq(Content) /\ Len(Tail(ViewsOf(s))) = Len(s) - 1
          /\ \A i \in 1..(Len(s) - 1) : Tail(ViewsOf(s))[i] = s[i + 1].view
      <3>1. Tail(ViewsOf(s)) \in Seq(Content) /\ Len(Tail(ViewsOf(s))) = Len(s) - 1
            /\ \A i \in 1..(Len(s) - 1) : Tail(ViewsOf(s))[i] = ViewsOf(s)[i + 1]
        BY <1>2, <1>3, <2>2, HeadTailProperties
      <3>2. \A i \in 1..(Len(s) - 1) : i + 1 \in 1..Len(s)
        BY <1>1
      <3> QED BY <1>3, <3>1, <3>2
    <2>4. Tail(s) \in Seq(Frames) /\ Len(Tail(s)) = Len(s) - 1 /\ DOMAIN Tail(s) = 1..(Len(s) - 1)
          /\ \A i \in 1..(Len(s) - 1) : Tail(s)[i] = s[i + 1]
      BY <1>6, HeadTailProperties, LenProperties
    <2>5. ViewsOf(Tail(s)) \in Seq(Content) /\ Len(ViewsOf(Tail(s))) = Len(s) - 1
          /\ \A i \in 1..(Len(s) - 1) : ViewsOf(Tail(s))[i] = s[i + 1].view
      <3>1. \A i \in 1..(Len(s) - 1) : i + 1 \in 1..Len(s)
        BY <1>1
      <3>2. ViewsOf(Tail(s)) = [i \in 1..(Len(s) - 1) |-> s[i + 1].view]
        BY <2>4 DEF ViewsOf
      <3>3. \A i \in 1..(Len(s) - 1) : s[i + 1].view \in Content
        BY <1>1, <3>1 DEF Frames
      <3>4. Len(s) - 1 \in Nat
        BY <1>1, <2>1
      <3> QED BY <3>2, <3>3, <3>4
    <2> QED BY <2>1, <2>2, <2>3, <2>5, SeqEqual
  <1> QED BY <1>2, <1>4, <1>5, <1>6

\* What a client is to see, and every client's, as ReplicaStream sees them.
LatestOf(c) == IF c \in synced \ closing THEN View(boundary, c \in visible) ELSE Empty
Followers   == synced \ closing
LatestViews == [c \in Client |-> LatestOf(c)]
Pipes       == [c \in Client |-> ViewsOf(net[c])]

\* No frames, no views.
LEMMA NoViews == ViewsOf(<<>>) = <<>>
  BY DEF ViewsOf

\* At first every client shows nothing and nothing is on the way.
LEMMA StreamInit == ASSUME Init PROVE Stream!Init
  <1>1. \A c \in Client : ViewsOf(net[c]) = <<>>
    BY NoViews DEF Init
  <1>2. synced \ closing = {}
    BY DEF Init
  <1>3. [c \in Client |-> [i \in DOMAIN net[c] |-> net[c][i].view]] = [c \in Client |-> <<>>]
    BY <1>1 DEF ViewsOf
  <1> QED BY <1>2, <1>3 DEF Init, Stream!Init

\* A step that leaves the frames, the replicas, the boundary and who is in step is a
\* stutter.
LEMMA StreamStutter == ASSUME TypeOK, UNCHANGED <<net, replica, boundary>>,
                              synced' \ closing' = synced \ closing,
                              \A c \in synced \ closing : c \in visible <=> c \in visible'
  PROVE UNCHANGED Stream!vars
  <1>1. \A c \in Client : LatestOf(c)' = LatestOf(c)
    BY DEF LatestOf, View, ToWire, Empty
  <1>2. [c \in Client |-> LatestOf(c)]' = [c \in Client |-> LatestOf(c)]
    BY <1>1
  <1> QED BY <1>2 DEF Stream!vars, LatestOf

\* A boundary sends every follower its new view, or leaves out one it has already, and
\* sends nobody else anything.
LEMMA SyncPublishes == ASSUME BadKey = {}, StreamInv, Sync, NEW c \in Client
  PROVE /\ c \notin Followers' => net'[c] = net[c]
        /\ c \in Followers' =>
             \/ ViewsOf(net'[c]) = Append(ViewsOf(net[c]), LatestOf(c)')
             \/ c \in Followers /\ LatestOf(c)' = LatestOf(c) /\ net'[c] = net[c]
  <1>0. TypeOK /\ Changes /\ net[c] \in Seq(Frames)
    BY DEF StreamInv, SyncInv, TypeOK, Frames
  <1>1. closing' = closing /\ synced' = Patched \cup Snapped /\ boundary' = Current
        /\ visible' = VisibleNow
    BY DEF Sync, seatVars
  <1>2. ASSUME c \notin Followers' PROVE net'[c] = net[c]
    <2>1. c \in closing \/ c \notin Due \cup Snapped
      BY <1>1, <1>2 DEF Followers, Due
    <2> QED BY <1>0, <2>1, SyncNet
  <1>3. ASSUME c \in Followers'
        PROVE \/ ViewsOf(net'[c]) = Append(ViewsOf(net[c]), LatestOf(c)')
              \/ c \in Followers /\ LatestOf(c)' = LatestOf(c) /\ net'[c] = net[c]
    <2>0. c \in synced' \ closing'
      BY <1>3 DEF Followers
    <2>1. LatestOf(c)' = View(Current, c \in VisibleNow)
      BY <1>1, <2>0 DEF LatestOf, View, ToWire, Empty
    <2>2. CASE net'[c] = net[c]
      <3>1. \A f \in Frames : net[c] # Append(net[c], f)
        BY <1>0
      <3>2. c \in Patched /\ c \in Followers /\ c \notin Due
        BY <1>0, <1>1, <2>0, <2>2, <3>1, SyncFollows DEF Followers
      <3>3. DeltaOps(c) = Silent
        BY <3>2 DEF Due, Encodable
      <3>4. View(boundary, c \in visible) \in Content
        BY <1>0, ViewType DEF TypeOK
      <3>5. View(Current, c \in VisibleNow) = View(boundary, c \in visible)
        BY <1>0, <3>2, <3>3, <3>4, PatchExact, SilentApply
      <3>6. LatestOf(c) = View(boundary, c \in visible)
        BY <3>2 DEF LatestOf, Followers
      <3> QED BY <2>1, <2>2, <3>2, <3>5, <3>6
    <2>3. ASSUME NEW f \in Frames, net'[c] = Append(net[c], f),
                 f.view = View(Current, c \in VisibleNow)
          PROVE ViewsOf(net'[c]) = Append(ViewsOf(net[c]), LatestOf(c)')
      BY <1>0, <2>1, <2>3, ViewsOfFrames
    <2> QED BY <1>0, <2>2, <2>3, SyncNet
  <1> QED BY <1>2, <1>3

\* A step on the views is a step of ReplicaStream.
LEMMA PublishStep ==
  ASSUME TypeOK', replica' = replica,
         \A c \in Client \ Followers' : net'[c] = net[c],
         \A c \in Client : c \in Followers' =>
             \/ ViewsOf(net'[c]) = Append(ViewsOf(net[c]), LatestOf(c)')
             \/ c \in Followers /\ LatestOf(c)' = LatestOf(c) /\ net'[c] = net[c]
  PROVE Stream!Publish
  <1>1. Followers' \in SUBSET Client
    BY DEF TypeOK, Followers
  <1>2. \A c \in Client : LatestOf(c)' \in Content
    <2>1. Empty' \in Content' /\ Content' = Content
      BY DEF Empty, Content
    <2> SUFFICES ASSUME NEW c \in Client PROVE LatestOf(c)' \in Content
      OBVIOUS
    <2>2. boundary' \in Content
      BY DEF TypeOK
    <2>3. View(boundary', c \in visible') \in Content
      BY <2>2, ViewType
    <2>4. Empty \in Content
      BY DEF Empty, Content
    <2> QED BY <2>3, <2>4 DEF LatestOf
  <1>3. LatestViews' \in [Client -> Content]
    BY <1>2 DEF LatestViews
  <1>4. \A c \in Client \ Followers' : LatestViews'[c] = Empty /\ Pipes'[c] = Pipes[c]
    BY DEF LatestViews, LatestOf, Followers, Pipes
  <1>5. \A c \in Followers' : \/ Pipes'[c] = Append(Pipes[c], LatestViews'[c])
                              \/ /\ c \in Followers
                                 /\ LatestViews'[c] = LatestViews[c] /\ Pipes'[c] = Pipes[c]
    BY <1>1 DEF Pipes, LatestViews
  <1>6. DOMAIN Pipes' = Client
    BY DEF Pipes
  <1> QED BY <1>1, <1>3, <1>4, <1>5, <1>6
      DEF Stream!Publish, Followers, LatestViews, LatestOf, Pipes, ViewsOf

\* A lost connection cuts the client's stream.
LEMMA CutStep ==
  ASSUME TypeOK, NEW c \in Client, net' = [net EXCEPT ![c] = <<>>],
         synced' = synced \ {c}, closing' = closing \ {c}, boundary' = boundary,
         \A d \in Client \ {c} : d \in visible <=> d \in visible',
         replica' \in {replica, [replica EXCEPT ![c] = Empty]}
  PROVE Stream!Cut(c)
  <1>1. Followers' = Followers \ {c}
    BY DEF Followers
  <1>2. LatestViews' = [LatestViews EXCEPT ![c] = Empty]
    <2>1. ASSUME NEW d \in Client
          PROVE LatestOf(d)' = IF d = c THEN Empty ELSE LatestOf(d)
      BY <1>1 DEF LatestOf, Followers, View, ToWire, Empty
    <2> QED BY <2>1 DEF LatestViews
  <1>3. Pipes' = [Pipes EXCEPT ![c] = <<>>]
    <2>1. ASSUME NEW d \in Client
          PROVE ViewsOf(net'[d]) = IF d = c THEN <<>> ELSE ViewsOf(net[d])
      BY NoViews DEF TypeOK
    <2> QED BY <2>1 DEF Pipes
  <1> QED BY <1>1, <1>2, <1>3 DEF Stream!Cut, Followers, LatestViews, LatestOf, Pipes, ViewsOf

\* A frame received shows the view it was made for.
LEMMA ShowStep == ASSUME StreamInv, NEW c \in Client, Receive(c) PROVE Stream!Show(c)
  <1>0. TypeOK /\ Chain /\ NoDesync /\ net[c] \in Seq(Frames) /\ net[c] # <<>>
    BY DEF StreamInv, SyncInv, TypeOK, Frames, Receive
  <1> DEFINE f == Head(net[c])
             desync == f.kind = "patch" /\ c \notin session
  <1>1. ~desync
    <2>1. 1 \in DOMAIN net[c] /\ f = net[c][1]
      BY <1>0, EmptySeq, LenProperties
    <2>2. 1..(1 - 1) = {}
      OBVIOUS
    <2> QED BY <1>0, <2>1, <2>2 DEF NoDesync
  <1>2. /\ net' = [net EXCEPT ![c] = Tail(@)]
        /\ UNCHANGED <<synced, closing, boundary, visible>>
        /\ replica' = [replica EXCEPT ![c] = Apply(IF f.kind = "snapshot" THEN Empty ELSE @, f.ops)]
    BY <1>1 DEF Receive, syncVars
  <1>3. Apply(IF f.kind = "snapshot" THEN Empty ELSE replica[c], f.ops) = f.view
    <2>1. Linked(net[c], replica[c])
      BY <1>0 DEF Chain
    <2> QED BY <1>0, <2>1, LinkedTail
  <1>4. replica' = [replica EXCEPT ![c] = f.view]
    <2> HIDE DEF f
    <2> QED BY <1>0, <1>2, <1>3 DEF TypeOK
  <1>5. f \in Frames
    BY <1>0, HeadTailProperties
  <1>6. ViewsOf(net[c]) # <<>> /\ Head(ViewsOf(net[c])) = f.view
        /\ ViewsOf(Tail(net[c])) = Tail(ViewsOf(net[c]))
    BY <1>0, <1>5, ViewsOfFrames
  <1>7. Pipes[c] # <<>> /\ Head(Pipes[c]) = f.view
    BY <1>6 DEF Pipes
  <1>8. Pipes' = [Pipes EXCEPT ![c] = Tail(@)]
    <2>1. ASSUME NEW d \in Client
          PROVE ViewsOf(net'[d]) = IF d = c THEN Tail(ViewsOf(net[d])) ELSE ViewsOf(net[d])
      BY <1>0, <1>2, <1>6 DEF TypeOK
    <2> QED BY <2>1 DEF Pipes
  <1>9. Followers' = Followers /\ LatestViews' = LatestViews
    BY <1>2 DEF Followers, LatestViews, LatestOf, View, ToWire, Empty
  <1>10. replica' = [replica EXCEPT ![c] = Head(Pipes[c])]
    BY <1>4, <1>7
  <1> QED BY <1>7, <1>8, <1>9, <1>10
      DEF Stream!Show, Followers, LatestViews, LatestOf, Pipes, ViewsOf

\* Every step is a step of the stream of views, or none.
LEMMA StreamStep == ASSUME BadKey = {}, StreamInv, [Next]_vars
  PROVE [Stream!Next]_(Stream!vars)
  <1>0. TypeOK /\ TypeOK'
    BY TypeNext DEF StreamInv, SyncInv
  <1>1. ASSUME UNCHANGED <<net, replica, boundary, synced, closing, visible>>
        PROVE UNCHANGED Stream!vars
    BY <1>0, <1>1, StreamStutter
  <1>2. ASSUME NEW k \in Key, NEW x, Assign(k, x) PROVE UNCHANGED Stream!vars
    BY <1>1, <1>2 DEF Assign, syncVars, seatVars, peerVars
  <1>3. CASE Clear
    BY <1>1, <1>3 DEF Clear, syncVars, seatVars, peerVars
  <1>4. ASSUME NEW s, Replace(s) PROVE UNCHANGED Stream!vars
    BY <1>1, <1>4 DEF Replace, syncVars, seatVars, peerVars
  <1>5. ASSUME NEW c \in Client, FlipFilter(c) \/ Join(c) PROVE UNCHANGED Stream!vars
    BY <1>1, <1>5 DEF FlipFilter, Join, syncVars, seatVars, peerVars
  <1>6. ASSUME NEW c \in Client, Reconnect(c) PROVE UNCHANGED Stream!vars
    <2>1. c \notin synced
      BY <1>0, <1>6 DEF Reconnect, TypeOK
    <2> QED BY <1>1, <1>6, <2>1 DEF Reconnect
  <1>7. CASE Sync
    <2>1. replica' = replica
      BY <1>7 DEF Sync, peerVars
    <2>2. Stream!Publish
      BY <1>0, <1>7, <2>1, SyncPublishes, PublishStep
    <2> QED BY <2>2 DEF Stream!Next
  <1>8. ASSUME NEW c \in Client, Shed(c) PROVE Stream!Next
    <2>1. UNCHANGED <<net, replica, boundary, synced, visible>> /\ closing' = closing \cup {c}
      BY <1>8 DEF Shed, syncVars, peerVars
    <2>2. \A d \in Client : d \in Followers' => d \in Followers /\ LatestOf(d)' = LatestOf(d)
      BY <2>1 DEF Followers, LatestOf, View, ToWire, Empty
    <2>3. Stream!Publish
      BY <1>0, <2>1, <2>2, PublishStep
    <2> QED BY <2>3 DEF Stream!Next
  <1>9. ASSUME NEW c \in Client, Disconnect(c) \/ Leave(c) PROVE Stream!Next
    <2>1. /\ net' = [net EXCEPT ![c] = <<>>]
          /\ synced' = synced \ {c} /\ closing' = closing \ {c} /\ boundary' = boundary
      BY <1>9 DEF Disconnect, Leave
    <2>2. \A d \in Client \ {c} : d \in visible <=> d \in visible'
      BY <1>9 DEF Disconnect, Leave
    <2>3. replica' \in {replica, [replica EXCEPT ![c] = Empty]}
      BY <1>9 DEF Disconnect, Leave, peerVars
    <2>4. Stream!Cut(c)
      BY <1>0, <2>1, <2>2, <2>3, CutStep
    <2> QED BY <2>4 DEF Stream!Next
  <1>10. ASSUME NEW c \in Client, Receive(c) PROVE Stream!Next
    BY <1>10, ShowStep DEF Stream!Next
  <1>11. CASE UNCHANGED vars
    BY <1>1, <1>11 DEF vars, syncVars, seatVars, peerVars
  <1> QED BY <1>2, <1>3, <1>4, <1>5, <1>6, <1>7, <1>8, <1>9, <1>10, <1>11 DEF Next, Set, Delete

\* Snapshots, patches, pauses, reconnections and replaced states implement the stream of
\* views of ReplicaStream, when every key can be encoded: what a client shows are the
\* views of the boundaries, in order and without a gap from its snapshot on.
THEOREM StreamIsImplemented == ASSUME BadKey = {} PROVE Spec => ImplementsStream
  <1>1. Init => StreamInv
    BY InvInit
  <1>2. StreamInv /\ [Next]_vars => StreamInv'
    BY StreamInvNext
  <1>3. Init => Stream!Init
    BY StreamInit
  <1>4. StreamInv /\ [Next]_vars => [Stream!Next]_(Stream!vars)
    BY StreamStep
  <1> QED BY <1>1, <1>2, <1>3, <1>4, PTL DEF Spec, ImplementsStream, Stream!Spec

=============================================================================
