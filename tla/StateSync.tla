------------------------------ MODULE StateSync ------------------------------
(***************************************************************************)
(* How the state of a room reaches its clients (core room.ts, the encoder  *)
(* and the collections of the state package, the decoder, the client SDK). *)
(*                                                                         *)
(* At every boundary of the sync loop the room sends a patch to the        *)
(* clients that have a snapshot, forgets what changed, and sends a         *)
(* snapshot to those that wait for one.  The state is one map field with a *)
(* filter: a field without a filter is a field whose filter admits         *)
(* everybody.  Values go over the wire through Wire, which may lose        *)
(* precision.                                                              *)
(***************************************************************************)
EXTENDS Naturals, Sequences

CONSTANTS
    Client,      \* seats of the room
    Remote,      \* seats whose socket is on another process
    Key, Val,    \* keys and values of the map
    BadKey,      \* keys the declared key type cannot encode
    Wire,        \* the value a receiver decodes, of a server's value
    Absent,      \* the key is not in the map
    None,        \* nothing is recorded, or sent, for the key
    NoState,     \* no replacement of the state is pending
    Invalid,     \* the state was replaced by one that fails validation
    Fresh,       \* contents a replacement starts with
    PauseAt,     \* pauseBytes, in frames; 0 switches backpressure off
    ResumeAt,    \* resumeBytes, in frames
    MaxWrites    \* bound on what user code does to the state

Content == [Key -> Val \cup {Absent}]
Ops     == [clear : BOOLEAN, put : [Key -> Val \cup {Absent, None}]]

ASSUME StateSyncAssumption ==
    /\ Remote \subseteq Client
    /\ BadKey \subseteq Key
    /\ Wire \in [Val -> Val]
    /\ Absent \notin Val /\ None \notin Val /\ Absent # None
    /\ NoState \notin Content /\ Invalid \notin Content /\ NoState # Invalid
    /\ Fresh \subseteq Content
    /\ PauseAt \in Nat /\ ResumeAt \in Nat /\ MaxWrites \in Nat

VARIABLES
    root,        \* "none", "untracked" (no snapshot of it yet) or "tracked"
    map,         \* content of the root's map
    next,        \* a state assigned and not adopted yet
    touched,     \* _touched: what a key held when first touched
    cleared,     \* _cleared
    joined,      \* seats with a connection
    held,        \* seats that wait for a reconnection
    closing,     \* seats whose connection was closed, not yet reported
    allowed,     \* clients the filter admits now
    visible,     \* clients it admitted at the last boundary they were told of
    synced,      \* _synced
    paused,      \* _pausedSince is set
    net,         \* state frames on the way to each client
    session,     \* clients with a codec session
    replica,     \* room.state at each client
    boundary,    \* history: the content at the last boundary
    writes       \* counts against MaxWrites

stateVars == <<root, map, next, touched, cleared>>
seatVars  == <<joined, held, closing>>
syncVars  == <<visible, synced, paused>>
peerVars  == <<session, replica>>
vars == <<stateVars, seatVars, allowed, syncVars, net, peerVars, boundary, writes>>

Empty   == [k \in Key |-> Absent]
Nothing == [k \in Key |-> None]

(* A content as receivers decode it, and what one client sees of it. *)
ToWire(m) == [k \in Key |-> IF m[k] = Absent THEN Absent ELSE Wire[m[k]]]
View(m, sees) == IF sees THEN ToWire(m) ELSE Empty

-----------------------------------------------------------------------------
(* User code changes the state.                                            *)

Write == writes < MaxWrites /\ writes' = writes + 1

(* Mutant: every change of a key overwrites what was recorded of it. *)
Record_Last(k) ==
    IF cleared \/ root # "tracked" THEN touched ELSE [touched EXCEPT ![k] = map[k]]

(* The first change of a key since the last boundary records what receivers *)
(* have of it, unless the whole map was cleared or nobody has the map.       *)
Record(k) ==
    IF cleared \/ root # "tracked" \/ touched[k] # None
    THEN touched
    ELSE [touched EXCEPT ![k] = map[k]]

(* A change of one key of the current state: of the root, or of a state     *)
(* that replaced it and has not been adopted.                                *)
Assign(k, x) ==
    /\ Write
    /\ \/ /\ next \in Content
          /\ next[k] # x
          /\ next' = [next EXCEPT ![k] = x]
          /\ UNCHANGED <<map, touched>>
       \/ /\ next = NoState /\ root # "none"
          /\ map[k] # x
          /\ touched' = Record(k)
          /\ map' = [map EXCEPT ![k] = x]
          /\ UNCHANGED next
    /\ UNCHANGED <<root, cleared, seatVars, allowed, syncVars, net, peerVars, boundary>>

Set(k, v) == Assign(k, v)
Delete(k) == Assign(k, Absent)

Clear ==
    /\ Write
    /\ \/ /\ next \in Content \ {Empty}
          /\ next' = Empty
          /\ UNCHANGED <<map, touched, cleared>>
       \/ /\ next = NoState /\ map # Empty
          /\ map' = Empty
          /\ cleared' = (cleared \/ root = "tracked")
          /\ touched' = IF root = "tracked" THEN Nothing ELSE touched
          /\ UNCHANGED next
    /\ UNCHANGED <<root, seatVars, allowed, syncVars, net, peerVars, boundary>>

(* room.state = a new object; the room notices at the next boundary. *)
Replace(s) ==
    /\ Write
    /\ next' = s
    /\ UNCHANGED <<root, map, touched, cleared, seatVars, allowed, syncVars, net,
                   peerVars, boundary>>

(* Something the filter reads changes, and with it what a client may see. *)
FlipFilter(c) ==
    /\ Write
    /\ allowed' = IF c \in allowed THEN allowed \ {c} ELSE allowed \cup {c}
    /\ UNCHANGED <<stateVars, seatVars, syncVars, net, peerVars, boundary>>

-----------------------------------------------------------------------------
(* What goes to one client.                                                *)

Puts(m) == [k \in Key |-> IF m[k] = Absent THEN None ELSE Wire[m[k]]]

(* The final value of each touched key, unless receivers have it already. *)
Coalesced ==
    [k \in Key |-> IF touched[k] = None \/ ToWire(touched)[k] = ToWire(map)[k]
                   THEN None
                   ELSE ToWire(map)[k]]

(* Mutant: the content of a cleared map is sent without the CLEAR. *)
CollectionOps_NoClear ==
    [clear |-> FALSE, put |-> IF cleared THEN Puts(map) ELSE Coalesced]

CollectionOps ==
    IF cleared THEN [clear |-> TRUE, put |-> Puts(map)]
               ELSE [clear |-> FALSE, put |-> Coalesced]

Silent == [clear |-> FALSE, put |-> Nothing]
Reveal == [clear |-> FALSE, put |-> Puts(map)]
Hide   == [clear |-> TRUE, put |-> Nothing]

(* generateDeltas for one client: the changes while it sees the map, the    *)
(* whole map when it begins to, an empty one when it no longer does.         *)
DeltaOps(c) ==
    IF root # "tracked" THEN Silent ELSE
    CASE c \in visible /\ c \in allowed       -> CollectionOps
      [] c \notin visible /\ c \in allowed    -> Reveal
      [] c \in visible /\ c \notin allowed    -> Hide
      [] c \notin visible /\ c \notin allowed -> Silent

SnapshotOps(m, c) ==
    [clear |-> FALSE, put |-> IF c \in allowed THEN Puts(m) ELSE Nothing]

Encodable(ops) == \A k \in BadKey : ops.put[k] = None

(* The view is history: what the client is meant to see at this boundary. *)
Frame(kind, ops, view) == [kind |-> kind, ops |-> ops, view |-> view]

-----------------------------------------------------------------------------
(* One boundary of the sync loop.                                          *)

Adopting == next \in Content
Current  == IF Adopting THEN next ELSE map

(* Seats the adopted state leaves with a snapshot: none of a new state's. *)
Following == IF Adopting THEN {} ELSE synced

(* _applyBackpressure: by what is queued for the sockets of this process. *)
Measured  == IF PauseAt = 0 THEN {} ELSE joined \ Remote
Pausing   == {c \in Measured \ paused : Len(net[c]) > PauseAt}

(* Mutant: a queue has to be below resumeBytes. *)
Resuming_Below == {c \in Measured \cap paused : Len(net[c]) < ResumeAt}

Resuming  == {c \in Measured \cap paused : Len(net[c]) <= ResumeAt}
PausedNow == (paused \cup Pausing) \ Resuming

Patched == (joined \cap Following) \ Pausing
Due     == {c \in Patched : DeltaOps(c) # Silent /\ Encodable(DeltaOps(c))}

Waiting == joined \ (Patched \cup PausedNow)
Snapped == {c \in Waiting : Encodable(SnapshotOps(Current, c))}

(* A snapshot of the root makes its changes tracked. *)
RootAtSnapshots == IF Adopting THEN "untracked" ELSE root
RootNow == IF RootAtSnapshots = "untracked" /\ Waiting # {}
           THEN "tracked" ELSE RootAtSnapshots

(* Visibility is remembered of whom deltas or a snapshot were made for; a   *)
(* new state has no memory.                                                  *)
Told == IF RootAtSnapshots = "none" THEN {} ELSE Patched \cup Waiting
VisibleNow == (Told \cap allowed) \cup (IF Adopting THEN {} ELSE visible \ Told)

(* Frames for a connection that is closed go nowhere. *)
Sent(c) ==
    LET view == View(Current, c \in VisibleNow)
    IN  CASE c \in closing -> <<>>
          [] c \in Due \ closing -> <<Frame("patch", DeltaOps(c), view)>>
          [] c \in Snapped \ closing -> <<Frame("snapshot", SnapshotOps(Current, c), view)>>
          [] OTHER -> <<>>

Sync ==
    /\ joined # {} \/ held = {}          \* a room with held seats only is paused
    /\ root' = RootNow
    /\ map' = Current /\ boundary' = Current
    /\ next' = IF Adopting THEN NoState ELSE next
    /\ touched' = Nothing /\ cleared' = FALSE
    /\ synced' = Patched \cup Snapped
    /\ visible' = VisibleNow
    /\ paused' = PausedNow
    /\ net' = [c \in Client |-> net[c] \o Sent(c)]
    /\ UNCHANGED <<seatVars, allowed, peerVars, writes>>

-----------------------------------------------------------------------------
(* Seats and connections, as far as the state is concerned.                *)

Join(c) ==
    /\ c \notin joined \cup held
    /\ joined' = joined \cup {c}
    /\ UNCHANGED <<stateVars, held, closing, allowed, syncVars, net, peerVars,
                   boundary, writes>>

(* A limit closes the connection; the transport reports it later. *)
Shed(c) ==
    /\ c \in joined \ closing
    /\ closing' = closing \cup {c}
    /\ UNCHANGED <<stateVars, joined, held, allowed, syncVars, net, peerVars,
                   boundary, writes>>

(* Mutant: a seat stays in step while it is held. *)
Disconnect_Synced(c) ==
    /\ c \in joined
    /\ joined' = joined \ {c} /\ held' = held \cup {c}
    /\ closing' = closing \ {c}
    /\ net' = [net EXCEPT ![c] = <<>>]
    /\ UNCHANGED <<stateVars, allowed, syncVars, peerVars, boundary, writes>>

(* What was on the way is lost.  A pause is not ended by it. *)
Disconnect(c) ==
    /\ c \in joined
    /\ joined' = joined \ {c} /\ held' = held \cup {c}
    /\ closing' = closing \ {c}
    /\ synced' = synced \ {c}
    /\ net' = [net EXCEPT ![c] = <<>>]
    /\ UNCHANGED <<stateVars, allowed, visible, paused, peerVars, boundary, writes>>

(* The client forgets its session and keeps showing its replica. *)
Reconnect(c) ==
    /\ c \in held
    /\ held' = held \ {c} /\ joined' = joined \cup {c}
    /\ synced' = synced \ {c}
    /\ session' = session \ {c}
    /\ UNCHANGED <<stateVars, closing, allowed, visible, paused, net, replica,
                   boundary, writes>>

Leave(c) ==
    /\ c \in joined \cup held
    /\ joined' = joined \ {c} /\ held' = held \ {c} /\ closing' = closing \ {c}
    /\ synced' = synced \ {c} /\ visible' = visible \ {c} /\ paused' = paused \ {c}
    /\ net' = [net EXCEPT ![c] = <<>>]
    /\ session' = session \ {c}
    /\ replica' = [replica EXCEPT ![c] = Empty]
    /\ UNCHANGED <<stateVars, allowed, boundary, writes>>

(* applyDelta *)
Apply(m, ops) ==
    [k \in Key |-> CASE ops.put[k] # None -> ops.put[k]
                     [] ops.put[k] = None /\ ops.clear -> Absent
                     [] ops.put[k] = None /\ ~ops.clear -> m[k]]

(* A snapshot starts a session and a new replica; a patch needs a session,  *)
(* and without one the client drops its connection (_desync).                *)
Receive(c) ==
    /\ net[c] # <<>>
    /\ LET f == Head(net[c])
           desync == f.kind = "patch" /\ c \notin session
       IN  /\ net' = [net EXCEPT ![c] = IF desync THEN <<>> ELSE Tail(@)]
           /\ closing' = IF desync THEN closing \cup {c} ELSE closing
           /\ session' = IF desync THEN session ELSE session \cup {c}
           /\ replica' = [replica EXCEPT ![c] =
                 IF desync THEN @
                 ELSE Apply(IF f.kind = "snapshot" THEN Empty ELSE @, f.ops)]
    /\ UNCHANGED <<stateVars, joined, held, allowed, syncVars, boundary, writes>>

-----------------------------------------------------------------------------
Init ==
    /\ root \in {"none", "untracked"}
    /\ map = Empty /\ next = NoState
    /\ touched = Nothing /\ cleared = FALSE
    /\ joined = {} /\ held = {} /\ closing = {}
    /\ allowed = Client
    /\ visible = {} /\ synced = {} /\ paused = {}
    /\ net = [c \in Client |-> <<>>]
    /\ session = {} /\ replica = [c \in Client |-> Empty]
    /\ boundary = Empty
    /\ writes = 0

Next ==
    \/ \E k \in Key, v \in Val : Set(k, v)
    \/ \E k \in Key : Delete(k)
    \/ Clear
    \/ \E s \in Fresh \cup {Invalid} : Replace(s)
    \/ \E c \in Client : FlipFilter(c)
    \/ Sync
    \/ \E c \in Client :
          Join(c) \/ Shed(c) \/ Disconnect(c) \/ Reconnect(c) \/ Leave(c) \/ Receive(c)

Spec == Init /\ [][Next]_vars

(* The sync loop's timer fires, connected sockets deliver, and a closed     *)
(* connection is reported closed.  Nothing is assumed of user code, of who   *)
(* joins or leaves, or of reconnections.                                     *)
Fairness ==
    /\ WF_vars(Sync)
    /\ \A c \in Client : WF_vars(Receive(c)) /\ WF_vars(c \in closing /\ Disconnect(c))

FairSpec == Spec /\ Fairness

-----------------------------------------------------------------------------
(* Properties *)

(* Every variable has its type; only connected seats are in step or have    *)
(* frames on the way, and a seat is connected or held, not both.             *)
TypeOK ==
    /\ root \in {"none", "untracked", "tracked"}
    /\ map \in Content /\ boundary \in Content
    /\ next \in Content \cup {NoState, Invalid}
    /\ touched \in [Key -> Val \cup {Absent, None}] /\ cleared \in BOOLEAN
    /\ joined \subseteq Client /\ held \subseteq Client \ joined
    /\ closing \subseteq joined /\ allowed \subseteq Client
    /\ visible \subseteq Client /\ synced \subseteq joined /\ paused \subseteq Client
    /\ net \in [Client -> Seq([kind : {"snapshot", "patch"}, ops : Ops, view : Content])]
    /\ \A c \in Client \ joined : net[c] = <<>>
    /\ session \subseteq Client /\ replica \in [Client -> Content]
    /\ writes \in 0..MaxWrites

(* A client in step that received everything sent to it has the state of   *)
(* the last boundary, as its filter let it see it then: coalesced changes,  *)
(* cleared maps, reveals, hides, pauses and replaced states lose nothing     *)
(* (room.ts _syncOnce, encoder.ts, decoder.ts).                              *)
ReplicaFollows ==
    \A c \in synced \ closing :
        net[c] = <<>> => replica[c] = View(boundary, c \in visible)

(* No client is ever sent a patch it has no snapshot for, on any of its     *)
(* connections: _patch never finds the session missing (client-js room.ts).  *)
NoDesync ==
    \A c \in Client : \A i \in DOMAIN net[c] :
        net[c][i].kind = "patch" =>
            c \in session \/ \E j \in 1..(i - 1) : net[c][j].kind = "snapshot"

(* With backpressure on, the state frames queued for a socket of this       *)
(* process are bounded, however slowly it reads (_applyBackpressure).        *)
QueueBounded ==
    PauseAt > 0 =>
        \A c \in Client \ Remote :
            Len(net[c]) <= 1 + (IF PauseAt > ResumeAt THEN PauseAt ELSE ResumeAt)

(* No frame carries a value of the filtered map to a client the filter      *)
(* turns down at that boundary, not even one that the same frame clears.     *)
FilterHolds ==
    [][\A c \in Client \ allowed :
          Len(net'[c]) > Len(net[c]) => net'[c][Len(net'[c])].ops.put = Nothing]_vars

(* Clients in step have the state, no client gets a patch without its       *)
(* snapshot, no slow client piles up frames, and no filtered value is sent.  *)
InStep == [](ReplicaFollows /\ NoDesync /\ QueueBounded) /\ FilterHolds

(* Snapshots and patches implement the stream of views of ReplicaStream:    *)
(* what a client shows are the views of the boundaries, in their order and   *)
(* without a gap from its snapshot on.                                       *)
Stream == INSTANCE ReplicaStream WITH
    Views     <- Content,
    Blank     <- Empty,
    following <- synced \ closing,
    latest    <- [c \in Client |-> IF c \in synced \ closing
                                   THEN View(boundary, c \in visible) ELSE Empty],
    pipe      <- [c \in Client |-> [i \in DOMAIN net[c] |-> net[c][i].view]],
    shown     <- replica

ImplementsStream == Stream!Spec

(* A connected client ends up with the current state, as it may see it, or  *)
(* loses its connection: no pause, replacement or missed boundary leaves it   *)
(* behind for good (_applyBackpressure, _syncOnce).                          *)
CatchesUp ==
    \A c \in Client :
        c \in joined ~> \/ c \notin joined
                        \/ replica[c] = View(Current, c \in allowed)
=============================================================================
