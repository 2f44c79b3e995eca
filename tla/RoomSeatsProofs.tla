-------------------------- MODULE RoomSeatsProofs --------------------------
(***************************************************************************)
(* Proofs about RoomSeats, for every number of clients and connections,    *)
(* every capacity and every bound.                                         *)
(***************************************************************************)
EXTENDS RoomSeats, TLAPS, FiniteSetTheorems, SequenceTheorems

-----------------------------------------------------------------------------
(* Types.                                                                  *)

\* Appending a frame to a log of frames gives a log of frames.
LEMMA LogType == \A w \in Seq(Frame), f \in Frame : Log(w, f) \in Seq(Frame)
  BY DEF Log

\* The room before it exists is well typed.
LEMMA TypeInit == Init => TypeOK
  <1> SUFFICES ASSUME Init PROVE TypeOK
    OBVIOUS
  <1>1. RoomType BY DEF Init, RoomType
  <1>2. DisposeType BY DEF Init, DisposeType
  <1>3. SeatType BY DEF Init, SeatType, Status
  <1>4. JoinType BY DEF Init, JoinType, Step
  <1>5. TokenType BY DEF Init, TokenType
  <1>6. HookType BY DEF Init, HookType
  <1>7. FrameType BY DEF Init, FrameType
  <1>8. LinkType BY DEF Init, LinkType
  <1> QED BY <1>1, <1>2, <1>3, <1>4, <1>5, <1>6, <1>7, <1>8 DEF TypeOK

-----------------------------------------------------------------------------
(* What a step does to the seats.  Thirty-five actions change the seat     *)
(* table in eleven ways; the invariants are proved over those.             *)

seatVars == <<status, conn, joinVars, tokenVars, timers, entered, leaves>>

\* The room may take one seat more: it is new, it has room, or the seat was
\* reserved.
Entitled(c) ==
    \/ phase = "none" /\ phase' # "none" /\ UNCHANGED rsv
    \/ phase # "none" /\ AcceptsNewSeat /\ UNCHANGED rsv
    \/ /\ rsv[c] = "held" \/ (rsv[c] = "due" /\ "late" \in Fails)
       /\ rsv' = [rsv EXCEPT ![c] = "over"]

\* A seat is taken, over a connection that holds none here or by the server.
Takes(c, k, kind) ==
    /\ status[c] = "new"
    /\ \/ k \in Conn /\ kind \in Kinds \ {"server"} /\ (phase = "none" \/ ~SeatedOn(k))
       \/ k = NoConn /\ kind = "server"
    /\ Entitled(c)
    /\ Seat(c, k, kind)
    /\ UNCHANGED <<tokenVars, timers, entered, leaves>>

\* A join goes on to its next hook.
Advances(c) ==
    /\ pc[c] \in {"ready", "auth"}
    /\ \E s \in {"auth", "join"} : pc' = [pc EXCEPT ![c] = s]
    /\ UNCHANGED <<status, conn, by, target, tokenVars, timers, entered, leaves>>

\* A join failed; its seat, unless it is gone already, is given back.
Undoes(c) ==
    /\ pc[c] \in {"ready", "auth", "join"}
    /\ pc' = [pc EXCEPT ![c] = "done"]
    /\ \/ UNCHANGED <<status, conn>>
       \/ /\ status' = [status EXCEPT ![c] = "left"]
          /\ conn' = [conn EXCEPT ![c] = NoConn]
    /\ UNCHANGED <<by, target, tokenVars, timers, entered, leaves>>

\* A joined or held seat is released.
Frees(c) ==
    /\ status[c] \in {"joined", "reconnecting"} \/ c \in timers
    /\ status' = [status EXCEPT ![c] = "left"]
    /\ conn'   = [conn EXCEPT ![c] = NoConn]
    /\ token'  = [token EXCEPT ![c] = 0]
    /\ tokens' = tokens \ {<<c, token[c]>>}
    /\ timers' = timers \ {c}
    /\ leaves' = [leaves EXCEPT ![c] = @ + 1]
    /\ UNCHANGED <<joinVars, issued, entered>>

\* A seat that is still joining is released.
Drops(c) ==
    /\ status[c] = "joining"
    /\ status' = [status EXCEPT ![c] = "left"]
    /\ conn'   = [conn EXCEPT ![c] = NoConn]
    /\ UNCHANGED <<joinVars, tokenVars, timers, entered, leaves>>

SeatStep(c) ==
    \/ \E k \in Conn \cup {NoConn}, kind \in Kinds : Takes(c, k, kind)
    \/ Advances(c) \/ Undoes(c) \/ Frees(c) \/ Drops(c)
    \/ JoinReturned(c) \/ CompleteJoin(c) \/ CompleteJoinClosed(c)
    \/ CompleteReconnect(c)
    \/ \E k \in Conn, t \in Nat : Reconnect(c, k, t)

\* Releasing the seat of one client is the effect Frees: the seat and its
\* token go, the timer is disarmed and onLeave starts.
LEMMA ReleaseOne == ASSUME TypeOK, NEW c \in Client, NEW f,
                           status[c] \in {"joined", "reconnecting"} \/ c \in timers,
                           ReleaseAll({c}, f), UNCHANGED joinVars
                    PROVE  Frees(c)
  BY DEF TypeOK, SeatType, TokenType, HookType, ReleaseAll, Frees, Revoked, Disarmed

\* Releasing a seat that is still joining is the effect Drops.
LEMMA DropOne == ASSUME NEW c \in Client, status[c] = "joining",
                        ReleaseJoining(c), UNCHANGED joinVars
                 PROVE  Drops(c)
  BY DEF ReleaseJoining, Drops, hookVars

\* `_dispose` up to its first await frees or drops one seat, or none.
LEMMA DisposeEffect == ASSUME TypeOK, DisposeBegin, UNCHANGED joinVars
                       PROVE  UNCHANGED seatVars \/ \E c \in Client : Frees(c) \/ Drops(c)
  <1>1. CASE Seated = {}
    BY <1>1 DEF DisposeBegin, seatVars, hookVars
  <1>2. CASE Seated # {}
    <2>1. PICK c \in Seated : IF status[c] = "joining" THEN ReleaseJoining(c)
                                                       ELSE ReleaseAll({c}, TRUE)
      BY <1>2, Zenon DEF DisposeBegin
    <2>2. c \in Client /\ status[c] \in Live
      BY DEF Seated
    <2>3. CASE status[c] = "joining"
      BY <2>1, <2>2, <2>3, DropOne
    <2>4. CASE status[c] # "joining"
      BY <2>1, <2>2, <2>4, ReleaseOne DEF Live
    <2> QED BY <2>3, <2>4
  <1> QED BY <1>1, <1>2

\* `_unseat` is the effect Undoes.
LEMMA UnseatEffect == ASSUME NEW c \in Client, pc[c] \in {"ready", "auth", "join"}, Unseat(c),
                             UNCHANGED <<tokenVars, timers, hookVars>>
                      PROVE  Undoes(c)
  BY DEF Unseat, Undoes, hookVars

\* Every step leaves the seats alone, changes one of them in one of these
\* ways, or is the loss of a connection.
LEMMA SeatEffect == ASSUME TypeOK, Next
                    PROVE  \/ UNCHANGED seatVars
                           \/ \E c \in Client : SeatStep(c)
                           \/ \E k \in Conn : Disconnect(k)
  <1>1. ASSUME CreateRoom \/ RoomCreated \/ DisposeReleased \/ DisposeReturned
               \/ ToggleLock \/ Broadcast
        PROVE UNCHANGED seatVars
    BY <1>1 DEF CreateRoom, RoomCreated, DisposeReleased, DisposeReturned, ToggleLock,
                Broadcast, seatVars, joinVars, tokenVars, hookVars
  <1>2. ASSUME NEW c \in Client,
               \/ Reserve(c) \/ ReservationExpires(c) \/ ReservationOver(c)
               \/ ConsumeForNothing(c) \/ LeaveReturned(c)
        PROVE UNCHANGED seatVars
    BY <1>2 DEF Reserve, ReservationExpires, ReservationOver, ConsumeForNothing,
                LeaveReturned, seatVars, joinVars, tokenVars, hookVars
  <1>3. ASSUME NEW k \in Conn, Open(k) \/ Shed(k) PROVE UNCHANGED seatVars
    BY <1>3 DEF Open, Shed, seatVars, joinVars, tokenVars, hookVars
  <1>4. ASSUME NEW c \in Client, NEW k \in Conn,
               CreateAndJoin(c, k) \/ JoinExisting(c, k) \/ ConsumeReservation(c, k)
        PROVE SeatStep(c)
    <2>1. \E kind \in {"create", "join", "reservation"} : Takes(c, k, kind)
      BY <1>4 DEF CreateAndJoin, JoinExisting, ConsumeReservation, Registered, Takes, Entitled,
                Kinds,
                  tokenVars, hookVars
    <2> QED BY <2>1 DEF SeatStep, Kinds
  <1>5. ASSUME NEW c \in Client, BotJoin(c) PROVE SeatStep(c)
    <2>1. Takes(c, NoConn, "server")
      BY <1>5 DEF BotJoin, Registered, Takes, Entitled, hookVars
    <2> QED BY <2>1 DEF SeatStep, Kinds
  <1>6. ASSUME NEW c \in Client, RoomReady(c) \/ AuthPassed(c) PROVE SeatStep(c)
    <2>1. CASE Unseat(c)
      BY <1>6, <2>1, UnseatEffect DEF RoomReady, AuthPassed, SeatStep
    <2>2. CASE ~Unseat(c)
      <3>1. Advances(c)
        BY <1>6, <2>2 DEF RoomReady, AuthPassed, Advances, hookVars
      <3> QED BY <3>1 DEF SeatStep
    <2> QED BY <2>1, <2>2
  <1>7. ASSUME NEW c \in Client, AuthRefused(c) \/ JoinThrew(c) PROVE SeatStep(c)
    BY <1>7, UnseatEffect DEF AuthRefused, JoinThrew, SeatStep
  <1>8. ASSUME NEW c \in Client, HoldExpires(c) \/ ClientLeaves(c) PROVE SeatStep(c)
    <2>1. Frees(c)
      BY <1>8, ReleaseOne DEF HoldExpires, ClientLeaves
    <2> QED BY <2>1 DEF SeatStep
  <1>9. ASSUME NEW c \in Client, Kick(c) PROVE SeatStep(c)
    <2>1. CASE status[c] = "joining"
      BY <1>9, <2>1, DropOne DEF Kick, SeatStep
    <2>2. CASE status[c] # "joining"
      BY <1>9, <2>2, ReleaseOne DEF Kick, Seated, Live, SeatStep
    <2> QED BY <2>1, <2>2
  <1>10. ASSUME NEW c \in Client, DisposeNext(c) PROVE UNCHANGED seatVars \/ SeatStep(c)
    <2>1. CASE status[c] = "left"
      BY <1>10, <2>1 DEF DisposeNext, seatVars, hookVars
    <2>2. CASE status[c] = "joining"
      BY <1>10, <2>2, DropOne DEF DisposeNext, SeatStep
    <2>3. CASE status[c] \in {"joined", "reconnecting"}
      BY <1>10, <2>3, ReleaseOne DEF DisposeNext, SeatStep
    <2> QED BY <1>10, <2>1, <2>2, <2>3 DEF DisposeNext
  <1>11. ASSUME Dispose \/ Stop \/ RoomCreateFailed
         PROVE  UNCHANGED seatVars \/ \E c \in Client : SeatStep(c)
    <2>1. CASE DisposeBegin
      BY <1>11, <2>1, DisposeEffect DEF Dispose, Stop, RoomCreateFailed, SeatStep
    <2>2. CASE ~DisposeBegin
      BY <1>11, <2>2 DEF Dispose, Stop, RoomCreateFailed, seatVars, hookVars
    <2> QED BY <2>1, <2>2
  <1>12. ASSUME NEW c \in Client,
                \/ JoinReturned(c) \/ CompleteJoin(c) \/ CompleteJoinClosed(c)
                \/ CompleteReconnect(c)
         PROVE SeatStep(c)
    BY <1>12 DEF SeatStep
  <1>13. ASSUME NEW c \in Client, NEW k \in Conn, NEW p \in tokens, Reconnect(c, k, p[2])
         PROVE SeatStep(c)
    BY <1>13 DEF SeatStep, TypeOK, TokenType
  <1> QED
    BY <1>1, <1>2, <1>3, <1>4, <1>5, <1>6, <1>7, <1>8, <1>9, <1>10, <1>11, <1>12, <1>13
       DEF Next, Progress, Environment, RoomProgress

-----------------------------------------------------------------------------
(* Type correctness is preserved, one group of variables at a time.        *)

SeatTableType ==
    /\ status \in [Client -> Status]
    /\ conn \in [Client -> Conn \cup {NoConn}]
    /\ JoinType /\ TokenType
    /\ entered \subseteq Client
    /\ leaves \in [Client -> Nat]

\* The seat table keeps its type, by the effects of SeatEffect.
LEMMA SeatTableTypeNext == ASSUME TypeOK, Next PROVE SeatTableType'
  <1> USE DEF TypeOK, SeatTableType, SeatType, JoinType, TokenType, HookType
  <1>1. CASE UNCHANGED seatVars
    BY <1>1 DEF seatVars, joinVars, tokenVars
  <1>2. ASSUME NEW c \in Client, NEW k \in Conn \cup {NoConn}, NEW kind \in Kinds,
               Takes(c, k, kind)
        PROVE  SeatTableType'
    BY <1>2 DEF Takes, Seat, tokenVars, Status, Live, Step
  <1>3. ASSUME NEW c \in Client, Advances(c) \/ Undoes(c) \/ Drops(c) \/ JoinReturned(c)
        PROVE  SeatTableType'
    BY <1>3 DEF Advances, Undoes, Drops, JoinReturned, joinVars, tokenVars, Status, Live, Step
  <1>4. ASSUME NEW c \in Client, Frees(c) PROVE SeatTableType'
    BY <1>4 DEF Frees, joinVars, Status, Live
  <1>5. ASSUME NEW c \in Client, CompleteJoin(c) PROVE SeatTableType'
    <2>1. TokenType'
      BY <1>5 DEF CompleteJoin, IssueToken, Revoked, tokenVars
    <2> QED BY <1>5, <2>1 DEF CompleteJoin, Activated, hookVars, Status, Live, Step
  <1>6. ASSUME NEW c \in Client, CompleteJoinClosed(c) PROVE SeatTableType'
    BY <1>6 DEF CompleteJoinClosed, tokenVars, Status, Live, Step
  <1>7. ASSUME NEW c \in Client, CompleteReconnect(c) PROVE SeatTableType'
    <2>1. TokenType'
      BY <1>7 DEF CompleteReconnect, ReleaseAll, IssueToken, Revoked, Armed, Disarmed, tokenVars
    <2>2. JoinType'
      BY <1>7 DEF CompleteReconnect, Step
    <2> QED BY <1>7, <2>1, <2>2 DEF CompleteReconnect, ReleaseAll, hookVars, Status, Live
  <1>8. ASSUME NEW c \in Client, NEW k \in Conn, NEW t \in Nat, Reconnect(c, k, t)
        PROVE  SeatTableType'
    BY <1>8 DEF Reconnect, Disarmed, tokenVars, hookVars, Status, Live, Step
  <1>9. ASSUME NEW k \in Conn, Disconnect(k) PROVE SeatTableType'
    BY <1>9 DEF Disconnect, Armed, Revoked, joinVars, Status, Live
  <1> QED BY SeatEffect, <1>1, <1>2, <1>3, <1>4, <1>5, <1>6, <1>7, <1>8, <1>9 DEF SeatStep

\* A step that may begin the disposal.
Disposes == Dispose \/ Stop \/ RoomCreateFailed

\* Reservations keep their type.
LEMMA ReservationTypeNext == ASSUME TypeOK, Next
                             PROVE  rsv' \in [Client -> {"none", "held", "due", "over"}]
  <1> USE DEF TypeOK, SeatType
  <1>1. ASSUME NEW c \in Client,
               \/ Reserve(c) \/ ReservationExpires(c) \/ ReservationOver(c) \/ ConsumeForNothing(c)
               \/ \E k \in Conn : ConsumeReservation(c, k)
        PROVE  rsv' \in [Client -> {"none", "held", "due", "over"}]
    BY <1>1 DEF Reserve, ReservationExpires, ReservationOver, ConsumeForNothing,
                ConsumeReservation
  <1>2. ASSUME Disposes \/ DisposeReleased
        PROVE  rsv' \in [Client -> {"none", "held", "due", "over"}]
    BY <1>2 DEF Disposes, Dispose, Stop, RoomCreateFailed, DisposeBegin, DisposeReleased
  <1>3. ASSUME NEW c \in Client, Progress(c) \/ Environment(c)
        PROVE  rsv' \in [Client -> {"none", "held", "due", "over"}]
    BY <1>1, <1>3 DEF Progress, Environment, RoomReady, AuthRefused, AuthPassed, JoinThrew,
          JoinReturned, CompleteJoin, CompleteJoinClosed, CompleteReconnect, HoldExpires,
          LeaveReturned, DisposeNext, BotJoin, ClientLeaves, Kick, CreateAndJoin,
          JoinExisting, Reconnect
  <1> QED BY <1>2, <1>3 DEF Next, RoomProgress, Disposes, RoomCreated, DisposeReturned, Open,
          Shed, Disconnect, CreateRoom, ToggleLock, Broadcast

\* The state of a disposal keeps its type.
LEMMA DisposeTypeNext == ASSUME TypeOK, Next PROVE DisposeType'
  <1> USE DEF TypeOK, DisposeType
  <1>1. ASSUME NEW st, NEW rs, CheckEmpty(st, rs) PROVE DisposeType'
    <2>1. CASE AutoDispose /\ phase = "ready" /\ ~disposing /\ IsEmpty(st, rs)
      BY <1>1, <2>1 DEF CheckEmpty
    <2>2. CASE ~(AutoDispose /\ phase = "ready" /\ ~disposing /\ IsEmpty(st, rs))
      BY <1>1, <2>2 DEF CheckEmpty
    <2> QED BY <2>1, <2>2
  <1>2. ASSUME NEW c \in Client, Unseat(c) PROVE DisposeType'
    BY <1>1, <1>2 DEF Unseat, disposeVars
  <1>3. ASSUME DisposeBegin PROVE DisposeType'
    <2>1. CASE Seated = {}
      BY <1>3, <2>1 DEF DisposeBegin
    <2>2. CASE Seated # {}
      <3>1. PICK c \in Client :
               /\ disposing' = TRUE /\ dmain' = "releasing" /\ todo' = Seated \ {c}
               /\ awaited' = {} \/ awaited' = {c}
               /\ \/ dnest' = "hook" /\ disposals' = disposals + 1
                  \/ UNCHANGED <<dnest, disposals>>
        BY <1>3, <2>2, Zenon DEF DisposeBegin, Seated
      <3> QED BY <3>1 DEF Seated
    <2> QED BY <2>1, <2>2
  <1>4. ASSUME Disposes PROVE DisposeType'
    BY <1>3, <1>4 DEF Disposes, Dispose, Stop, RoomCreateFailed, disposeVars
  <1>5. ASSUME NEW c \in Client,
               \/ ReservationExpires(c) \/ RoomReady(c) \/ AuthRefused(c) \/ AuthPassed(c)
               \/ JoinThrew(c) \/ LeaveReturned(c) \/ Kick(c) \/ DisposeNext(c)
        PROVE  DisposeType'
    BY <1>1, <1>2, <1>5 DEF ReservationExpires, RoomReady, AuthRefused, AuthPassed, JoinThrew,
          LeaveReturned, Kick, DisposeNext, disposeVars
  <1>6. ASSUME DisposeReleased \/ DisposeReturned PROVE DisposeType'
    BY <1>6 DEF DisposeReleased, DisposeReturned
  <1>7. ASSUME NEW c \in Client, Progress(c) \/ Environment(c) PROVE DisposeType'
    BY <1>5, <1>7, ZenonT(30) DEF Progress, Environment, disposeVars, JoinReturned, CompleteJoin,
          CompleteJoinClosed, CompleteReconnect, HoldExpires, ReservationOver, BotJoin, Reserve,
          ConsumeForNothing, ClientLeaves, CreateAndJoin, JoinExisting, ConsumeReservation,
          Reconnect
  <1> QED BY <1>4, <1>6, <1>7, ZenonT(30) DEF Next, RoomProgress, Disposes, disposeVars, RoomCreated, Open,
          Shed, Disconnect, CreateRoom, ToggleLock, Broadcast

\* The flags of the room keep their type.
LEMMA RoomTypeNext == ASSUME TypeOK, Next PROVE RoomType'
  <1> USE DEF TypeOK, RoomType
  <1>1. ASSUME NEW st, NEW cn PROVE PauseAfter(st, cn) \in BOOLEAN
    BY DEF PauseAfter
  <1>2. ASSUME NEW c \in Client,
               \/ CompleteJoin(c) \/ CompleteJoinClosed(c) \/ CompleteReconnect(c)
               \/ LeaveReturned(c) \/ (\E k \in Conn, t \in Nat : Reconnect(c, k, t))
        PROVE  RoomType'
    BY <1>1, <1>2, ZenonT(30) DEF CompleteJoin, CompleteJoinClosed, CompleteReconnect, LeaveReturned,
          Reconnect, flagVars
  <1>3. ASSUME NEW k \in Conn, Disconnect(k) PROVE RoomType'
    BY <1>1, <1>3 DEF Disconnect, flagVars
  <1>4. ASSUME NEW c \in Client, Progress(c) \/ Environment(c) PROVE RoomType'
    <2>1. ASSUME NEW k \in Conn, NEW p \in tokens, Reconnect(c, k, p[2]) PROVE RoomType'
      BY <1>2, <2>1 DEF TokenType
    <2> QED BY <1>2, <1>4, <2>1 DEF Progress, Environment, flagVars, RoomReady, AuthRefused,
          AuthPassed, JoinThrew, JoinReturned, HoldExpires, ReservationExpires, ReservationOver,
          DisposeNext, BotJoin, Reserve, ConsumeForNothing, ClientLeaves, Kick, CreateAndJoin,
          JoinExisting, ConsumeReservation
  <1> QED BY <1>3, <1>4 DEF Next, flagVars, RoomProgress, RoomCreated, RoomCreateFailed,
          DisposeReleased, DisposeReturned, Open, Shed, CreateRoom, Dispose, Stop, ToggleLock,
          Broadcast

\* Connections keep their type.
LEMMA LinkTypeNext == ASSUME TypeOK, Next PROVE LinkType'
  <1> USE DEF TypeOK, LinkType
  <1>1. ASSUME NEW k \in Conn, Request(k) \/ Open(k) \/ Shed(k) \/ Disconnect(k)
        PROVE  LinkType'
    BY <1>1 DEF Request, Open, Shed, Disconnect
  <1>2. ASSUME NEW c \in Client, Progress(c) \/ Environment(c) PROVE LinkType'
    BY <1>1, <1>2 DEF Progress, Environment, linkVars, RoomReady, AuthRefused, AuthPassed,
          JoinThrew, JoinReturned, CompleteJoin, CompleteJoinClosed, CompleteReconnect,
          HoldExpires, ReservationExpires, ReservationOver, LeaveReturned, DisposeNext, BotJoin,
          Reserve, ConsumeForNothing, ClientLeaves, Kick, CreateAndJoin, JoinExisting,
          ConsumeReservation, Reconnect
  <1> QED BY <1>1, <1>2 DEF Next, linkVars, RoomProgress, RoomCreated, RoomCreateFailed,
          DisposeReleased, DisposeReturned, CreateRoom, Dispose, Stop, ToggleLock, Broadcast

\* The frames sent and queued keep their type.
LEMMA FrameTypeNext == ASSUME TypeOK, Next PROVE FrameType'
  <1> USE LogType DEF TypeOK, FrameType, Frame
  <1>1. ASSUME NEW c \in Client, ReleaseJoining(c) \/ Unseat(c) PROVE FrameType'
    BY <1>1 DEF ReleaseJoining, Unseat
  <1>2. ASSUME NEW S, NEW f, ReleaseAll(S, f) PROVE FrameType'
    BY <1>2 DEF ReleaseAll
  <1>3. ASSUME DeliverAll(Seated) PROVE FrameType'
    BY <1>3 DEF DeliverAll, Seated
  <1>4. ASSUME DisposeBegin PROVE FrameType'
    <2>1. CASE Seated = {}
      BY <1>4, <2>1 DEF DisposeBegin, frameVars
    <2>2. CASE Seated # {}
      <3>1. PICK c \in Client : ReleaseJoining(c) \/ ReleaseAll({c}, TRUE)
        BY <1>4, <2>2, Zenon DEF DisposeBegin, Seated
      <3> QED BY <1>1, <1>2, <3>1
    <2> QED BY <2>1, <2>2
  <1>5. ASSUME NEW c \in Client, CompleteJoin(c) PROVE FrameType'
    BY <1>5 DEF CompleteJoin, Seated
  <1>6. ASSUME NEW c \in Client, CompleteJoinClosed(c) PROVE FrameType'
    BY <1>6 DEF CompleteJoinClosed, Seated
  <1>7. ASSUME NEW c \in Client, CompleteReconnect(c) PROVE FrameType'
    BY <1>2, <1>7 DEF CompleteReconnect, frameVars
  <1>8. ASSUME NEW c \in Client, NEW k \in Conn,
               \/ CreateAndJoin(c, k) \/ JoinExisting(c, k) \/ ConsumeReservation(c, k)
               \/ \E p \in tokens : Reconnect(c, k, p[2])
        PROVE  FrameType'
    <2>1. <<>> \in Seq(Frame) /\ <<"frame">> \in Seq(Frame)
      OBVIOUS
    <2> QED BY <1>8, <2>1 DEF CreateAndJoin, JoinExisting, ConsumeReservation, Reconnect
  <1>9. ASSUME NEW c \in Client, Progress(c) \/ Environment(c) PROVE FrameType'
    BY <1>1, <1>2, <1>3, <1>5, <1>6, <1>7, <1>8, <1>9 DEF Progress, Environment, frameVars,
          RoomReady, AuthRefused, AuthPassed, JoinThrew, JoinReturned, HoldExpires,
          ReservationExpires, ReservationOver, LeaveReturned, DisposeNext, BotJoin, Reserve,
          ConsumeForNothing, ClientLeaves, Kick
  <1> QED BY <1>3, <1>4, <1>9, ZenonT(30) DEF Next, frameVars, RoomProgress, RoomCreated, RoomCreateFailed,
          DisposeReleased, DisposeReturned, Open, Shed, Disconnect, CreateRoom, Dispose, Stop,
          ToggleLock, Broadcast

\* Only clients are in an onLeave.
LEMMA LeavingTypeNext == ASSUME TypeOK, Next PROVE leaving' \subseteq Client
  <1> USE DEF TypeOK, HookType, hookVars
  <1>1. ASSUME NEW c \in Client, NEW f, ReleaseAll({c}, f) \/ ReleaseJoining(c)
        PROVE  leaving' \subseteq Client
    BY <1>1 DEF ReleaseAll, ReleaseJoining
  <1>2. ASSUME DisposeBegin PROVE leaving' \subseteq Client
    <2>1. CASE Seated = {}
      BY <1>2, <2>1 DEF DisposeBegin
    <2>2. CASE Seated # {}
      <3>1. PICK c \in Client : ReleaseJoining(c) \/ ReleaseAll({c}, TRUE)
        BY <1>2, <2>2, Zenon DEF DisposeBegin, Seated
      <3> QED BY <1>1, <3>1
    <2> QED BY <2>1, <2>2
  <1>3. ASSUME NEW k \in Conn, Disconnect(k) PROVE leaving' \subseteq Client
    BY <1>3 DEF Disconnect
  <1>4. ASSUME NEW c \in Client, CompleteJoinClosed(c) \/ CompleteReconnect(c)
        PROVE  leaving' \subseteq Client
    BY <1>1, <1>4 DEF CompleteJoinClosed, CompleteReconnect
  <1>5. ASSUME NEW c \in Client, Progress(c) \/ Environment(c)
        PROVE  leaving' \subseteq Client
    BY <1>1, <1>4, <1>5 DEF Progress, Environment, RoomReady, AuthRefused, AuthPassed, JoinThrew,
          JoinReturned, CompleteJoin, HoldExpires, ReservationExpires, ReservationOver,
          LeaveReturned, DisposeNext, BotJoin, Reserve, ConsumeForNothing, ClientLeaves, Kick,
          CreateAndJoin, JoinExisting, ConsumeReservation, Reconnect
  <1> QED BY <1>2, <1>3, <1>5 DEF Next, RoomProgress, RoomCreated, RoomCreateFailed,
          DisposeReleased, DisposeReturned, Open, Shed, CreateRoom, Dispose, Stop, ToggleLock,
          Broadcast

\* Every step keeps the type invariant.
LEMMA TypeNext == ASSUME TypeOK, [Next]_vars PROVE TypeOK'
  <1>1. CASE Next
    <2>1. RoomType' /\ DisposeType' /\ FrameType' /\ LinkType'
      BY <1>1, RoomTypeNext, DisposeTypeNext, FrameTypeNext, LinkTypeNext
    <2>2. SeatType' /\ JoinType' /\ TokenType' /\ HookType'
      BY <1>1, SeatTableTypeNext, ReservationTypeNext, LeavingTypeNext
         DEF SeatTableType, SeatType, HookType
    <2> QED BY <2>1, <2>2 DEF TypeOK
  <1>2. CASE UNCHANGED vars
    BY <1>2 DEF vars, disposeVars, flagVars, joinVars, tokenVars, hookVars, frameVars, linkVars,
          TypeOK, RoomType, DisposeType, SeatType, JoinType, TokenType, HookType, FrameType,
          LinkType
  <1> QED BY <1>1, <1>2

\* The variables of the room keep their types, whatever the number of seats
\* and connections and whatever user code does in its hooks.
THEOREM TypeCorrect == Spec => []TypeOK
  BY TypeInit, TypeNext, PTL DEF Spec

-----------------------------------------------------------------------------
(* The seat invariants.                                                    *)

\* Where a join stands and what its seat is: a seat becomes "joined" only in
\* the last step of a join, after onJoin.
Lifecycle ==
    \A c \in Client :
        /\ status[c] \in {"joined", "reconnecting"} => pc[c] \in {"resumed", "done"}
        /\ status[c] \in {"joined", "reconnecting"} \/ pc[c] = "complete" => c \in entered

\* Every step keeps Lifecycle: how a seat's status, its connection and the
\* place of its join go together.
LEMMA LifecycleNext == ASSUME TypeOK, Lifecycle, HoldHasTimer, Next PROVE Lifecycle'
  <1> USE DEF Lifecycle, TypeOK, SeatType, JoinType, HookType
  <1>1. CASE UNCHANGED seatVars
    BY <1>1 DEF seatVars, joinVars
  <1>2. ASSUME NEW c \in Client, NEW k \in Conn \cup {NoConn}, NEW kind \in Kinds,
               Takes(c, k, kind)
        PROVE  Lifecycle'
    BY <1>2 DEF Takes, Seat
  <1>3. ASSUME NEW c \in Client, Advances(c) \/ Undoes(c) \/ Drops(c) \/ Frees(c)
        PROVE  Lifecycle'
    BY <1>3 DEF Advances, Undoes, Drops, Frees, joinVars
  <1>4. ASSUME NEW c \in Client, JoinReturned(c) \/ CompleteJoin(c) \/ CompleteJoinClosed(c)
        PROVE  Lifecycle'
    BY <1>4 DEF JoinReturned, CompleteJoin, Activated, CompleteJoinClosed, hookVars
  <1>5. ASSUME NEW c \in Client, CompleteReconnect(c) PROVE Lifecycle'
    BY <1>5 DEF CompleteReconnect, ReleaseAll, hookVars
  <1>6. ASSUME NEW c \in Client, NEW k \in Conn, NEW t \in Nat, Reconnect(c, k, t)
        PROVE  Lifecycle'
    BY <1>6 DEF Reconnect, hookVars
  <1>7. ASSUME NEW k \in Conn, Disconnect(k) PROVE Lifecycle'
    BY <1>7 DEF Disconnect, joinVars
  <1> QED BY SeatEffect, <1>1, <1>2, <1>3, <1>4, <1>5, <1>6, <1>7 DEF SeatStep

\* Every step keeps HoldHasTimer; `_release` and `_reconnect` disarm the timer
\* in the step that ends the hold.
LEMMA HoldHasTimerNext == ASSUME TypeOK, Lifecycle, HoldHasTimer, Next PROVE HoldHasTimer'
  <1> USE DEF HoldHasTimer, TypeOK, SeatType, TokenType
  <1>1. CASE UNCHANGED seatVars
    BY <1>1 DEF seatVars
  <1>2. ASSUME NEW c \in Client, NEW k \in Conn \cup {NoConn}, NEW kind \in Kinds,
               Takes(c, k, kind)
        PROVE  HoldHasTimer'
    BY <1>2 DEF Takes, Seat
  <1>3. ASSUME NEW c \in Client, Advances(c) \/ Undoes(c) \/ Drops(c) \/ Frees(c)
        PROVE  HoldHasTimer'
    BY <1>3 DEF Advances, Undoes, Drops, Frees, Lifecycle
  <1>4. ASSUME NEW c \in Client, JoinReturned(c) \/ CompleteJoin(c) \/ CompleteJoinClosed(c)
        PROVE  HoldHasTimer'
    BY <1>4 DEF JoinReturned, CompleteJoin, Activated, CompleteJoinClosed
  <1>5. ASSUME NEW c \in Client, CompleteReconnect(c) PROVE HoldHasTimer'
    BY <1>5 DEF CompleteReconnect, ReleaseAll, Armed, Disarmed
  <1>6. ASSUME NEW c \in Client, NEW k \in Conn, NEW t \in Nat, Reconnect(c, k, t)
        PROVE  HoldHasTimer'
    BY <1>6 DEF Reconnect, Disarmed
  <1>7. ASSUME NEW k \in Conn, Disconnect(k) PROVE HoldHasTimer'
    BY <1>7 DEF Disconnect, Armed
  <1> QED BY SeatEffect, <1>1, <1>2, <1>3, <1>4, <1>5, <1>6, <1>7 DEF SeatStep

\* `_issueToken` revokes before it issues, so the table holds the new token only.
LEMMA IssueTokenCurrent == ASSUME TypeOK, TokensCurrent, NEW c \in Client, IssueToken(c)
                           PROVE  TokensCurrent'
  BY DEF TypeOK, TokenType, TokensCurrent, IssueToken, Revoked

\* Every step keeps TokensCurrent.
LEMMA TokensCurrentNext == ASSUME TypeOK, TokensCurrent, Next PROVE TokensCurrent'
  <1> USE DEF TokensCurrent, TypeOK, TokenType
  <1>1. CASE UNCHANGED tokenVars
    BY <1>1 DEF tokenVars
  <1>2. ASSUME NEW c \in Client,
               \/ \E k \in Conn \cup {NoConn}, kind \in Kinds : Takes(c, k, kind)
               \/ Advances(c) \/ Undoes(c) \/ Drops(c) \/ JoinReturned(c) \/ CompleteJoinClosed(c)
               \/ \E k \in Conn, t \in Nat : Reconnect(c, k, t)
        PROVE  UNCHANGED tokenVars
    BY <1>2 DEF Takes, Advances, Undoes, Drops, JoinReturned, CompleteJoinClosed, Reconnect
  <1>3. ASSUME NEW c \in Client, Frees(c) PROVE TokensCurrent'
    BY <1>3 DEF Frees
  <1>4. ASSUME NEW c \in Client, CompleteJoin(c) PROVE TokensCurrent'
    BY <1>1, <1>4, IssueTokenCurrent DEF CompleteJoin
  <1>5. ASSUME NEW c \in Client, CompleteReconnect(c) PROVE TokensCurrent'
    <2>1. CASE ReleaseAll({c}, FALSE)
      BY <2>1 DEF ReleaseAll, Revoked
    <2> QED BY <1>1, <1>5, <2>1, IssueTokenCurrent DEF CompleteReconnect
  <1>6. ASSUME NEW k \in Conn, Disconnect(k) PROVE TokensCurrent'
    BY <1>6 DEF Disconnect, Revoked
  <1> QED BY SeatEffect, <1>1, <1>2, <1>3, <1>4, <1>5, <1>6 DEF SeatStep, seatVars

\* Every step keeps OnLeaveAtMostOnce: the seat leaves the table in the step
\* that starts onLeave.
LEMMA OnLeaveNext == ASSUME TypeOK, Lifecycle, HoldHasTimer, OnLeaveAtMostOnce, Next
                     PROVE  OnLeaveAtMostOnce'
  <1> USE DEF OnLeaveAtMostOnce, TypeOK, SeatType, HookType
  <1>1. CASE UNCHANGED seatVars
    BY <1>1 DEF seatVars
  <1>2. ASSUME NEW c \in Client, NEW k \in Conn \cup {NoConn}, NEW kind \in Kinds,
               Takes(c, k, kind)
        PROVE  OnLeaveAtMostOnce'
    BY <1>2 DEF Takes, Seat
  <1>3. ASSUME NEW c \in Client, Advances(c) \/ Undoes(c) \/ Drops(c)
        PROVE  OnLeaveAtMostOnce'
    BY <1>3 DEF Advances, Undoes, Drops
  <1>4. ASSUME NEW c \in Client, Frees(c) PROVE OnLeaveAtMostOnce'
    BY <1>4 DEF Frees, HoldHasTimer, Lifecycle
  <1>5. ASSUME NEW c \in Client, JoinReturned(c) \/ CompleteJoin(c) \/ CompleteJoinClosed(c)
        PROVE  OnLeaveAtMostOnce'
    BY <1>5 DEF JoinReturned, CompleteJoin, Activated, CompleteJoinClosed, hookVars, Lifecycle
  <1>6. ASSUME NEW c \in Client, CompleteReconnect(c) PROVE OnLeaveAtMostOnce'
    BY <1>6 DEF CompleteReconnect, ReleaseAll, hookVars, Lifecycle
  <1>7. ASSUME NEW c \in Client, NEW k \in Conn, NEW t \in Nat, Reconnect(c, k, t)
        PROVE  OnLeaveAtMostOnce'
    BY <1>7 DEF Reconnect, hookVars
  <1>8. ASSUME NEW k \in Conn, Disconnect(k) PROVE OnLeaveAtMostOnce'
    BY <1>8 DEF Disconnect, Lifecycle
  <1> QED BY SeatEffect, <1>1, <1>2, <1>3, <1>4, <1>5, <1>6, <1>7, <1>8 DEF SeatStep

\* A room that does not exist has no seats and no reservations.
NoRoomYet ==
    phase = "none" =>
        \A c \in Client : /\ status[c] = "new" /\ pc[c] = "idle"
                          /\ conn[c] = NoConn /\ rsv[c] = "none"

\* A room that was created never becomes uncreated.
LEMMA PhaseEffect == ASSUME Next, phase' = "none" PROVE phase = "none"
  <1>1. ASSUME NEW c \in Client, Progress(c) \/ Environment(c) PROVE phase = "none"
    BY <1>1 DEF Progress, Environment, RoomReady, AuthRefused, AuthPassed, JoinThrew,
          JoinReturned, CompleteJoin, CompleteJoinClosed, CompleteReconnect, HoldExpires,
          ReservationExpires, ReservationOver, LeaveReturned, DisposeNext, BotJoin, Reserve,
          ConsumeForNothing, ClientLeaves, Kick, CreateAndJoin, JoinExisting,
          ConsumeReservation, Reconnect
  <1> QED BY <1>1 DEF Next, RoomProgress, RoomCreated, RoomCreateFailed, DisposeReleased,
          DisposeReturned, Open, Shed, Disconnect, CreateRoom, Dispose, Stop, ToggleLock,
          Broadcast

\* Every step keeps NoRoomYet: without a room there are no seats.
LEMMA NoRoomYetNext == ASSUME TypeOK, HoldHasTimer, NoRoomYet, Next PROVE NoRoomYet'
  <1> SUFFICES ASSUME phase' = "none"
               PROVE  UNCHANGED <<status, conn, pc, rsv>>
    BY PhaseEffect DEF NoRoomYet
  <1>1. /\ phase = "none"
        /\ \A c \in Client : status[c] = "new" /\ pc[c] = "idle" /\ conn[c] = NoConn /\ rsv[c] = "none"
    BY PhaseEffect DEF NoRoomYet
  <1>2. \A c \in Client : c \notin timers
    BY <1>1 DEF HoldHasTimer
  <1>3. \A k \in Conn : ~SeatedOn(k)
    BY <1>1, RoomSeatsAssumption DEF SeatedOn
  <1>4. UNCHANGED <<status, conn, pc>>
    <2>1. CASE UNCHANGED seatVars
      BY <2>1 DEF seatVars, joinVars
    <2>2. ASSUME NEW c \in Client, SeatStep(c) PROVE FALSE
      BY <1>1, <1>2, <2>2 DEF SeatStep, Takes, Entitled, Advances, Undoes, Frees, Drops,
                JoinReturned,
            CompleteJoin, CompleteJoinClosed, CompleteReconnect, Reconnect
    <2>3. ASSUME NEW k \in Conn, Disconnect(k) PROVE UNCHANGED <<status, conn, pc>>
      BY <1>1, <1>3, <2>3 DEF Disconnect, SeatedOn, joinVars, TypeOK, SeatType
    <2> QED BY SeatEffect, <2>1, <2>2, <2>3
  <1>5. UNCHANGED rsv
    <2>1. ASSUME NEW c \in Client, Progress(c) \/ Environment(c) PROVE UNCHANGED rsv
      BY <1>1, <2>1 DEF Registered, Progress, Environment, RoomReady, AuthRefused, AuthPassed,
            JoinThrew, JoinReturned, CompleteJoin, CompleteJoinClosed, CompleteReconnect,
            HoldExpires, ReservationExpires, ReservationOver, LeaveReturned, DisposeNext,
            BotJoin, Reserve, ConsumeForNothing, ClientLeaves, Kick, CreateAndJoin,
            JoinExisting, ConsumeReservation, Reconnect
    <2>2. ASSUME DisposeReleased PROVE UNCHANGED rsv
      BY <1>1, <2>2 DEF DisposeReleased, TypeOK, SeatType
    <2> QED BY <1>1, <2>1, <2>2 DEF Next, Registered, RoomProgress, RoomCreated,
            RoomCreateFailed, DisposeReturned, Open, Shed, Disconnect, CreateRoom, Dispose,
            Stop, ToggleLock, Broadcast
  <1> QED BY <1>4, <1>5

\* Every step keeps OneSeatPerConnection; a join looks at `_seatedIn` in the
\* step that takes the seat.
LEMMA OneSeatNext == ASSUME TypeOK, NoRoomYet, OneSeatPerConnection, Next
                     PROVE  OneSeatPerConnection'
  <1> USE RoomSeatsAssumption DEF OneSeatPerConnection, TypeOK, SeatType
  <1>1. CASE UNCHANGED seatVars
    BY <1>1 DEF seatVars
  <1>2. ASSUME NEW c \in Client, NEW k \in Conn \cup {NoConn}, NEW kind \in Kinds,
               Takes(c, k, kind)
        PROVE  OneSeatPerConnection'
    BY <1>2 DEF Takes, Seat, SeatedOn, NoRoomYet
  <1>3. ASSUME NEW c \in Client, Advances(c) \/ Undoes(c) \/ Drops(c) \/ Frees(c)
        PROVE  OneSeatPerConnection'
    BY <1>3 DEF Advances, Undoes, Drops, Frees
  <1>4. ASSUME NEW c \in Client, JoinReturned(c) \/ CompleteJoin(c) \/ CompleteJoinClosed(c)
        PROVE  OneSeatPerConnection'
    BY <1>4 DEF JoinReturned, CompleteJoin, CompleteJoinClosed
  <1>5. ASSUME NEW c \in Client, CompleteReconnect(c) PROVE OneSeatPerConnection'
    BY <1>5 DEF CompleteReconnect, ReleaseAll
  <1>6. ASSUME NEW c \in Client, NEW k \in Conn, NEW t \in Nat, Reconnect(c, k, t)
        PROVE  OneSeatPerConnection'
    BY <1>6 DEF Reconnect, SeatedOn
  <1>7. ASSUME NEW k \in Conn, Disconnect(k) PROVE OneSeatPerConnection'
    BY <1>7 DEF Disconnect
  <1> QED BY SeatEffect, <1>1, <1>2, <1>3, <1>4, <1>5, <1>6, <1>7 DEF SeatStep

\* A seat is bound to the connection its join, or its last reconnection, came
\* from, until the transport reports that connection closed.
SeatsBound ==
    \A c \in Client :
        /\ status[c] \in {"joining", "joined"} /\ by[c] # "server" => target[c] \in Conn
        /\ status[c] \in {"joining", "joined"} /\ by[c] # "server" /\ link[target[c]] # "closed"
           => conn[c] = target[c]

\* Only Disconnect closes a connection for good.
LEMMA LinkEffect == ASSUME TypeOK, Next
                    PROVE  \/ \A k \in Conn : link'[k] = "closed" <=> link[k] = "closed"
                           \/ \E k \in Conn : Disconnect(k)
  <1>1. ASSUME NEW c \in Client, Progress(c) \/ Environment(c) PROVE UNCHANGED link
    BY <1>1 DEF Progress, Environment, Request, linkVars, RoomReady, AuthRefused, AuthPassed,
          JoinThrew, JoinReturned, CompleteJoin, CompleteJoinClosed, CompleteReconnect,
          HoldExpires, ReservationExpires, ReservationOver, LeaveReturned, DisposeNext, BotJoin,
          Reserve, ConsumeForNothing, ClientLeaves, Kick, CreateAndJoin, JoinExisting,
          ConsumeReservation, Reconnect
  <1>2. ASSUME NEW k \in Conn, Open(k) \/ Shed(k)
        PROVE  \A j \in Conn : link'[j] = "closed" <=> link[j] = "closed"
    BY <1>2 DEF Open, Shed, TypeOK, LinkType
  <1>3. ASSUME RoomProgress \/ CreateRoom \/ Dispose \/ Stop \/ ToggleLock \/ Broadcast
        PROVE  UNCHANGED link
    BY <1>3 DEF RoomProgress, RoomCreated, RoomCreateFailed, DisposeReleased, DisposeReturned,
          CreateRoom, Dispose, Stop, ToggleLock, Broadcast, linkVars
  <1> QED BY <1>1, <1>2, <1>3 DEF Next

SeatsConnected == SeatsBound /\ JoinedSeatIsConnected

\* Every step keeps SeatsConnected.
LEMMA SeatsConnectedNext == ASSUME TypeOK, Lifecycle, SeatsConnected, Next
                            PROVE  SeatsConnected'
  <1> USE RoomSeatsAssumption
      DEF SeatsConnected, SeatsBound, JoinedSeatIsConnected, TypeOK, SeatType, JoinType
  <1>1. ASSUME NEW k \in Conn, Disconnect(k) PROVE SeatsConnected'
    BY <1>1 DEF Disconnect, joinVars, LinkType
  <1> SUFFICES ASSUME \A k \in Conn : link'[k] = "closed" <=> link[k] = "closed"
               PROVE  SeatsConnected'
    BY LinkEffect, <1>1
  <1>2. CASE UNCHANGED seatVars
    BY <1>2 DEF seatVars, joinVars
  <1>3. ASSUME NEW c \in Client, NEW k \in Conn \cup {NoConn}, NEW kind \in Kinds,
               Takes(c, k, kind)
        PROVE  SeatsConnected'
    BY <1>3 DEF Takes, Seat
  <1>4. ASSUME NEW c \in Client, Advances(c) \/ Undoes(c) \/ Drops(c) \/ Frees(c)
               \/ JoinReturned(c) \/ CompleteJoinClosed(c)
        PROVE  SeatsConnected'
    BY <1>4 DEF Advances, Undoes, Drops, Frees, JoinReturned, CompleteJoinClosed, joinVars,
                Lifecycle
  <1>5. ASSUME NEW c \in Client, CompleteJoin(c) PROVE SeatsConnected'
    BY <1>5 DEF CompleteJoin, Activated, TargetClosed, Lifecycle
  <1>6. ASSUME NEW c \in Client, CompleteReconnect(c) PROVE SeatsConnected'
    BY <1>6 DEF CompleteReconnect, ReleaseAll, TargetClosed
  <1>7. ASSUME NEW c \in Client, NEW k \in Conn, NEW t \in Nat, Reconnect(c, k, t)
        PROVE  SeatsConnected'
    BY <1>7 DEF Reconnect
  <1> QED BY SeatEffect, <1>1, <1>2, <1>3, <1>4, <1>5, <1>6, <1>7 DEF SeatStep

\* Only a room that was created pauses.
PausedRoom == paused => phase = "ready"

\* Whenever `_updatePause` leaves an open room paused, nobody is connected.
LEMMA PauseAfterFact == ASSUME PausedRoom, ~disposing, NEW st, NEW cn, PauseAfter(st, cn)
                        PROVE  /\ phase = "ready"
                               /\ \A c \in Client : st[c] = "joined" => cn[c] = NoConn
  <1>1. CASE phase # "ready"
    BY <1>1 DEF PauseAfter, PausedRoom
  <1>2. CASE phase = "ready"
    <2> DEFINE connected == {c \in Client : st[c] \in {"joining", "joined"} /\ cn[c] # NoConn}
    <2>1. connected = {}
      BY <1>2 DEF PauseAfter
    <2> QED BY <1>2, <2>1
  <1> QED BY <1>1, <1>2

\* A created room stays created, and a disposal is never taken back.
LEMMA MonotoneEffect == ASSUME TypeOK, Next
                        PROVE  /\ phase = "ready" => phase' = "ready"
                               /\ disposing => disposing'
  <1> USE DEF disposeVars
  <1>1. ASSUME NEW st, NEW rs, CheckEmpty(st, rs) PROVE disposing => disposing'
    BY <1>1 DEF CheckEmpty
  <1>2. ASSUME NEW c \in Client, Progress(c) \/ Environment(c)
        PROVE  phase' = phase \/ phase = "none"
    BY <1>2 DEF Progress, Environment, RoomReady, AuthRefused, AuthPassed, JoinThrew,
          JoinReturned, CompleteJoin, CompleteJoinClosed, CompleteReconnect, HoldExpires,
          ReservationExpires, ReservationOver, LeaveReturned, DisposeNext, BotJoin, Reserve,
          ConsumeForNothing, ClientLeaves, Kick, CreateAndJoin, JoinExisting,
          ConsumeReservation, Reconnect
  <1>3. ASSUME NEW c \in Client, Progress(c) \/ Environment(c) PROVE disposing => disposing'
    <2>1. ASSUME Unseat(c) PROVE disposing => disposing'
      BY <1>1, <2>1 DEF Unseat
    <2>2. ASSUME RoomReady(c) \/ AuthRefused(c) \/ AuthPassed(c) \/ JoinThrew(c)
          PROVE  disposing => disposing'
      BY <2>1, <2>2 DEF RoomReady, AuthRefused, AuthPassed, JoinThrew
    <2>3. ASSUME ReservationExpires(c) \/ LeaveReturned(c) \/ Kick(c)
          PROVE  disposing => disposing'
      BY <1>1, <2>3 DEF ReservationExpires, LeaveReturned, Kick
    <2> QED BY <1>3, <2>2, <2>3 DEF Progress, Environment, JoinReturned, CompleteJoin,
          CompleteJoinClosed, CompleteReconnect, HoldExpires, ReservationOver, DisposeNext,
          BotJoin, Reserve, ConsumeForNothing, ClientLeaves, CreateAndJoin, JoinExisting,
          ConsumeReservation, Reconnect
  <1>4. ASSUME Dispose \/ Stop \/ RoomCreateFailed
        PROVE (phase = "ready" => phase' = "ready") /\ (disposing => disposing')
    BY <1>4 DEF Dispose, Stop, RoomCreateFailed, DisposeBegin
  <1>5. phase = "ready" => phase' = "ready"
    BY <1>2, <1>4 DEF Next, RoomProgress, RoomCreated, DisposeReleased, DisposeReturned, Open,
          Shed, Disconnect, CreateRoom, ToggleLock, Broadcast
  <1>6. disposing => disposing'
    BY <1>3, <1>4 DEF Next, RoomProgress, RoomCreated, DisposeReleased, DisposeReturned, Open,
          Shed, Disconnect, CreateRoom, ToggleLock, Broadcast
  <1> QED BY <1>5, <1>6

\* Which steps change `_paused`.
LEMMA PauseEffect == ASSUME Next
                     PROVE  \/ UNCHANGED paused
                            \/ \E c \in Client : \/ CompleteJoin(c) \/ CompleteJoinClosed(c)
                                                 \/ CompleteReconnect(c) \/ LeaveReturned(c)
                                                 \/ \E k \in Conn, t \in {p[2] : p \in tokens} :
                                                       Reconnect(c, k, t)
                            \/ \E k \in Conn : Disconnect(k)
  <1>1. ASSUME NEW c \in Client, Progress(c) \/ Environment(c)
        PROVE  \/ UNCHANGED paused
               \/ \/ CompleteJoin(c) \/ CompleteJoinClosed(c)
                  \/ CompleteReconnect(c) \/ LeaveReturned(c)
                  \/ \E k \in Conn, t \in {p[2] : p \in tokens} : Reconnect(c, k, t)
    BY <1>1 DEF Progress, Environment, RoomReady, AuthRefused, AuthPassed, JoinThrew,
          JoinReturned, HoldExpires, ReservationExpires, ReservationOver, DisposeNext, BotJoin,
          Reserve, ConsumeForNothing, ClientLeaves, Kick, CreateAndJoin, JoinExisting,
          ConsumeReservation
  <1> QED BY <1>1 DEF Next, RoomProgress, RoomCreated, RoomCreateFailed, DisposeReleased,
          DisposeReturned, Open, Shed, CreateRoom, Dispose, Stop, ToggleLock, Broadcast

PauseSound == PausedRoom /\ ConnectedNeverPaused

\* Only the end of a join and a reconnection make a connected client.
LEMMA ConnectedEffect ==
    ASSUME TypeOK, Next, NEW d \in Client, status'[d] = "joined", conn'[d] # NoConn
    PROVE  \/ status[d] = "joined" /\ conn[d] # NoConn
           \/ CompleteJoin(d)
           \/ \E k \in Conn, t \in Nat : Reconnect(d, k, t)
  <1> USE DEF TypeOK, SeatType
  <1>1. CASE UNCHANGED seatVars
    BY <1>1 DEF seatVars
  <1>2. ASSUME NEW c \in Client, SeatStep(c)
        PROVE  \/ status[d] = "joined" /\ conn[d] # NoConn
               \/ CompleteJoin(d)
               \/ \E k \in Conn, t \in Nat : Reconnect(d, k, t)
    <2>1. CASE \E k \in Conn \cup {NoConn}, kind \in Kinds : Takes(c, k, kind)
      BY <2>1 DEF Takes, Seat
    <2>2. CASE Advances(c) \/ Undoes(c) \/ Frees(c) \/ Drops(c) \/ JoinReturned(c)
      BY <2>2 DEF Advances, Undoes, Frees, Drops, JoinReturned
    <2>3. CASE CompleteJoin(c)
      BY <2>3 DEF CompleteJoin, Activated
    <2>4. CASE CompleteJoinClosed(c)
      BY <2>4 DEF CompleteJoinClosed
    <2>5. CASE CompleteReconnect(c)
      BY <2>5 DEF CompleteReconnect, ReleaseAll
    <2>6. CASE \E k \in Conn, t \in Nat : Reconnect(c, k, t)
      BY <2>6, ZenonT(30) DEF Reconnect
    <2> QED BY <1>2, <2>1, <2>2, <2>3, <2>4, <2>5, <2>6 DEF SeatStep
  <1>3. ASSUME NEW k \in Conn, Disconnect(k) PROVE status[d] = "joined" /\ conn[d] # NoConn
    BY <1>3 DEF Disconnect
  <1> QED BY SeatEffect, <1>1, <1>2, <1>3

\* Every step keeps PauseSound.
LEMMA PauseSoundNext == ASSUME TypeOK, PauseSound, Next PROVE PauseSound'
  <1> DEFINE Calm(st, cn) == \A c \in Client : st[c] = "joined" => cn[c] = NoConn
  <1>1. ASSUME paused' PROVE phase' = "ready"
    <2>1. ASSUME NEW st, NEW cn, PauseAfter(st, cn) PROVE phase = "ready"
      BY <2>1 DEF PauseAfter, PauseSound, PausedRoom
    <2>2. phase = "ready"
      <3>1. CASE UNCHANGED paused
        BY <1>1, <3>1 DEF PauseSound, PausedRoom
      <3>2. ASSUME NEW c \in Client,
                   \/ CompleteJoin(c) \/ CompleteJoinClosed(c) \/ CompleteReconnect(c)
                   \/ LeaveReturned(c)
            PROVE  phase = "ready"
        BY <1>1, <2>1, <3>1, <3>2 DEF CompleteJoin, CompleteJoinClosed, CompleteReconnect,
              LeaveReturned
      <3>3. ASSUME NEW c \in Client, NEW k \in Conn, NEW t, Reconnect(c, k, t) \/ Disconnect(k)
            PROVE  phase = "ready"
        BY <1>1, <2>1, <3>1, <3>3 DEF Reconnect, Disconnect
      <3>4. ASSUME NEW k \in Conn, Disconnect(k) PROVE phase = "ready"
        BY <1>1, <2>1, <3>1, <3>4 DEF Disconnect
      <3> QED BY PauseEffect, <3>1, <3>2, <3>3, <3>4
    <2> QED BY <2>2, MonotoneEffect
  <1>2. ASSUME paused', ~disposing' PROVE Calm(status', conn')
    <2>1. ~disposing
      BY <1>2, MonotoneEffect
    <2>2. ASSUME NEW st, NEW cn, PauseAfter(st, cn) PROVE Calm(st, cn)
      BY <2>1, <2>2, PauseAfterFact DEF PauseSound
    <2>3. ASSUME NEW c \in Client, CompleteJoin(c) PROVE Calm(status', conn')
      <3>1. CASE status[c] = "joining"
        BY <1>2, <2>2, <2>3, <3>1 DEF CompleteJoin
      <3>2. CASE status[c] # "joining"
        BY <1>2, <2>1, <2>3, <3>2 DEF CompleteJoin, Activated, PauseSound, ConnectedNeverPaused
      <3> QED BY <3>1, <3>2
    <2>4. ASSUME NEW c \in Client, NEW k \in Conn, NEW t \in Nat, Reconnect(c, k, t)
          PROVE  Calm(status', conn')
      <3>1. PauseAfter(status', conn')
        BY <1>2, <2>4, Zenon DEF Reconnect
      <3> QED BY <2>2, <3>1
    <2>5. CASE \/ UNCHANGED paused
               \/ \E c \in Client : CompleteJoinClosed(c) \/ CompleteReconnect(c) \/ LeaveReturned(c)
               \/ \E k \in Conn : Disconnect(k)
      <3> SUFFICES ASSUME NEW d \in Client, status'[d] = "joined", conn'[d] # NoConn,
                          status[d] = "joined", conn[d] # NoConn
                   PROVE  FALSE
        BY <2>3, <2>4, <2>5, ConnectedEffect
      <3>1. ~paused
        BY <2>1 DEF PauseSound, ConnectedNeverPaused
      <3>2. ~PauseAfter(status, conn) /\ ~PauseAfter(status', conn')
        BY <2>2
      <3>3. ASSUME NEW c \in Client PROVE ~PauseAfter(Activated(c), conn)
        <4>1. Activated(c)[d] = "joined"
          BY DEF Activated, TypeOK, SeatType
        <4> HIDE DEF Activated
        <4> QED BY <2>2, <4>1
      <3>4. ASSUME NEW c \in Client, CompleteJoinClosed(c) \/ CompleteReconnect(c) \/ LeaveReturned(c)
            PROVE  ~paused'
        BY <3>1, <3>2, <3>3, <3>4 DEF CompleteJoinClosed, CompleteReconnect, LeaveReturned
      <3>5. ASSUME NEW k \in Conn, Disconnect(k) PROVE ~paused'
        BY <3>1, <3>2, <3>5 DEF Disconnect
      <3> QED BY <1>2, <2>5, <3>1, <3>4, <3>5
    <2>6. \A p \in tokens : p[2] \in Nat
      BY DEF TypeOK, TokenType
    <2> QED BY PauseEffect, <2>3, <2>4, <2>5, <2>6
  <1> QED BY <1>1, <1>2 DEF PauseSound, PausedRoom, ConnectedNeverPaused

-----------------------------------------------------------------------------
(* The inductive invariant and its consequences.                           *)

\* The inductive invariant.
SeatInv ==
    /\ TypeOK /\ Lifecycle /\ HoldHasTimer /\ TokensCurrent /\ OnLeaveAtMostOnce
    /\ NoRoomYet /\ OneSeatPerConnection /\ SeatsConnected /\ PauseSound

\* The inductive invariant holds before the room exists.
LEMMA SeatInvInit == Init => SeatInv
  <1> SUFFICES ASSUME Init PROVE SeatInv
    OBVIOUS
  <1>1. TypeOK
    BY TypeInit
  <1>2. Lifecycle /\ HoldHasTimer /\ TokensCurrent /\ OnLeaveAtMostOnce
    BY DEF Init, Lifecycle, HoldHasTimer, TokensCurrent, OnLeaveAtMostOnce
  <1>3. NoRoomYet /\ OneSeatPerConnection /\ SeatsConnected /\ PauseSound
    BY DEF Init, NoRoomYet, OneSeatPerConnection, SeatsConnected, SeatsBound,
           JoinedSeatIsConnected, PauseSound, PausedRoom, ConnectedNeverPaused
  <1> QED BY <1>1, <1>2, <1>3 DEF SeatInv

\* Every step keeps the inductive invariant.
LEMMA SeatInvNext == ASSUME SeatInv, [Next]_vars PROVE SeatInv'
  <1>1. CASE Next
    <2>1. TypeOK' /\ Lifecycle' /\ HoldHasTimer' /\ TokensCurrent' /\ OnLeaveAtMostOnce'
      BY <1>1, TypeNext, LifecycleNext, HoldHasTimerNext, TokensCurrentNext, OnLeaveNext DEF SeatInv
    <2>2. NoRoomYet' /\ OneSeatPerConnection' /\ SeatsConnected' /\ PauseSound'
      BY <1>1, NoRoomYetNext, OneSeatNext, SeatsConnectedNext, PauseSoundNext DEF SeatInv
    <2> QED BY <2>1, <2>2 DEF SeatInv
  <1>2. CASE UNCHANGED vars
    <2>1. TypeOK'
      BY <1>2, TypeNext DEF SeatInv
    <2>2. Lifecycle' /\ HoldHasTimer' /\ TokensCurrent' /\ OnLeaveAtMostOnce'
      BY <1>2 DEF SeatInv, Lifecycle, HoldHasTimer, TokensCurrent, OnLeaveAtMostOnce, vars,
             joinVars, tokenVars, hookVars
    <2>3. NoRoomYet' /\ OneSeatPerConnection' /\ SeatsConnected' /\ PauseSound'
      BY <1>2 DEF SeatInv, NoRoomYet, OneSeatPerConnection, SeatsConnected, SeatsBound,
             JoinedSeatIsConnected, PauseSound, PausedRoom, ConnectedNeverPaused, vars,
             joinVars, linkVars, disposeVars
    <2> QED BY <2>1, <2>2, <2>3 DEF SeatInv
  <1> QED BY <1>1, <1>2

\* The inductive invariant holds always.
LEMMA SeatInvariant == Spec => []SeatInv
  BY SeatInvInit, SeatInvNext, PTL DEF Spec

\* Exactly the held seats have an armed hold timer (`_reconnectTimers`): in no
\* interleaving is a seat held without a timer, or evicted by an old one.
THEOREM HoldsAreTimed == Spec => []HoldHasTimer
  <1>1. SeatInv => HoldHasTimer
    BY DEF SeatInv
  <1> QED BY <1>1, SeatInvariant, PTL

\* The table of reconnection tokens (`_tokens`) holds exactly the current
\* token of every client that has one.
THEOREM OnlyCurrentTokens == Spec => []TokensCurrent
  <1>1. SeatInv => TokensCurrent
    BY DEF SeatInv
  <1> QED BY <1>1, SeatInvariant, PTL

\* No connection ever holds two seats of the room (`_seatedIn`), whatever
\* joins, reservations and reconnections it has under way.
THEOREM ConnectionsHoldOneSeat == Spec => []OneSeatPerConnection
  <1>1. SeatInv => OneSeatPerConnection
    BY DEF SeatInv
  <1> QED BY <1>1, SeatInvariant, PTL

\* A joined seat that is not held has a connection the transport has not
\* reported closed: `_completeJoin` and `_connectionLost` leave no ghost.
THEOREM NoGhostSeat == Spec => []JoinedSeatIsConnected
  <1>1. SeatInv => JoinedSeatIsConnected
    BY DEF SeatInv, SeatsConnected
  <1> QED BY <1>1, SeatInvariant, PTL

\* onLeave runs at most once, after onJoin, for a seat that is free
\* (`_release`, `_connectionLost`, `_dispose` never release twice).
THEOREM LeavesOnce == Spec => []OnLeaveAtMostOnce
  <1>1. SeatInv => OnLeaveAtMostOnce
    BY DEF SeatInv
  <1> QED BY <1>1, SeatInvariant, PTL

\* A room that is not closing is never paused under a connected client
\* (`_updatePause` runs in every step that connects one).
THEOREM ConnectedRoomsRun == Spec => []ConnectedNeverPaused
  <1>1. SeatInv => ConnectedNeverPaused
    BY DEF SeatInv, PauseSound
  <1> QED BY <1>1, SeatInvariant, PTL

-----------------------------------------------------------------------------
(* Frames.                                                                 *)

\* A frame more changes only the end of a log.
LEMMA LogFirst == ASSUME NEW w \in Seq(Frame), NEW f \in Frame
                  PROVE  /\ Log(w, f) # <<>>
                         /\ w # <<>> => Log(w, f)[1] = w[1]
                         /\ w = <<>> => Log(w, f)[1] = f
  <1>1. Len(w) \in Nat /\ (w = <<>> => Len(w) = 0) /\ (w # <<>> => Len(w) >= 1)
    BY EmptySeq
  <1>2. Len(Append(w, f)) = Len(w) + 1
    OBVIOUS
  <1>3. Append(w, f) # <<>>
    BY <1>1, <1>2, EmptySeq
  <1>4. w # <<>> => Append(w, f)[1] = w[1]
    BY <1>1
  <1>5. w = <<>> => Append(w, f)[1] = f
    BY <1>1
  <1> QED BY <1>3, <1>4, <1>5 DEF Log

\* What a step sends to a client: nothing; a frame, if it is joined; a LEAVE with
\* its seat; or it is seated, activated or resumed.
LEMMA WireEffect == ASSUME TypeOK, HoldHasTimer, Next, NEW d \in Client
                    PROVE  \/ wire'[d] = wire[d]
                           \/ /\ status[d] = "joined" /\ conn[d] # NoConn
                              /\ wire'[d] = Log(wire[d], "frame")
                           \/ /\ status[d] \in {"joined", "reconnecting"} /\ status'[d] = "left"
                              /\ wire'[d] = Log(wire[d], "leave")
                           \/ status[d] = "new" /\ wire'[d] = <<>>
                           \/ CompleteJoin(d) \/ CompleteReconnect(d)
                           \/ /\ pc'[d] = "resumed" /\ status'[d] = "joined"
                              /\ wire'[d] \in {<<>>, <<"frame">>}
  <1> DEFINE Sent == \/ wire'[d] = wire[d]
                     \/ /\ status[d] = "joined" /\ conn[d] # NoConn
                        /\ wire'[d] = Log(wire[d], "frame")
                     \/ /\ status[d] \in {"joined", "reconnecting"} /\ status'[d] = "left"
                        /\ wire'[d] = Log(wire[d], "leave")
                     \/ status[d] = "new" /\ wire'[d] = <<>>
                     \/ CompleteJoin(d) \/ CompleteReconnect(d)
                     \/ /\ pc'[d] = "resumed" /\ status'[d] = "joined"
                        /\ wire'[d] \in {<<>>, <<"frame">>}
  <1> SUFFICES Sent
    OBVIOUS
  <1> USE DEF TypeOK, FrameType, SeatType
  <1>1. ASSUME NEW c \in Client, ReleaseJoining(c) \/ Unseat(c) PROVE Sent
    BY <1>1 DEF ReleaseJoining, Unseat
  <1>2. ASSUME NEW c \in Client, status[c] \in {"joined", "reconnecting"},
               ReleaseAll({c}, TRUE) \/ ReleaseAll({c}, FALSE)
        PROVE  Sent
    BY <1>2 DEF ReleaseAll
  <1>3. ASSUME DeliverAll(Seated) PROVE Sent
    BY <1>3 DEF DeliverAll, CanSend
  <1>4. ASSUME DisposeBegin PROVE Sent
    <2>1. CASE Seated = {}
      BY <1>4, <2>1 DEF DisposeBegin, frameVars
    <2>2. CASE Seated # {}
      <3>1. PICK c \in Client : status[c] \in Live /\ IF status[c] = "joining" THEN ReleaseJoining(c)
                                                      ELSE ReleaseAll({c}, TRUE)
        BY <1>4, <2>2, Zenon DEF DisposeBegin, Seated
      <3> HIDE DEF Sent
      <3>2. CASE status[c] = "joining"
        BY <1>1, <3>1, <3>2
      <3>3. CASE status[c] # "joining"
        <4>1. status[c] \in {"joined", "reconnecting"} /\ ReleaseAll({c}, TRUE)
          BY <3>1, <3>3 DEF Live
        <4> QED BY <1>2, <4>1
      <3> QED BY <3>2, <3>3
    <2> QED BY <2>1, <2>2
  <1>5. ASSUME NEW c \in Client, CompleteJoin(c) \/ CompleteJoinClosed(c) PROVE Sent
    BY <1>5 DEF CompleteJoin, CompleteJoinClosed, CanSend
  <1>6. ASSUME NEW c \in Client, CompleteReconnect(c) PROVE Sent
    <2>1. CASE c = d
      BY <1>6, <2>1
    <2>2. CASE c # d
      BY <1>6, <2>2 DEF CompleteReconnect, ReleaseAll, frameVars
    <2> QED BY <2>1, <2>2
  <1>7. ASSUME NEW c \in Client, NEW k \in Conn,
               CreateAndJoin(c, k) \/ JoinExisting(c, k) \/ ConsumeReservation(c, k)
        PROVE  Sent
    BY <1>7 DEF CreateAndJoin, JoinExisting, ConsumeReservation
  <1>8. ASSUME NEW c \in Client, NEW k \in Conn, NEW p \in tokens, Reconnect(c, k, p[2])
        PROVE  Sent
    BY <1>8 DEF Reconnect, JoinType
  <1>9. ASSUME NEW c \in Client, HoldExpires(c) \/ ClientLeaves(c) \/ Kick(c) \/ DisposeNext(c)
         PROVE Sent
    <2> HIDE DEF Sent
    <2>1. CASE ReleaseJoining(c)
      BY <1>1, <2>1
    <2>2. CASE ~ReleaseJoining(c)
      <3>1. \/ /\ status[c] \in {"joined", "reconnecting"}
               /\ ReleaseAll({c}, TRUE) \/ ReleaseAll({c}, FALSE)
            \/ UNCHANGED wire
        BY <1>9, <2>2 DEF HoldExpires, ClientLeaves, Kick, DisposeNext, HoldHasTimer, Seated,
                Live, frameVars
      <3>2. CASE UNCHANGED wire
        BY <3>2 DEF Sent
      <3> QED BY <1>2, <3>1, <3>2
    <2> QED BY <2>1, <2>2
  <1>10. CASE UNCHANGED wire
    BY <1>10
  <1> HIDE DEF Sent
  <1>11. ASSUME NEW c \in Client, Progress(c) \/ Environment(c) PROVE Sent
    BY <1>1, <1>2, <1>3, <1>5, <1>6, <1>7, <1>8, <1>9, <1>10, <1>11 DEF Progress, Environment,
                frameVars,
          RoomReady, AuthRefused, AuthPassed, JoinThrew, JoinReturned,
          ReservationExpires, ReservationOver, LeaveReturned, BotJoin, Reserve,
          ConsumeForNothing
  <1> QED BY <1>3, <1>4, <1>10, <1>11 DEF Next, frameVars, RoomProgress, RoomCreated,
                RoomCreateFailed,
          DisposeReleased, DisposeReturned, Open, Shed, Disconnect, CreateRoom, Dispose, Stop,
          ToggleLock, Broadcast

\* Nothing is sent to a seat before its JOIN_SUCCESS, and nothing at all to a bot; a
\* seat that is resumed has had a token, so the next one is not its first.
Greeting(c) ==
    /\ status[c] = "new" => pc[c] = "idle"
    /\ status[c] \in {"new", "joining"} => wire[c] = <<>> /\ token[c] = 0 /\ pc[c] # "resumed"
    /\ by[c] = "server" => /\ conn[c] = NoConn /\ token[c] = 0 /\ pc[c] # "resumed"
                           /\ status[c] = "joined" => wire[c] = <<>>
    /\ token[c] # 0 \/ pc[c] = "resumed" => issued[c] # 0 /\ AllowReconnection
    /\ status[c] = "joined" /\ issued[c] <= 1 /\ pc[c] # "resumed" /\ by[c] # "server"
          => wire[c] # <<>> /\ wire[c][1] = "success"

\* For every seat.
Greeted == \A c \in Client : Greeting(c)

\* Every step keeps Greeted.
LEMMA GreetedNext == ASSUME SeatInv, Greeted, Next PROVE Greeted'
  <1> SUFFICES ASSUME NEW d \in Client PROVE Greeting(d)'
    BY DEF Greeted
  <1>1. TypeOK /\ HoldHasTimer /\ Lifecycle /\ TokensCurrent /\ Greeting(d)
    BY DEF SeatInv, Greeted
  <1>2. /\ wire[d] \in Seq(Frame) /\ "frame" \in Frame /\ "success" \in Frame
        /\ issued \in [Client -> Nat] /\ token \in [Client -> Nat]
        /\ pc \in [Client -> Step] /\ status \in [Client -> Status]
        /\ conn \in [Client -> Conn \cup {NoConn}] /\ by \in [Client -> Kinds \cup {"none"}]
    BY <1>1 DEF TypeOK, FrameType, TokenType, SeatType, JoinType, Frame
  <1>3. CASE CompleteJoin(d)
    <2>1. /\ pc'[d] = "done" /\ status'[d] = (IF status[d] = "joining" THEN "joined" ELSE status[d])
          /\ UNCHANGED <<conn, by>>
      BY <1>2, <1>3 DEF CompleteJoin, Activated
    <2>2. CASE by[d] = "server"
      BY <1>1, <1>2, <1>3, <2>1, <2>2 DEF CompleteJoin, CanSend, Greeting, tokenVars
    <2>3. CASE by[d] # "server"
      <3>1. /\ issued'[d] \in Nat /\ (token'[d] # 0 => issued'[d] # 0 /\ AllowReconnection)
        BY <1>2, <1>3, <2>3 DEF CompleteJoin, IssueToken
      <3>2. CASE status[d] = "joining"
        <4>1. DEFINE mine == Log(wire[d], "success")
        <4>2. mine \in Seq(Frame) /\ mine # <<>> /\ mine[1] = "success"
          BY <1>1, <1>2, <3>2, LogFirst, LogType DEF Greeting
        <4>3. wire'[d] = mine \/ wire'[d] = Log(mine, "frame")
          BY <1>3, <2>3 DEF CompleteJoin
        <4> HIDE DEF mine
        <4>4. wire'[d] # <<>> /\ wire'[d][1] = "success"
          BY <1>2, <4>2, <4>3, LogFirst
        <4> QED BY <2>1, <2>3, <3>1, <3>2, <4>4 DEF Greeting
      <3>3. CASE status[d] # "joining"
        <4>1. status[d] # "new" /\ status[d] # "joined"
          BY <1>1, <1>3 DEF CompleteJoin, Lifecycle, Greeting
        <4> QED BY <2>1, <2>3, <3>1, <3>3, <4>1 DEF Greeting
      <3> QED BY <3>2, <3>3
    <2> QED BY <2>2, <2>3
  <1>4. CASE CompleteReconnect(d)
    <2>1. pc[d] = "resumed" /\ pc'[d] = "done" /\ issued[d] # 0 /\ AllowReconnection /\ by[d] # "server"
          /\ by' = by
      BY <1>1, <1>2, <1>4 DEF CompleteReconnect, Greeting
    <2>2. CASE ~TargetClosed(d)
      <3>1. issued'[d] = issued[d] + 1 /\ status' = status /\ issued[d] \in Nat
        BY <1>2, <1>4, <2>1, <2>2 DEF CompleteReconnect, IssueToken
      <3> QED BY <1>1, <2>1, <3>1 DEF Greeting, Lifecycle
    <2>3. CASE TargetClosed(d)
      <3>1. status[d] \notin {"new", "joining"}
        BY <1>1, <2>1 DEF Greeting
      <3>2. issued' = issued /\ status'[d] # "joined" /\ status'[d] \notin {"new", "joining"}
        BY <1>2, <1>4, <2>3, <3>1 DEF CompleteReconnect, ReleaseAll, tokenVars
      <3> QED BY <2>1, <3>2 DEF Greeting
    <2> QED BY <2>2, <2>3
  <1>5. CASE ~CompleteJoin(d) /\ ~CompleteReconnect(d)
    <2>1. \/ wire'[d] = wire[d]
          \/ /\ status[d] = "joined" /\ conn[d] # NoConn
             /\ wire'[d] # <<>> /\ (wire[d] # <<>> => wire'[d][1] = wire[d][1])
          \/ status'[d] = "left"
          \/ status[d] = "new" /\ wire'[d] = <<>>
          \/ pc'[d] = "resumed" /\ status'[d] = "joined"
      BY <1>1, <1>2, <1>5, WireEffect, LogFirst
    <2> USE <1>1, <1>2, <2>1 DEF Greeting
    <2>2. CASE UNCHANGED seatVars
      BY <2>2 DEF seatVars, joinVars, tokenVars
    <2>3. ASSUME NEW c \in Client, NEW k \in Conn \cup {NoConn}, NEW kind \in Kinds, Takes(c, k, kind)
          PROVE  Greeting(d)'
      BY <2>3 DEF Takes, Seat, tokenVars
    <2>4. ASSUME NEW c \in Client, Advances(c) \/ Undoes(c) \/ Drops(c) \/ Frees(c)
          PROVE  Greeting(d)'
      BY <2>4 DEF Advances, Undoes, Drops, Frees, joinVars, tokenVars
    <2>5. ASSUME NEW c \in Client, JoinReturned(c) \/ CompleteJoinClosed(c) PROVE Greeting(d)'
      BY <2>5 DEF JoinReturned, CompleteJoinClosed, tokenVars
    <2>6. ASSUME NEW c \in Client, CompleteJoin(c) PROVE Greeting(d)'
      <3>1. c # d
        BY <1>5, <2>6
      <3>2. /\ status'[d] = status[d] /\ pc'[d] = pc[d] /\ by' = by /\ conn' = conn
            /\ token'[d] = token[d] /\ issued'[d] = issued[d]
        BY <2>6, <3>1 DEF CompleteJoin, Activated, IssueToken, tokenVars
      <3> QED BY <3>2
    <2>7. ASSUME NEW c \in Client, CompleteReconnect(c) PROVE Greeting(d)'
      BY <1>5, <2>7 DEF CompleteReconnect, IssueToken, ReleaseAll, tokenVars
    <2>8. ASSUME NEW c \in Client, NEW k \in Conn, NEW t \in Nat, Reconnect(c, k, t)
          PROVE  Greeting(d)'
      <3>1. c = d => token[d] # 0
        BY <2>8 DEF Reconnect, TokensCurrent
      <3> QED BY <2>8, <3>1 DEF Reconnect, tokenVars
    <2>9. ASSUME NEW k \in Conn, Disconnect(k) PROVE Greeting(d)'
      BY <2>9, RoomSeatsAssumption DEF Disconnect, joinVars
    <2> QED BY SeatEffect, <2>2, <2>3, <2>4, <2>5, <2>6, <2>7, <2>8, <2>9 DEF SeatStep
  <1> QED BY <1>3, <1>4, <1>5

\* The first frame of a newly seated client is its JOIN_SUCCESS (`_completeJoin`,
\* `_deliverAll`), whatever the other joins, hooks and broadcasts of the room send.
THEOREM HandshakesComeFirst == Spec => []HandshakeFirst
  <1>1. Init => Greeted
    BY DEF Init, Greeted, Greeting
  <1>2. SeatInv /\ Greeted /\ [Next]_vars => Greeted'
    <2>1. ASSUME SeatInv, Greeted, Next PROVE Greeted'
      BY <2>1, GreetedNext
    <2>2. ASSUME Greeted, UNCHANGED vars PROVE Greeted'
      BY <2>2 DEF vars, joinVars, tokenVars, frameVars, Greeted, Greeting
    <2> QED BY <2>1, <2>2
  <1>3. Greeted => HandshakeFirst
    BY DEF Greeted, Greeting, HandshakeFirst
  <1> QED BY <1>1, <1>2, <1>3, SeatInvariant, PTL DEF Spec

-----------------------------------------------------------------------------
(* How a room ends.                                                        *)

\* A room whose seats come from its creator and from reservations, and whose code
\* removes nobody and disposes nothing.  (README.md says what happens in the others.)
OrdinaryRoom ==
    /\ ServerActs \subseteq {"lock"}
    /\ JoinKinds \subseteq {"create", "reservation"}
    /\ "consume" \notin Fails

\* While onCreate runs, its creator waits and nobody else is there.
Beginning ==
    phase \in {"none", "creating"} =>
        /\ ~disposing /\ leaving = {}
        /\ \A c \in Client : /\ rsv[c] = "none" /\ pc[c] \in {"idle", "ready"}
                             /\ status[c] \in {"new", "joining"} /\ leaves[c] = 0

\* A room whose onCreate threw is closing, and nobody ever entered it.
Failing ==
    phase = "failed" =>
        /\ disposing /\ leaving = {}
        /\ \A c \in Client : /\ rsv[c] = "none" /\ pc[c] \in {"idle", "ready", "done"}
                             /\ c \notin entered /\ leaves[c] = 0
                             /\ status[c] \in {"new", "joining", "left"}

\* A join under way has its seat.
JoinsStand ==
    \A c \in Client :
        /\ pc[c] # "idle" => by[c] \in {"create", "reservation"}
        /\ phase # "failed" /\ pc[c] \in {"ready", "auth", "join", "complete"} => status[c] = "joining"
        /\ pc[c] = "resumed" => status[c] = "joined"
        /\ pc[c] \in {"idle", "ready", "auth", "join"} => c \notin entered

\* A room that was created closes only when it is empty, and then once.
Closing ==
    /\ disposing /\ phase = "ready" => IsEmpty(status, rsv)
    /\ dnest = "no" /\ (disposing <=> dmain # "no")
    /\ dmain = "releasing" => phase = "failed"
    /\ disposals = IF dmain \in {"hook", "done"} THEN 1 ELSE 0

\* Only a seat that is taken has a token.
TokensSeated == \A c \in Client : token[c] # 0 => status[c] \in {"joined", "reconnecting"}

\* Nobody has been in a room that is empty, with no onLeave running, and not closing.
EmptyAtOnce ==
    AutoDispose /\ phase = "ready" /\ ~disposing /\ leaving = {} /\ IsEmpty(status, rsv) =>
        \A c \in Client : leaves[c] = 0 /\ rsv[c] = "none"

\* The parts together.
EndsInv ==
    Beginning /\ Failing /\ JoinsStand /\ Closing /\ TokensSeated /\ EmptyAtOnce /\ LeaveFollowsJoin

\* Nothing happens to seats, reservations and hooks.
LEMMA EndsQuiet == ASSUME OrdinaryRoom, SeatInv, Greeted, EndsInv,
           CreateRoom \/ ToggleLock \/ Broadcast \/ \E k \in Conn : Open(k) \/ Shed(k)
    PROVE  EndsInv'
  <1> USE DEF SeatInv, TypeOK, RoomType, SeatType, JoinType, TokenType, HookType, DisposeType,
              hookVars, tokenVars, joinVars, disposeVars, Status, Live, Step
  <1>1. Beginning'
    BY DEF EndsInv, Beginning, CreateRoom, ToggleLock, Broadcast, Open, Shed
  <1>2. Failing'
    BY DEF EndsInv, Failing, CreateRoom, ToggleLock, Broadcast, Open, Shed
  <1>3. JoinsStand'
    BY DEF EndsInv, JoinsStand, CreateRoom, ToggleLock, Broadcast, Open, Shed
  <1>4. Closing'
    BY DEF EndsInv, Closing, IsEmpty, Held, CreateRoom, ToggleLock, Broadcast, Open, Shed
  <1>5. TokensSeated'
    BY DEF EndsInv, TokensSeated, CreateRoom, ToggleLock, Broadcast, Open, Shed
  <1>6. EmptyAtOnce'
    BY DEF EndsInv, EmptyAtOnce, IsEmpty, Held, CreateRoom, ToggleLock, Broadcast, Open, Shed
  <1>7. LeaveFollowsJoin'
    BY DEF EndsInv, LeaveFollowsJoin, CreateRoom, ToggleLock, Broadcast, Open, Shed
  <1> QED BY <1>1, <1>2, <1>3, <1>4, <1>5, <1>6, <1>7 DEF EndsInv

\* onCreate returned.
LEMMA EndsCreated == ASSUME OrdinaryRoom, SeatInv, Greeted, EndsInv,
           RoomCreated
    PROVE  EndsInv'
  <1> USE DEF SeatInv, TypeOK, RoomType, SeatType, JoinType, TokenType, HookType, DisposeType,
              hookVars, tokenVars, joinVars, disposeVars, Status, Live, Step
  <1>1. Beginning'
    BY DEF EndsInv, Beginning, RoomCreated
  <1>2. Failing'
    BY DEF EndsInv, Failing, RoomCreated
  <1>3. JoinsStand'
    BY DEF EndsInv, JoinsStand, RoomCreated
  <1>4. Closing'
    BY DEF EndsInv, Closing, Beginning, IsEmpty, Held, RoomCreated
  <1>5. TokensSeated'
    BY DEF EndsInv, TokensSeated, RoomCreated
  <1>6. EmptyAtOnce'
    BY DEF EndsInv, EmptyAtOnce, Beginning, IsEmpty, Held, RoomCreated
  <1>7. LeaveFollowsJoin'
    BY DEF EndsInv, LeaveFollowsJoin, RoomCreated
  <1> QED BY <1>1, <1>2, <1>3, <1>4, <1>5, <1>6, <1>7 DEF EndsInv

\* onCreate threw: the disposal drops the creator's seat at most.
LEMMA EndsCreateFailed == ASSUME OrdinaryRoom, SeatInv, Greeted, EndsInv,
           RoomCreateFailed
    PROVE  EndsInv'
  <1> USE DEF SeatInv, TypeOK, RoomType, SeatType, JoinType, TokenType, HookType, DisposeType,
              hookVars, tokenVars, joinVars, disposeVars, Status, Live, Step
  <1>a. phase = "creating" /\ phase' = "failed" /\ ~disposing /\ DisposeBegin
        /\ UNCHANGED <<pc, by, target>>
    BY DEF RoomCreateFailed, EndsInv, Beginning
  <1>b. \A c \in Client : /\ rsv[c] = "none" /\ pc[c] \in {"idle", "ready"} /\ leaves[c] = 0
                          /\ status[c] \in {"new", "joining"} /\ c \notin entered
    BY <1>a DEF EndsInv, Beginning, JoinsStand
  <1>c. /\ disposing' = TRUE /\ dnest' = dnest
        /\ \/ dmain' = "hook" /\ disposals' = disposals + 1
           \/ dmain' = "releasing" /\ disposals' = disposals
        /\ UNCHANGED <<rsv, token, leaving, entered, leaves>>
        /\ \A c \in Client : status'[c] = status[c] \/ (status[c] = "joining" /\ status'[c] = "left")
    <2>1. CASE Seated = {}
      <3>1. rsv' = [c \in Client |-> IF rsv[c] = "held" THEN "over" ELSE rsv[c]]
        BY <1>a, <2>1 DEF DisposeBegin
      <3>2. rsv' = rsv
        BY <1>b, <3>1
      <3> QED BY <1>a, <2>1, <3>2 DEF DisposeBegin
    <2>2. CASE Seated # {}
      <3>1. PICK c \in Seated :
               /\ disposing' = TRUE /\ dmain' = "releasing" /\ rsv' = rsv
               /\ status[c] = "joining" =>
                     /\ ReleaseJoining(c)
                     /\ IF AutoDispose /\ phase = "ready" /\ IsEmpty(status', rsv)
                        THEN dnest' = "hook" /\ disposals' = disposals + 1
                        ELSE UNCHANGED <<dnest, disposals>>
        BY <1>a, <2>2, Zenon DEF DisposeBegin
      <3>2. c \in Client /\ status[c] = "joining"
        BY <1>b DEF Seated
      <3> QED BY <1>a, <3>1, <3>2 DEF ReleaseJoining
    <2> QED BY <2>1, <2>2
  <1>1. Beginning'
    BY <1>a, <1>b, <1>c DEF EndsInv, Beginning
  <1>2. Failing'
    BY <1>a, <1>b, <1>c DEF EndsInv, Failing, Beginning
  <1>3. JoinsStand'
    BY <1>a, <1>b, <1>c DEF EndsInv, JoinsStand
  <1>4. Closing'
    BY <1>a, <1>b, <1>c DEF EndsInv, Closing
  <1>5. TokensSeated'
    BY <1>a, <1>b, <1>c DEF EndsInv, TokensSeated
  <1>6. EmptyAtOnce'
    BY <1>a, <1>b, <1>c DEF EndsInv, EmptyAtOnce
  <1>7. LeaveFollowsJoin'
    BY <1>a, <1>b, <1>c DEF EndsInv, LeaveFollowsJoin
  <1> QED BY <1>1, <1>2, <1>3, <1>4, <1>5, <1>6, <1>7 DEF EndsInv

\* The disposal goes on.
LEMMA EndsDisposed == ASSUME OrdinaryRoom, SeatInv, Greeted, EndsInv,
           DisposeReleased \/ DisposeReturned \/ \E c \in Client : DisposeNext(c)
    PROVE  EndsInv'
  <1> USE DEF SeatInv, TypeOK, RoomType, SeatType, JoinType, TokenType, HookType, DisposeType,
              hookVars, tokenVars, joinVars, disposeVars, Status, Live, Step
  <1>a. /\ UNCHANGED <<phase, disposing, dnest, pc, by, token, leaving, entered, leaves>>
        /\ \/ dmain = "releasing" /\ dmain' = "hook" /\ disposals' = disposals + 1
           \/ dmain = "hook" /\ dmain' = "done" /\ disposals' = disposals
           \/ dmain = "releasing" /\ dmain' = dmain /\ disposals' = disposals
        /\ dmain = "hook" => UNCHANGED <<status, rsv>>
        /\ \A c \in Client : status'[c] = status[c] \/ (status[c] = "joining" /\ status'[c] = "left")
        /\ \A c \in Client : rsv'[c] = rsv[c] \/ (rsv[c] = "held" /\ rsv'[c] = "over")
    <2>1. CASE DisposeReleased
      BY <2>1 DEF DisposeReleased
    <2>2. CASE DisposeReturned
      BY <2>2 DEF DisposeReturned, EndsInv, Closing
    <2>3. ASSUME NEW c \in Client, DisposeNext(c) PROVE status[c] \notin {"joined", "reconnecting"}
      BY <2>3 DEF DisposeNext, EndsInv, Closing, Failing
    <2>4. CASE \E c \in Client : DisposeNext(c)
      BY <2>3, <2>4, ZenonT(30) DEF DisposeNext, ReleaseJoining
    <2> QED BY <2>1, <2>2, <2>4
  <1>1. Beginning'
    BY <1>a DEF EndsInv, Beginning, Closing
  <1>2. Failing'
    BY <1>a DEF EndsInv, Failing, Closing
  <1>3. JoinsStand'
    BY <1>a DEF EndsInv, JoinsStand, Closing, Failing
  <1>4. Closing'
    BY <1>a DEF EndsInv, Closing, IsEmpty, Held
  <1>5. TokensSeated'
    BY <1>a DEF EndsInv, TokensSeated, Closing, Failing
  <1>6. EmptyAtOnce'
    BY <1>a DEF EndsInv, EmptyAtOnce, Closing, Failing
  <1>7. LeaveFollowsJoin'
    BY <1>a DEF EndsInv, LeaveFollowsJoin, Closing, Failing
  <1> QED BY <1>1, <1>2, <1>3, <1>4, <1>5, <1>6, <1>7 DEF EndsInv

\* The creator is seated.
LEMMA EndsCreator == ASSUME OrdinaryRoom, SeatInv, Greeted, EndsInv,
           \E c \in Client, k \in Conn : CreateAndJoin(c, k)
    PROVE  EndsInv'
  <1> USE DEF SeatInv, TypeOK, RoomType, SeatType, JoinType, TokenType, HookType, DisposeType,
              hookVars, tokenVars, joinVars, disposeVars, Status, Live, Step
  <1>1. Beginning'
    BY DEF EndsInv, Beginning, CreateAndJoin, Seat
  <1>2. Failing'
    BY DEF EndsInv, Failing, CreateAndJoin, Seat
  <1>3. JoinsStand'
    BY DEF EndsInv, JoinsStand, Beginning, CreateAndJoin, Seat
  <1>4. Closing'
    BY DEF EndsInv, Closing, IsEmpty, Held, CreateAndJoin, Seat
  <1>5. TokensSeated'
    BY DEF EndsInv, TokensSeated, CreateAndJoin, Seat
  <1>6. EmptyAtOnce'
    BY DEF EndsInv, EmptyAtOnce, IsEmpty, Held, CreateAndJoin, Seat
  <1>7. LeaveFollowsJoin'
    BY DEF EndsInv, LeaveFollowsJoin, CreateAndJoin, Seat
  <1> QED BY <1>1, <1>2, <1>3, <1>4, <1>5, <1>6, <1>7 DEF EndsInv

\* A reservation becomes a seat.
LEMMA EndsConsumed == ASSUME OrdinaryRoom, SeatInv, Greeted, EndsInv,
           \E c \in Client, k \in Conn : ConsumeReservation(c, k)
    PROVE  EndsInv'
  <1> USE DEF SeatInv, TypeOK, RoomType, SeatType, JoinType, TokenType, HookType, DisposeType,
              hookVars, tokenVars, joinVars, disposeVars, Status, Live, Step
  <1>1. Beginning'
    BY DEF EndsInv, Beginning, ConsumeReservation, Seat
  <1>2. Failing'
    BY DEF EndsInv, Failing, ConsumeReservation, Seat
  <1>3. JoinsStand'
    BY DEF EndsInv, JoinsStand, Greeted, Greeting, ConsumeReservation, Seat
  <1>4. Closing'
    BY DEF EndsInv, Closing, IsEmpty, Held, ConsumeReservation, Seat
  <1>5. TokensSeated'
    BY DEF EndsInv, TokensSeated, ConsumeReservation, Seat
  <1>6. EmptyAtOnce'
    BY DEF EndsInv, EmptyAtOnce, IsEmpty, Held, ConsumeReservation, Seat
  <1>7. LeaveFollowsJoin'
    BY DEF EndsInv, LeaveFollowsJoin, ConsumeReservation, Seat
  <1> QED BY <1>1, <1>2, <1>3, <1>4, <1>5, <1>6, <1>7 DEF EndsInv

\* A reservation begins or ends.
LEMMA EndsReserved == ASSUME OrdinaryRoom, SeatInv, Greeted, EndsInv,
           \E c \in Client : Reserve(c) \/ ReservationExpires(c) \/ ReservationOver(c) \/ ConsumeForNothing(c)
    PROVE  EndsInv'
  <1> USE DEF SeatInv, TypeOK, RoomType, SeatType, JoinType, TokenType, HookType, DisposeType,
              hookVars, tokenVars, joinVars, disposeVars, Status, Live, Step
  <1>a. /\ UNCHANGED <<phase, status, pc, by, token, leaving, entered, leaves, dnest>>
        /\ \/ \E c \in Client : ~disposing /\ phase = "ready" /\ rsv' = [rsv EXCEPT ![c] = "held"]
                                /\ UNCHANGED <<disposing, dmain, disposals>>
           \/ \E c \in Client : rsv[c] = "held" /\ rsv' = [rsv EXCEPT ![c] = "due"] /\ CheckEmpty(status, rsv')
           \/ \E c \in Client : /\ rsv[c] = "due" \/ (rsv[c] = "held" /\ disposing)
                                /\ rsv' = [rsv EXCEPT ![c] = "over"]
                                /\ UNCHANGED <<disposing, dmain, disposals>>
    BY DEF Reserve, ReservationExpires, ReservationOver, ConsumeForNothing, AcceptsNewSeat,
           OrdinaryRoom,
           CheckEmpty
  <1>b. \A c \in Client : rsv[c] # "none" => phase = "ready"
    BY DEF EndsInv, Beginning, Failing
  <1>c. CheckEmpty(status, rsv') =>
           \/ /\ UNCHANGED <<disposing, dmain, disposals>>
              /\ ~(AutoDispose /\ phase = "ready" /\ ~disposing /\ IsEmpty(status, rsv'))
           \/ /\ phase = "ready" /\ ~disposing /\ IsEmpty(status, rsv')
              /\ disposing' = TRUE /\ dmain' = "hook" /\ disposals' = disposals + 1
    BY DEF CheckEmpty
  <1>1. Beginning'
    BY DEF EndsInv, Beginning, Reserve, ReservationExpires, ReservationOver, ConsumeForNothing,
           CheckEmpty
  <1>2. Failing'
    BY DEF EndsInv, Failing, Reserve, ReservationExpires, ReservationOver, ConsumeForNothing,
           CheckEmpty
  <1>3. JoinsStand'
    BY DEF EndsInv, JoinsStand, Reserve, ReservationExpires, ReservationOver, ConsumeForNothing,
           CheckEmpty
  <1>4. Closing'
    <2>1. /\ dnest' = "no" /\ (disposing' <=> dmain' # "no") /\ (dmain' = "releasing" => phase' = "failed")
          /\ disposals' = IF dmain' \in {"hook", "done"} THEN 1 ELSE 0
      BY <1>a, <1>c DEF EndsInv, Closing
    <2>2. ASSUME disposing', phase' = "ready" PROVE IsEmpty(status', rsv')
      <3>1. CASE ~disposing
        <4>1. disposing' # disposing
          BY <2>2, <3>1
        <4>2. CheckEmpty(status, rsv')
          BY <1>a, <4>1
        <4> QED BY <1>a, <1>c, <4>1, <4>2
      <3>2. CASE disposing
        <4>1. IsEmpty(status, rsv)
          BY <1>a, <2>2, <3>2 DEF EndsInv, Closing
        <4>2. \A c \in Client : rsv'[c] = "held" => rsv[c] = "held"
          BY <1>a, <3>2
        <4> QED BY <1>a, <4>1, <4>2 DEF IsEmpty, Held
      <3> QED BY <3>1, <3>2
    <2> QED BY <2>1, <2>2 DEF Closing
  <1>5. TokensSeated'
    BY DEF EndsInv, TokensSeated, Reserve, ReservationExpires, ReservationOver, ConsumeForNothing,
           CheckEmpty
  <1>6. EmptyAtOnce'
    <2> SUFFICES ASSUME AutoDispose, phase = "ready", ~disposing', leaving = {}, IsEmpty(status, rsv'),
                        NEW c \in Client
                 PROVE  leaves[c] = 0 /\ rsv'[c] = "none"
      BY <1>a DEF EmptyAtOnce
    <2>1. \A e \in Client : rsv'[e] # "held"
      BY DEF IsEmpty, Held
    <2>2. PICK e \in Client : rsv[e] = "due" /\ rsv' = [rsv EXCEPT ![e] = "over"] /\ UNCHANGED disposing
      BY <1>a, <1>c, <2>1
    <2>3. IsEmpty(status, rsv)
      BY <2>2 DEF IsEmpty, Held
    <2> QED BY <2>2, <2>3 DEF EndsInv, EmptyAtOnce
  <1>7. LeaveFollowsJoin'
    BY DEF EndsInv, LeaveFollowsJoin, Reserve, ReservationExpires, ReservationOver,
           ConsumeForNothing, CheckEmpty
  <1> QED BY <1>1, <1>2, <1>3, <1>4, <1>5, <1>6, <1>7 DEF EndsInv

\* A join goes on or fails.
LEMMA EndsJoining == ASSUME OrdinaryRoom, SeatInv, Greeted, EndsInv,
           \E c \in Client : RoomReady(c) \/ AuthRefused(c) \/ AuthPassed(c) \/ JoinThrew(c)
    PROVE  EndsInv'
  <1> USE DEF SeatInv, TypeOK, RoomType, SeatType, JoinType, TokenType, HookType, DisposeType,
              hookVars, tokenVars, joinVars, disposeVars, Status, Live, Step
  <1>1. Beginning'
    BY DEF EndsInv, Beginning, RoomReady, AuthRefused, AuthPassed, JoinThrew, Unseat, CheckEmpty
  <1>2. Failing'
    BY DEF EndsInv, Failing, RoomReady, AuthRefused, AuthPassed, JoinThrew, Unseat, CheckEmpty
  <1>3. JoinsStand'
    BY DEF EndsInv, JoinsStand, RoomReady, AuthRefused, AuthPassed, JoinThrew, Unseat, CheckEmpty
  <1>4. Closing'
    BY DEF EndsInv, Closing, IsEmpty, Held, RoomReady, AuthRefused, AuthPassed, JoinThrew, Unseat,
           CheckEmpty
  <1>5. TokensSeated'
    BY DEF EndsInv, TokensSeated, JoinsStand, Failing, RoomReady, AuthRefused, AuthPassed,
           JoinThrew, Unseat, CheckEmpty
  <1>6. EmptyAtOnce'
    BY DEF EndsInv, EmptyAtOnce, JoinsStand, IsEmpty, Held, RoomReady, AuthRefused, AuthPassed,
           JoinThrew, Unseat, CheckEmpty
  <1>7. LeaveFollowsJoin'
    BY DEF EndsInv, LeaveFollowsJoin, JoinsStand, RoomReady, AuthRefused, AuthPassed, JoinThrew,
           Unseat, CheckEmpty
  <1> QED BY <1>1, <1>2, <1>3, <1>4, <1>5, <1>6, <1>7 DEF EndsInv

\* onJoin returned.
LEMMA EndsReturned == ASSUME OrdinaryRoom, SeatInv, Greeted, EndsInv,
           \E c \in Client : JoinReturned(c)
    PROVE  EndsInv'
  <1> USE DEF SeatInv, TypeOK, RoomType, SeatType, JoinType, TokenType, HookType, DisposeType,
              hookVars, tokenVars, joinVars, disposeVars, Status, Live, Step
  <1>1. Beginning'
    BY DEF EndsInv, Beginning, JoinReturned
  <1>2. Failing'
    BY DEF EndsInv, Failing, JoinReturned
  <1>3. JoinsStand'
    BY DEF EndsInv, JoinsStand, JoinReturned
  <1>4. Closing'
    BY DEF EndsInv, Closing, IsEmpty, Held, JoinReturned
  <1>5. TokensSeated'
    BY DEF EndsInv, TokensSeated, JoinReturned
  <1>6. EmptyAtOnce'
    BY DEF EndsInv, EmptyAtOnce, IsEmpty, Held, JoinReturned
  <1>7. LeaveFollowsJoin'
    BY DEF EndsInv, LeaveFollowsJoin, JoinsStand, Failing, JoinReturned
  <1> QED BY <1>1, <1>2, <1>3, <1>4, <1>5, <1>6, <1>7 DEF EndsInv

\* A join completes.
LEMMA EndsCompleted == ASSUME OrdinaryRoom, SeatInv, Greeted, EndsInv,
           \E c \in Client : CompleteJoin(c)
    PROVE  EndsInv'
  <1> USE DEF SeatInv, TypeOK, RoomType, SeatType, JoinType, TokenType, HookType, DisposeType,
              hookVars, tokenVars, joinVars, disposeVars, Status, Live, Step
  <1>1. Beginning'
    BY DEF EndsInv, Beginning, CompleteJoin, Activated, IssueToken
  <1>2. Failing'
    BY DEF EndsInv, Failing, CompleteJoin, Activated, IssueToken
  <1>3. JoinsStand'
    BY DEF EndsInv, JoinsStand, CompleteJoin, Activated, IssueToken
  <1>4. Closing'
    BY DEF EndsInv, Closing, IsEmpty, Held, CompleteJoin, Activated, IssueToken
  <1>5. TokensSeated'
    BY DEF EndsInv, TokensSeated, JoinsStand, Failing, CompleteJoin, Activated, IssueToken
  <1>6. EmptyAtOnce'
    BY DEF EndsInv, EmptyAtOnce, IsEmpty, Held, CompleteJoin, Activated, IssueToken
  <1>7. LeaveFollowsJoin'
    BY DEF EndsInv, LeaveFollowsJoin, CompleteJoin, Activated, IssueToken
  <1> QED BY <1>1, <1>2, <1>3, <1>4, <1>5, <1>6, <1>7 DEF EndsInv

\* A join completes over a closed connection.
LEMMA EndsCompletedClosed == ASSUME OrdinaryRoom, SeatInv, Greeted, EndsInv,
           \E c \in Client : CompleteJoinClosed(c)
    PROVE  EndsInv'
  <1> USE DEF SeatInv, TypeOK, RoomType, SeatType, JoinType, TokenType, HookType, DisposeType,
              hookVars, tokenVars, joinVars, disposeVars, Status, Live, Step
  <1>1. Beginning'
    BY DEF EndsInv, Beginning, CompleteJoinClosed
  <1>2. Failing'
    BY DEF EndsInv, Failing, CompleteJoinClosed
  <1>3. JoinsStand'
    BY DEF EndsInv, JoinsStand, CompleteJoinClosed
  <1>4. Closing'
    BY DEF EndsInv, Closing, IsEmpty, Held, CompleteJoinClosed
  <1>5. TokensSeated'
    BY DEF EndsInv, TokensSeated, CompleteJoinClosed
  <1>6. EmptyAtOnce'
    BY DEF EndsInv, EmptyAtOnce, Beginning, IsEmpty, Held, CompleteJoinClosed
  <1>7. LeaveFollowsJoin'
    BY DEF EndsInv, LeaveFollowsJoin, JoinsStand, Failing, OnLeaveAtMostOnce, CompleteJoinClosed
  <1> QED BY <1>1, <1>2, <1>3, <1>4, <1>5, <1>6, <1>7 DEF EndsInv

\* A seat is resumed.
LEMMA EndsReconnected == ASSUME OrdinaryRoom, SeatInv, Greeted, EndsInv,
           \E c \in Client, k \in Conn, t \in Nat : Reconnect(c, k, t)
    PROVE  EndsInv'
  <1> USE DEF SeatInv, TypeOK, RoomType, SeatType, JoinType, TokenType, HookType, DisposeType,
              hookVars, tokenVars, joinVars, disposeVars, Status, Live, Step
  <1>1. Beginning'
    BY DEF EndsInv, Beginning, Reconnect
  <1>2. Failing'
    BY DEF EndsInv, Failing, Reconnect
  <1>3. JoinsStand'
    BY DEF EndsInv, JoinsStand, Lifecycle, Reconnect
  <1>4. Closing'
    BY DEF EndsInv, Closing, IsEmpty, Held, Reconnect
  <1>5. TokensSeated'
    BY DEF EndsInv, TokensSeated, Reconnect
  <1>6. EmptyAtOnce'
    BY DEF EndsInv, EmptyAtOnce, IsEmpty, Held, Reconnect
  <1>7. LeaveFollowsJoin'
    BY DEF EndsInv, LeaveFollowsJoin, Reconnect
  <1> QED BY <1>1, <1>2, <1>3, <1>4, <1>5, <1>6, <1>7 DEF EndsInv

\* A reconnection completes.
LEMMA EndsResumed == ASSUME OrdinaryRoom, SeatInv, Greeted, EndsInv,
           \E c \in Client : CompleteReconnect(c)
    PROVE  EndsInv'
  <1> USE DEF SeatInv, TypeOK, RoomType, SeatType, JoinType, TokenType, HookType, DisposeType,
              hookVars, tokenVars, joinVars, disposeVars, Status, Live, Step
  <1>1. Beginning'
    BY DEF EndsInv, Beginning, CompleteReconnect, IssueToken, ReleaseAll
  <1>2. Failing'
    BY DEF EndsInv, Failing, CompleteReconnect, IssueToken, ReleaseAll
  <1>3. JoinsStand'
    BY DEF EndsInv, JoinsStand, CompleteReconnect, IssueToken, ReleaseAll
  <1>4. Closing'
    BY DEF EndsInv, Closing, IsEmpty, Held, CompleteReconnect, IssueToken, ReleaseAll
  <1>5. TokensSeated'
    BY DEF EndsInv, TokensSeated, JoinsStand, CompleteReconnect, IssueToken, ReleaseAll
  <1>6. EmptyAtOnce'
    BY DEF EndsInv, EmptyAtOnce, IsEmpty, Held, CompleteReconnect, IssueToken, ReleaseAll
  <1>7. LeaveFollowsJoin'
    BY DEF EndsInv, LeaveFollowsJoin, JoinsStand, OnLeaveAtMostOnce, CompleteReconnect, ReleaseAll
  <1> QED BY <1>1, <1>2, <1>3, <1>4, <1>5, <1>6, <1>7 DEF EndsInv

\* A seat is released.
LEMMA EndsFreed == ASSUME OrdinaryRoom, SeatInv, Greeted, EndsInv,
           \E c \in Client : HoldExpires(c) \/ ClientLeaves(c)
    PROVE  EndsInv'
  <1> USE DEF SeatInv, TypeOK, RoomType, SeatType, JoinType, TokenType, HookType, DisposeType,
              hookVars, tokenVars, joinVars, disposeVars, Status, Live, Step
  <1>a. PICK c \in Client :
           /\ status[c] \in {"joined", "reconnecting"} /\ EventLoop
           /\ ReleaseAll({c}, TRUE) \/ ReleaseAll({c}, FALSE)
           /\ UNCHANGED <<phase, disposeVars, rsv, joinVars>>
    BY DEF HoldExpires, ClientLeaves, HoldHasTimer
  <1>b. /\ status' = [status EXCEPT ![c] = "left"] /\ token' = [token EXCEPT ![c] = 0]
        /\ leaving' = leaving \cup {c} /\ leaves' = [leaves EXCEPT ![c] = @ + 1]
        /\ UNCHANGED <<entered, phase, disposing, dmain, dnest, disposals, rsv, pc, by>>
    BY <1>a DEF ReleaseAll
  <1>1. Beginning'
    BY <1>a, <1>b DEF EndsInv, Beginning
  <1>2. Failing'
    BY <1>a, <1>b DEF EndsInv, Failing
  <1>3. JoinsStand'
    BY <1>a, <1>b DEF EndsInv, JoinsStand, EventLoop
  <1>4. Closing'
    BY <1>a, <1>b DEF EndsInv, Closing, IsEmpty
  <1>5. TokensSeated'
    BY <1>a, <1>b DEF EndsInv, TokensSeated
  <1>6. EmptyAtOnce'
    BY <1>a, <1>b DEF EndsInv, EmptyAtOnce
  <1>7. LeaveFollowsJoin'
    BY <1>a, <1>b DEF EndsInv, LeaveFollowsJoin, OnLeaveAtMostOnce
  <1> QED BY <1>1, <1>2, <1>3, <1>4, <1>5, <1>6, <1>7 DEF EndsInv

\* A connection is lost.
LEMMA EndsDisconnected == ASSUME OrdinaryRoom, SeatInv, Greeted, EndsInv,
           \E k \in Conn : Disconnect(k)
    PROVE  EndsInv'
  <1> USE DEF SeatInv, TypeOK, RoomType, SeatType, JoinType, TokenType, HookType, DisposeType,
              hookVars, tokenVars, joinVars, disposeVars, Status, Live, Step
  <1>1. Beginning'
    BY DEF EndsInv, Beginning, Disconnect
  <1>2. Failing'
    BY DEF EndsInv, Failing, Disconnect
  <1>3. JoinsStand'
    BY DEF EndsInv, JoinsStand, EventLoop, Disconnect
  <1>4. Closing'
    BY DEF EndsInv, Closing, IsEmpty, Held, Disconnect
  <1>5. TokensSeated'
    BY DEF EndsInv, TokensSeated, Disconnect
  <1>6. EmptyAtOnce'
    BY DEF EndsInv, EmptyAtOnce, IsEmpty, Held, Disconnect
  <1>7. LeaveFollowsJoin'
    BY SMTT(30) DEF EndsInv, LeaveFollowsJoin, OnLeaveAtMostOnce, Disconnect
  <1> QED BY <1>1, <1>2, <1>3, <1>4, <1>5, <1>6, <1>7 DEF EndsInv

\* onLeave returned.
LEMMA EndsLeft == ASSUME OrdinaryRoom, SeatInv, Greeted, EndsInv,
           \E c \in Client : LeaveReturned(c)
    PROVE  EndsInv'
  <1> USE DEF SeatInv, TypeOK, RoomType, SeatType, JoinType, TokenType, HookType, DisposeType,
              hookVars, tokenVars, joinVars, disposeVars, Status, Live, Step
  <1>1. Beginning'
    BY DEF EndsInv, Beginning, LeaveReturned, CheckEmpty
  <1>2. Failing'
    BY DEF EndsInv, Failing, LeaveReturned, CheckEmpty
  <1>3. JoinsStand'
    BY DEF EndsInv, JoinsStand, LeaveReturned, CheckEmpty
  <1>4. Closing'
    BY DEF EndsInv, Closing, IsEmpty, Held, LeaveReturned, CheckEmpty
  <1>5. TokensSeated'
    BY DEF EndsInv, TokensSeated, LeaveReturned, CheckEmpty
  <1>6. EmptyAtOnce'
    BY DEF EndsInv, EmptyAtOnce, IsEmpty, Held, LeaveReturned, CheckEmpty
  <1>7. LeaveFollowsJoin'
    BY DEF EndsInv, LeaveFollowsJoin, LeaveReturned, CheckEmpty
  <1> QED BY <1>1, <1>2, <1>3, <1>4, <1>5, <1>6, <1>7 DEF EndsInv

\* Every step of such a room keeps the parts together.
LEMMA EndsNext == ASSUME OrdinaryRoom, SeatInv, Greeted, EndsInv, Next PROVE EndsInv'
  <1>1. ASSUME NEW c \in Client, Progress(c) PROVE EndsInv'
    BY <1>1, EndsJoining, EndsReturned, EndsCompleted, EndsCompletedClosed, EndsResumed, EndsFreed,
       EndsReserved, EndsLeft, EndsDisposed DEF Progress
  <1>2. ASSUME NEW c \in Client, NEW k \in Conn, NEW p \in tokens, Reconnect(c, k, p[2])
        PROVE  EndsInv'
    <2>1. p[2] \in Nat
      BY DEF SeatInv, TypeOK, TokenType
    <2> QED BY <1>2, <2>1, EndsReconnected
  <1>3. ASSUME NEW c \in Client, Environment(c) PROVE EndsInv'
    <2>1. ~BotJoin(c) /\ ~Kick(c) /\ \A k \in Conn : ~JoinExisting(c, k)
      BY DEF OrdinaryRoom, BotJoin, Kick, JoinExisting
    <2> QED BY <1>2, <1>3, <2>1, EndsReserved, EndsFreed, EndsCreator, EndsConsumed DEF Environment
  <1>4. ~Dispose /\ ~Stop
    BY DEF OrdinaryRoom, Dispose, Stop
  <1> QED BY <1>1, <1>3, <1>4, EndsQuiet, EndsCreated, EndsCreateFailed, EndsDisposed,
             EndsDisconnected DEF Next, RoomProgress

\* A LEAVE is the last frame of its log, and its seat is gone.
LeftLast ==
    \A c \in Client : \A i \in 1..Len(wire[c]) :
        wire[c][i] = "leave" => i = Len(wire[c]) /\ status[c] = "left"

\* A frame put after a log without a LEAVE is a LEAVE only at the end.
LEMMA LogLeave ==
    ASSUME NEW w \in Seq(Frame), NEW f \in Frame, \A i \in 1..Len(w) : w[i] # "leave"
    PROVE  \A i \in 1..Len(Log(w, f)) : Log(w, f)[i] = "leave" => f = "leave" /\ i = Len(Log(w, f))
  BY DEF Log

\* Every step keeps LEAVE last: what is sent to a client is sent while it is seated.
LEMMA LeftLastNext == ASSUME SeatInv, EndsInv, LeftLast, Next PROVE LeftLast'
  <1> SUFFICES ASSUME NEW d \in Client, NEW i \in 1..Len(wire'[d]), wire'[d][i] = "leave"
               PROVE  i = Len(wire'[d]) /\ status'[d] = "left"
    BY DEF LeftLast
  <1>1. TypeOK /\ HoldHasTimer /\ "frame" \in Frame /\ "success" \in Frame /\ "leave" \in Frame
        /\ wire[d] \in Seq(Frame) /\ status \in [Client -> Status]
    BY DEF SeatInv, TypeOK, FrameType, SeatType, Frame
  <1>2. status[d] # "left" => \A j \in 1..Len(wire[d]) : wire[d][j] # "leave"
    BY DEF LeftLast
  <1>3. CASE wire'[d] = wire[d]
    <2>1. i = Len(wire'[d]) /\ status[d] = "left"
      BY <1>3 DEF LeftLast
    <2>2. status'[d] = "left"
      <3>1. d \notin timers
        BY <1>1, <2>1 DEF HoldHasTimer
      <3>2. CASE UNCHANGED seatVars
        BY <2>1, <3>2 DEF seatVars
      <3>3. ASSUME NEW c \in Client, SeatStep(c) PROVE status'[d] = "left"
        <4>1. CASE \E k \in Conn \cup {NoConn}, kind \in Kinds : Takes(c, k, kind)
          BY <1>1, <2>1, <4>1 DEF Takes, Seat
        <4>2. CASE CompleteJoin(c) \/ CompleteJoinClosed(c)
          BY <1>1, <2>1, <4>2 DEF CompleteJoin, CompleteJoinClosed, Activated
        <4>3. CASE CompleteReconnect(c)
          BY <1>1, <2>1, <4>3 DEF CompleteReconnect, ReleaseAll
        <4>4. CASE \E k \in Conn, t \in Nat : Reconnect(c, k, t)
          BY <1>1, <2>1, <4>4 DEF Reconnect
        <4> QED BY <1>1, <2>1, <3>1, <3>3, <4>1, <4>2, <4>3, <4>4
                DEF SeatStep, Advances, Undoes, Frees, Drops, JoinReturned
      <3>4. ASSUME NEW k \in Conn, Disconnect(k) PROVE status'[d] = "left"
        BY <1>1, <2>1, <3>4 DEF Disconnect
      <3> QED BY <1>1, <3>2, <3>3, <3>4, SeatEffect
    <2> QED BY <2>1, <2>2
  <1>4. CASE status[d] = "joined" /\ wire'[d] = Log(wire[d], "frame")
    BY <1>1, <1>2, <1>4, LogLeave
  <1>5. CASE /\ status[d] \in {"joined", "reconnecting"} /\ status'[d] = "left"
             /\ wire'[d] = Log(wire[d], "leave")
    BY <1>1, <1>2, <1>5, LogLeave
  <1>6. CASE wire'[d] \in {<<>>, <<"frame">>}
    BY <1>6
  <1>7. CASE CompleteJoin(d)
    <2>1. status[d] = "joining"
      BY <1>7 DEF CompleteJoin, EndsInv, JoinsStand, Failing
    <2>2. by[d] # "server"
      BY <1>7 DEF CompleteJoin, EndsInv, JoinsStand
    <2> DEFINE mine == Log(wire[d], "success")
    <2>3. wire'[d] = mine \/ wire'[d] = Log(mine, "frame")
      BY <1>1, <1>7, <2>2 DEF CompleteJoin, TypeOK, FrameType
    <2>4. mine \in Seq(Frame) /\ \A j \in 1..Len(mine) : mine[j] # "leave"
      BY <1>1, <1>2, <2>1, LogLeave, LogType, ZenonT(30)
    <2> HIDE DEF mine
    <2> QED BY <1>1, <2>3, <2>4, LogLeave
  <1>8. CASE CompleteReconnect(d)
    <2>1. status[d] = "joined"
      BY <1>8 DEF CompleteReconnect, EndsInv, JoinsStand
    <2>2. wire'[d] = wire[d] \/ wire'[d] = Log(wire[d], "success")
      BY <1>1, <1>8 DEF CompleteReconnect, ReleaseAll, frameVars, TypeOK, FrameType
    <2>3. CASE wire'[d] = Log(wire[d], "success")
      BY <1>1, <1>2, <2>1, <2>3, LogLeave
    <2> QED BY <1>3, <2>2, <2>3
  <1> QED BY <1>1, <1>3, <1>4, <1>5, <1>6, <1>7, <1>8, WireEffect

\* In a room that its creator and reservations keep and that removes nobody, what
\* begins ends in order: onLeave after onJoin, LEAVE as the last frame, no token
\* without a seat, one onDispose, no empty room that stays (room.ts _release,
\* _revokeToken, _checkEmpty, _dispose).
THEOREM RoomsEndInOrder == ASSUME OrdinaryRoom PROVE Spec => []RoomEnds
  <1>1. Init => Greeted /\ EndsInv /\ LeftLast
    <2> SUFFICES ASSUME Init PROVE Greeted /\ EndsInv /\ LeftLast
      OBVIOUS
    <2>1. Greeted
      BY DEF Init, Greeted, Greeting
    <2>2. EndsInv
      BY DEF Init, EndsInv, Beginning, Failing, JoinsStand, Closing, TokensSeated, EmptyAtOnce,
             LeaveFollowsJoin
    <2>3. LeftLast
      BY DEF Init, LeftLast
    <2> QED BY <2>1, <2>2, <2>3
  <1>2. SeatInv /\ Greeted /\ EndsInv /\ LeftLast /\ [Next]_vars => Greeted' /\ EndsInv' /\ LeftLast'
    <2>1. ASSUME SeatInv, Greeted, EndsInv, LeftLast, Next PROVE Greeted' /\ EndsInv' /\ LeftLast'
      BY <2>1, GreetedNext, EndsNext, LeftLastNext
    <2>2. ASSUME Greeted, UNCHANGED vars PROVE Greeted'
      BY <2>2 DEF vars, joinVars, tokenVars, frameVars, Greeted, Greeting
    <2>3. ASSUME EndsInv, UNCHANGED vars PROVE EndsInv'
      BY <2>3 DEF vars, disposeVars, joinVars, tokenVars, hookVars, EndsInv, Beginning, Failing,
                  JoinsStand, Closing, TokensSeated, EmptyAtOnce, LeaveFollowsJoin, IsEmpty, Held
    <2>4. ASSUME LeftLast, UNCHANGED vars PROVE LeftLast'
      BY <2>4 DEF vars, frameVars, LeftLast
    <2> QED BY <2>1, <2>2, <2>3, <2>4
  <1>3. SeatInv /\ EndsInv /\ LeftLast => RoomEnds
    <2> SUFFICES ASSUME SeatInv, EndsInv, LeftLast PROVE RoomEnds
      OBVIOUS
    <2>1. LeaveFollowsJoin /\ LeaveIsLast
      BY DEF EndsInv, LeftLast, LeaveIsLast
    <2>2. TokenNamesASeat
      BY DEF SeatInv, TokensCurrent, EndsInv, TokensSeated, TokenNamesASeat, Seated, Live
    <2>3. DisposeOnce
      BY DEF EndsInv, Closing, DisposeOnce
    <2>4. EmptyRoomCloses
      BY DEF EndsInv, EmptyAtOnce, EmptyRoomCloses, Settled, SeatInv, TypeOK, HookType, SeatType
    <2> QED BY <2>1, <2>2, <2>3, <2>4 DEF RoomEnds
  <1> QED BY <1>1, <1>2, <1>3, SeatInvariant, PTL DEF Spec

-----------------------------------------------------------------------------
(* Capacity.                                                               *)

\* How a step changes the set of held reservations.
LEMMA HeldEffect == ASSUME TypeOK, Next
                    PROVE  Held(rsv') \subseteq Held(rsv) \/ \E c \in Client : Reserve(c)
  <1> USE DEF Held, TypeOK, SeatType
  <1>1. ASSUME NEW c \in Client, NEW k \in Conn,
               \/ ReservationExpires(c) \/ ReservationOver(c) \/ ConsumeForNothing(c)
               \/ ConsumeReservation(c, k)
        PROVE  Held(rsv') \subseteq Held(rsv)
    BY <1>1 DEF ReservationExpires, ReservationOver, ConsumeForNothing, ConsumeReservation
  <1>2. ASSUME NEW c \in Client, ReservationExpires(c) \/ ReservationOver(c) \/ ConsumeForNothing(c)
        PROVE  Held(rsv') \subseteq Held(rsv)
    BY <1>2 DEF ReservationExpires, ReservationOver, ConsumeForNothing
  <1>3. ASSUME DisposeBegin \/ DisposeReleased PROVE Held(rsv') \subseteq Held(rsv)
    BY <1>3 DEF DisposeBegin, DisposeReleased
  <1>4. ASSUME NEW c \in Client, Progress(c) \/ Environment(c)
        PROVE  Held(rsv') \subseteq Held(rsv) \/ Reserve(c)
    BY <1>1, <1>2, <1>4 DEF Progress, Environment, RoomReady, AuthRefused, AuthPassed, JoinThrew,
          JoinReturned, CompleteJoin, CompleteJoinClosed, CompleteReconnect, HoldExpires,
          LeaveReturned, DisposeNext, BotJoin, ClientLeaves, Kick, CreateAndJoin, JoinExisting,
          Reconnect
  <1> QED BY <1>3, <1>4 DEF Next, RoomProgress, RoomCreated, RoomCreateFailed, DisposeReturned,
          Open, Shed, Disconnect, CreateRoom, Dispose, Stop, ToggleLock, Broadcast

\* How a step changes the set of seats.
LEMMA SeatedEffect == ASSUME TypeOK, HoldHasTimer, Next
                      PROVE  \/ Seated' \subseteq Seated
                             \/ \E c \in Client : /\ status[c] = "new" /\ Entitled(c)
                                                  /\ Seated' = Seated \cup {c}
  <1> USE DEF Seated, Live, TypeOK, SeatType
  <1>1. CASE UNCHANGED seatVars
    BY <1>1 DEF seatVars
  <1>2. ASSUME NEW c \in Client, NEW k \in Conn \cup {NoConn}, NEW kind \in Kinds,
               Takes(c, k, kind)
        PROVE  status[c] = "new" /\ Entitled(c) /\ Seated' = Seated \cup {c}
    BY <1>2 DEF Takes, Seat
  <1>3. ASSUME NEW c \in Client, Advances(c) \/ Undoes(c) \/ Drops(c) \/ Frees(c)
        PROVE  Seated' \subseteq Seated
    BY <1>3 DEF Advances, Undoes, Drops, Frees
  <1>4. ASSUME NEW c \in Client, JoinReturned(c) \/ CompleteJoin(c) \/ CompleteJoinClosed(c)
        PROVE  Seated' \subseteq Seated
    BY <1>4 DEF JoinReturned, CompleteJoin, Activated, CompleteJoinClosed
  <1>5. ASSUME NEW c \in Client, CompleteReconnect(c) PROVE Seated' \subseteq Seated
    BY <1>5 DEF CompleteReconnect, ReleaseAll
  <1>6. ASSUME NEW c \in Client, NEW k \in Conn, NEW t \in Nat, Reconnect(c, k, t)
        PROVE  Seated' \subseteq Seated
    BY <1>6 DEF Reconnect
  <1>7. ASSUME NEW k \in Conn, Disconnect(k) PROVE Seated' \subseteq Seated
    BY <1>7 DEF Disconnect
  <1> QED BY SeatEffect, <1>1, <1>2, <1>3, <1>4, <1>5, <1>6, <1>7 DEF SeatStep

\* A step never takes a seat beyond the capacity, unless a reservation is
\* consumed at the instant it expires.
LEMMA SeatCapacityNext ==
    ASSUME IsFiniteSet(Client), "late" \notin Fails, SeatInv, SeatCapacity, Next
    PROVE  SeatCapacity'
  <1>1. /\ IsFiniteSet(Seated) /\ IsFiniteSet(Held(rsv))
        /\ IsFiniteSet(Seated') /\ IsFiniteSet(Held(rsv'))
    BY FS_Subset DEF Seated, Held
  <1>2. /\ Cardinality(Seated) \in Nat /\ Cardinality(Held(rsv)) \in Nat
        /\ Cardinality(Seated') \in Nat /\ Cardinality(Held(rsv')) \in Nat
    BY <1>1, FS_CardinalityType
  <1> USE DEF SeatCapacity, SeatCount
  <1>3. CASE Seated' \subseteq Seated /\ Held(rsv') \subseteq Held(rsv)
    <2>1. /\ Cardinality(Seated') <= Cardinality(Seated)
          /\ Cardinality(Held(rsv')) <= Cardinality(Held(rsv))
      BY <1>1, <1>3, FS_Subset
    <2> QED BY <1>2, <2>1, RoomSeatsAssumption
  <1>4. ASSUME NEW c \in Client, Reserve(c) PROVE SeatCapacity'
    <2>1. Seated' = Seated
      BY <1>4 DEF Reserve, Seated
    <2>2. Held(rsv') = Held(rsv) \cup {c} /\ c \notin Held(rsv)
      BY <1>4 DEF Reserve, Held, SeatInv, TypeOK, SeatType
    <2>3. Cardinality(Held(rsv')) = Cardinality(Held(rsv)) + 1
      BY <1>1, <2>2, FS_AddElement
    <2>4. SeatCount < MaxClients
      BY <1>4 DEF Reserve, AcceptsNewSeat
    <2> QED BY <1>2, <2>1, <2>3, <2>4, RoomSeatsAssumption
  <1>5. ASSUME NEW c \in Client, status[c] = "new", Entitled(c), Seated' = Seated \cup {c}
        PROVE  SeatCapacity'
    <2>1. Cardinality(Seated') = Cardinality(Seated) + 1
      BY <1>1, <1>5, FS_AddElement DEF Seated, Live
    <2>2. CASE phase = "none" /\ UNCHANGED rsv
      <3>1. Seated = {} /\ Held(rsv) = {}
        BY <2>2 DEF SeatInv, NoRoomYet, Seated, Held, Live
      <3> QED BY <2>1, <2>2, <3>1, FS_EmptySet, RoomSeatsAssumption
    <2>3. CASE AcceptsNewSeat /\ UNCHANGED rsv
      BY <1>2, <2>1, <2>3, RoomSeatsAssumption DEF AcceptsNewSeat
    <2>4. CASE rsv[c] = "held" /\ rsv' = [rsv EXCEPT ![c] = "over"]
      <3>1. Held(rsv') = Held(rsv) \ {c} /\ c \in Held(rsv)
        BY <2>4 DEF Held, SeatInv, TypeOK, SeatType
      <3>2. Cardinality(Held(rsv')) = Cardinality(Held(rsv)) - 1
        BY <1>1, <3>1, FS_RemoveElement
      <3> QED BY <1>2, <2>1, <3>2, RoomSeatsAssumption
    <2> QED BY <1>5, <2>2, <2>3, <2>4 DEF Entitled
  <1> QED BY <1>3, <1>4, <1>5, HeldEffect, SeatedEffect DEF SeatInv

\* Seats and reservations never exceed maxClients, for any number of clients:
\* the promise of `_seat` and `_hold`.  The one exception is a reservation
\* consumed in the very instant it expires, which `late` stands for.
THEOREM CapacityHolds ==
    ASSUME IsFiniteSet(Client), "late" \notin Fails
    PROVE  Spec => []SeatCapacity
  <1>1. Init => SeatCapacity
    <2> SUFFICES ASSUME Init PROVE SeatCapacity
      OBVIOUS
    <2>1. Seated = {} /\ Held(rsv) = {}
      BY DEF Init, Seated, Held, Live
    <2> QED BY <2>1, FS_EmptySet, RoomSeatsAssumption DEF SeatCapacity, SeatCount
  <1>2. SeatInv /\ SeatCapacity /\ [Next]_vars => SeatCapacity'
    <2>1. ASSUME SeatInv, SeatCapacity, Next PROVE SeatCapacity'
      BY <2>1, SeatCapacityNext
    <2>2. ASSUME SeatCapacity, UNCHANGED vars PROVE SeatCapacity'
      BY <2>2 DEF vars, SeatCapacity, SeatCount, Seated, Held
    <2> QED BY <2>1, <2>2
  <1> QED BY <1>1, <1>2, SeatInvariant, PTL DEF Spec

=============================================================================
