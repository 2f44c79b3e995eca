------------------------------ MODULE MCClients ------------------------------
\* The client SDK in TypeScript, the one in C# and the threads of the latter's socket, each
\* checked on its own in one run: `part` says which of them moves.
EXTENDS ClientSdk

CONSTANTS r1, r2,
          PolledRoom, MaxPolledOpens,
          MaxSends, MaxReceives

VARIABLES part,
          cl, polledSock, polledLink, polledUp, polledDown, polledSeat,
          main, run, sender, closer, isOpen, cancelled, outbox, sem, inHand, disposed,
          ws, wire, inbound, calls, told

Polled == INSTANCE PolledClient WITH
              Room <- PolledRoom, MaxOpens <- MaxPolledOpens,
              sock <- polledSock, link <- polledLink, up <- polledUp, down <- polledDown,
              seat <- polledSeat
Socket == INSTANCE SocketThreads

polled == <<cl, polledSock, polledLink, polledUp, polledDown, polledSeat>>
socket == <<main, run, sender, closer, isOpen, cancelled, outbox, sem, inHand, disposed,
            ws, wire, inbound, calls, told>>

ClientsInit ==
    /\ part \in {"js", "polled", "socket"}
    /\ Init /\ Polled!PolledInit /\ Socket!SocketInit

ClientsNext ==
    \/ part = "js" /\ Next /\ UNCHANGED <<part, polled, socket>>
    \/ part = "polled" /\ Polled!PolledNext /\ UNCHANGED <<part, vars, socket>>
    \/ part = "socket" /\ Socket!SocketNext /\ UNCHANGED <<part, vars, polled>>

ClientsSpec == ClientsInit /\ [][ClientsNext]_<<part, vars, polled, socket>>

\* The rooms, seats, tokens and sockets of a client match, and it holds no seat that no
\* room of it uses (client.ts _lost, _opened, _joinSuccess and _settle, BungohanClient.cs
\* Lost, Opened, JoinSuccess and Settle).
ClientsMatch ==
    /\ TypeOK /\ RoomsMatch /\ NoStraySeat
    /\ Polled!PolledMatch /\ Polled!NoPolledStray

\* Threads that share a socket lose no frame and no wake-up, the sender uses nothing that was
\* disposed of, a Close that comes too late for its cancellation leaves nothing running, and
\* the close is reported, once and last (WebSocketClientTransport.cs).
SocketSound == part = "socket" => Socket!SocketSound
=============================================================================
