--------------------------- MODULE SocketThreads ---------------------------
(***************************************************************************)
(* One connection of the C# client's default transport                     *)
(* (WebSocketClientTransport.cs), with the four threads that share it: the *)
(* game's, which calls Send and Close; RunAsync, which connects, receives  *)
(* and tears down; SendLoopAsync; and the task that Close starts.  A step  *)
(* is what one of them does between two points where another can get in.   *)
(* ClientWebSocket, the network and the server are external.               *)
(***************************************************************************)
EXTENDS Naturals, Sequences

CONSTANTS
    MaxSends,        \* calls of Send
    MaxReceives      \* messages of the server

VARIABLES
    main,       \* where the game's thread is in Send
    run,        \* where RunAsync is
    sender,     \* where SendLoopAsync is, or "none" before it is started
    closer,     \* where the task of Close is, or "none"; "threw" when it ended with an exception
    isOpen,     \* _open
    cancelled,  \* _cancel
    outbox,     \* _outbox: frames, numbered as they were enqueued
    sem,        \* permits of _pending
    inHand,     \* the frame SendLoopAsync took out, or 0
    disposed,   \* the socket, _pending and _cancel are disposed of
    ws,         \* State of the ClientWebSocket
    wire,       \* frames that were sent
    inbound,    \* messages of the server that were not received, "close" being its close frame
    calls,      \* [sends: calls of Send, served: messages the server sent]
    told        \* the handlers' calls: [open, messages, close, late]

threads == <<main, run, sender, closer>>
fields == <<isOpen, cancelled, outbox, sem, inHand, disposed>>
network == <<ws, wire, inbound, calls>>

SocketInit ==
    /\ main = "idle" /\ run = "connect" /\ sender = "none" /\ closer = "none"
    /\ isOpen = FALSE /\ cancelled = FALSE /\ outbox = <<>> /\ sem = 0 /\ inHand = 0
    /\ disposed = FALSE
    /\ ws = "connecting" /\ wire = <<>> /\ inbound = <<>>
    /\ calls = [sends |-> 0, served |-> 0]
    /\ told = [open |-> 0, messages |-> 0, close |-> 0, late |-> FALSE]

----------------------------------------------------------------------------
(* The game's thread. *)

\* Send lets the sender go before the frame is in the queue.
Send_ReleasesFirst ==
    /\ \/ /\ main = "idle" /\ isOpen /\ calls.sends < MaxSends
          /\ main' = "release"
          /\ UNCHANGED <<outbox, sem, calls>>
       \/ /\ main = "release"
          /\ main' = "enqueue"
          /\ sem' = IF disposed THEN sem ELSE sem + 1
          /\ UNCHANGED <<outbox, calls>>
       \/ /\ main = "enqueue"
          /\ outbox' = Append(outbox, calls.sends + 1)
          /\ calls' = [calls EXCEPT !.sends = @ + 1]
          /\ main' = "idle"
          /\ UNCHANGED sem
    /\ UNCHANGED <<run, sender, closer, isOpen, cancelled, inHand, disposed, ws, wire, inbound, told>>

\* Send: looks at _open, enqueues, releases.  A semaphore that was disposed of
\* meanwhile throws, and Send is false.
Send ==
    /\ \/ /\ main = "idle" /\ isOpen /\ calls.sends < MaxSends
          /\ main' = "enqueue"
          /\ UNCHANGED <<outbox, sem, calls>>
       \/ /\ main = "enqueue"
          /\ outbox' = Append(outbox, calls.sends + 1)
          /\ calls' = [calls EXCEPT !.sends = @ + 1]
          /\ main' = "release"
          /\ UNCHANGED sem
       \/ /\ main = "release"
          /\ main' = "idle"
          /\ sem' = IF disposed THEN sem ELSE sem + 1
          /\ UNCHANGED <<outbox, calls>>
    /\ UNCHANGED <<run, sender, closer, isOpen, cancelled, inHand, disposed, ws, wire, inbound, told>>

\* Close: once.
Close ==
    /\ main = "idle" /\ closer = "none"
    /\ isOpen' = FALSE /\ closer' = "check"
    /\ UNCHANGED <<main, run, sender, cancelled, outbox, sem, inHand, disposed, network, told>>

----------------------------------------------------------------------------
(* The task of Close. *)

\* It closes a socket that is open, waits for the server's close frame, or for the
\* socket to fail or be disposed of, and cancels.  RunAsync may have disposed of _cancel by then: Cancel,
\* outside the try, throws in a task that nobody awaits.
CloseTask ==
    /\ \/ /\ closer = "check"
          /\ closer' = IF ws = "open" THEN "closing" ELSE "cancel"
          /\ ws' = IF ws = "open" THEN "closeSent" ELSE ws
          /\ UNCHANGED cancelled
       \/ /\ closer = "closing" /\ ws \in {"closed", "aborted"}
          /\ closer' = "cancel"
          /\ UNCHANGED <<ws, cancelled>>
       \/ /\ closer = "cancel"
          /\ closer' = IF disposed THEN "threw" ELSE "done"
          /\ cancelled' = (cancelled \/ ~disposed)
          /\ UNCHANGED ws
    /\ UNCHANGED <<main, run, sender, isOpen, outbox, sem, inHand, disposed, wire, inbound, calls,
                   told>>

----------------------------------------------------------------------------
(* RunAsync. *)

\* A call of a handler.
Tells(what) == told' = [told EXCEPT ![what] = @ + 1, !.late = @ \/ told.close > 0]

\* ConnectAsync returned: the connection is open, the sender starts.
Connected ==
    /\ run = "connect" /\ ws # "connecting"
    /\ IF ws = "aborted" THEN /\ run' = "finally"
                              /\ UNCHANGED <<sender, isOpen, told>>
       ELSE /\ run' = "receive" /\ sender' = "check" /\ isOpen' = TRUE
            /\ Tells("open")
    /\ UNCHANGED <<main, closer, cancelled, outbox, sem, inHand, disposed, network>>

\* ConnectAsync was cancelled.
ConnectCancelled ==
    /\ run = "connect" /\ cancelled
    /\ run' = "finally" /\ ws' = "aborted"
    /\ UNCHANGED <<main, sender, closer, fields, wire, inbound, calls, told>>

\* A message arrives and is handed on, or is too large; the close frame ends the loop.
ReceiveOne ==
    /\ run = "receive" /\ inbound # <<>> /\ ws \in {"open", "closeSent"} /\ ~cancelled
    /\ inbound' = Tail(inbound)
    /\ \/ Head(inbound) = "message" /\ Tells("messages") /\ UNCHANGED <<run, ws>>
       \/ Head(inbound) = "message" /\ run' = "finally" /\ UNCHANGED <<told, ws>>
       \/ /\ Head(inbound) = "close"
          /\ run' = "finally"
          /\ ws' = IF ws = "closeSent" THEN "closed" ELSE "closeReceived"
          /\ UNCHANGED told
    /\ UNCHANGED <<main, sender, closer, fields, wire, calls>>

\* The loop sees the cancellation, or ReceiveAsync throws.
ReceiveEnds ==
    /\ run = "receive" /\ (cancelled \/ ws = "aborted")
    /\ run' = "finally"
    /\ ws' = IF cancelled /\ ws # "closed" THEN "aborted" ELSE ws
    /\ UNCHANGED <<main, sender, closer, fields, wire, inbound, calls, told>>

\* The finally block: cancels, wakes the sender and waits for it, disposes, and
\* reports the close.
TearDown ==
    /\ \/ /\ run = "finally"
          /\ run' = "release" /\ isOpen' = FALSE /\ cancelled' = TRUE
          /\ UNCHANGED <<sem, disposed, ws, told>>
       \/ /\ run = "release"
          /\ run' = "wait" /\ sem' = sem + 1
          /\ UNCHANGED <<isOpen, cancelled, disposed, ws, told>>
       \/ /\ run = "wait" /\ sender \in {"none", "done"}
          /\ run' = "close" /\ disposed' = TRUE
          /\ ws' = IF ws = "aborted" THEN ws ELSE "closed"
          /\ UNCHANGED <<isOpen, cancelled, sem, told>>
       \/ /\ run = "close"
          /\ run' = "done" /\ Tells("close")
          /\ UNCHANGED <<isOpen, cancelled, sem, disposed, ws>>
    /\ UNCHANGED <<main, sender, closer, outbox, inHand, wire, inbound, calls>>

----------------------------------------------------------------------------
(* SendLoopAsync. *)

\* The loop's condition, and the wait for a permit.
SenderWaits ==
    /\ \/ /\ sender = "check"
          /\ sender' = IF cancelled THEN "done" ELSE "wait"
          /\ UNCHANGED sem
       \/ sender = "wait" /\ sem > 0 /\ sender' = "drain" /\ sem' = sem - 1
       \/ sender = "wait" /\ cancelled /\ sender' = "done" /\ UNCHANGED sem
    /\ UNCHANGED <<main, run, closer, isOpen, cancelled, outbox, inHand, disposed, network, told>>

\* The inner loop: the next frame, unless the queue is empty or the socket not open.
SenderTakes ==
    /\ \/ /\ sender = "drain" /\ outbox = <<>>
          /\ sender' = "check"
          /\ UNCHANGED <<outbox, inHand>>
       \/ /\ sender = "drain" /\ outbox # <<>>
          /\ inHand' = Head(outbox) /\ outbox' = Tail(outbox)
          /\ sender' = "look"
       \/ /\ sender = "look"
          /\ sender' = IF ws = "open" THEN "sending" ELSE "done"
          /\ UNCHANGED <<outbox, inHand>>
    /\ UNCHANGED <<main, run, closer, isOpen, cancelled, sem, disposed, network, told>>

\* SendAsync returns, or throws: the socket failed, was closed or cancelled.
SenderSent ==
    /\ sender = "sending"
    /\ \/ /\ ws \in {"open", "closeReceived"}
          /\ wire' = Append(wire, inHand) /\ inHand' = 0 /\ sender' = "drain"
          /\ UNCHANGED ws
       \/ /\ cancelled \/ ws \in {"closeSent", "closed", "aborted"}
          /\ sender' = "done"
          /\ ws' = IF cancelled /\ ws = "open" THEN "aborted" ELSE ws
          /\ UNCHANGED <<wire, inHand>>
    /\ UNCHANGED <<main, run, closer, isOpen, cancelled, outbox, sem, disposed, inbound, calls, told>>

----------------------------------------------------------------------------
(* The network and the server. *)

\* The handshake ends one way or the other; later the connection may fail.
Network ==
    /\ \/ ws = "connecting" /\ ws' \in {"open", "aborted"} /\ UNCHANGED <<inbound, calls>>
       \/ /\ ws \in {"open", "closeSent", "closeReceived"}
          /\ ws' = "aborted" /\ UNCHANGED <<inbound, calls>>
       \/ /\ ws = "open" /\ calls.served < MaxReceives
          /\ inbound' = Append(inbound, "message") /\ calls' = [calls EXCEPT !.served = @ + 1]
          /\ UNCHANGED ws
       \/ /\ ws \in {"open", "closeSent"} /\ "close" \notin {inbound[i] : i \in DOMAIN inbound}
          /\ calls' = [calls EXCEPT !.served = MaxReceives]
          /\ inbound' = Append(inbound, "close")
          /\ UNCHANGED ws
    /\ UNCHANGED <<threads, fields, wire, told>>

\* What happens without the game's thread.
Background ==
    \/ CloseTask
    \/ Connected \/ ConnectCancelled \/ ReceiveOne \/ ReceiveEnds \/ TearDown
    \/ SenderWaits \/ SenderTakes \/ SenderSent
    \/ Network

SocketNext == Send \/ Close \/ Background

----------------------------------------------------------------------------
(* Properties. *)

\* The handlers hear of the opening first, of the close once and last
\* (IClientSocketHandlers).
ReportsInOrder ==
    /\ told.open <= 1 /\ told.close <= 1 /\ ~told.late
    /\ told.messages > 0 => told.open = 1

\* Frames leave in the order in which Send took them, and none is left out before one
\* that was sent.
FramesInOrder == \A i \in DOMAIN wire : wire[i] = i

\* No frame waits in the queue while the sender sleeps, unless Send is about to wake
\* it or the connection is being torn down (Send's order of Enqueue and Release).
NoLostWake == sender = "wait" /\ outbox # <<>> => sem > 0 \/ main = "release" \/ cancelled

\* The sender has ended before RunAsync disposes of what it uses.  The task of Close may
\* come too late and end with an exception, but never with the cancellation left undone:
\* RunAsync had cancelled.  And the threads wait for one another only until the close
\* was reported.
TornDown ==
    /\ disposed => sender \in {"none", "done"} /\ cancelled /\ ~isOpen
    /\ closer \in {"done", "threw"} => cancelled
    /\ closer = "threw" => run \in {"close", "done"}
    /\ ENABLED Background \/ told.close = 1

SocketSound == ReportsInOrder /\ FramesInOrder /\ NoLostWake /\ TornDown
=============================================================================
