\* Two rooms on one client in TypeScript that opens two connections; one room on one in C#
\* that opens three; a socket with three frames to send and two to receive.
SPECIFICATION ClientsSpec
CONSTANTS
    r1 = r1
    r2 = r2
    Room = {r1, r2}
    MaxOpens = 2
    MaxAttempts = 1
    MaxFrames = 2
    UserActs = {"leave", "leaveAll", "disconnect", "quit"}
    PolledRoom = {r1}
    MaxPolledOpens = 3
    MaxSends = 3
    MaxReceives = 2
CHECK_DEADLOCK FALSE
INVARIANT ClientsMatch
INVARIANT SocketSound
