\* Three processes with one fault; one client room on a client that may reconnect twice;
\* a process with two rooms that is started up to twice; a state with two keys, one client
\* and two changes.
SPECIFICATION FairSpec
CONSTANTS
    p1 = p1
    p2 = p2
    p3 = p3
    NoProc = NoProc
    NoLease = NoLease
    Proc <- Processes
    Score <- Scores
    MaxClaims <- FirstAndLast
    MaxFaults = 1
    Room = {r1}
    MaxOpens = 3
    MaxAttempts = 2
    MaxFrames = 2
    UserActs = {"leave", "leaveAll", "disconnect", "quit"}
    Hall = {h1, h2}
    Clustered = TRUE
    DrainsOnSignal = TRUE
    MaxStarts = 2
    Client = {c1}
    Remote = {}
    Key = {k1, k2}
    k1 = k1
    k2 = k2
    a1 = a1
    a2 = a2
    b = b
    BadKey = {}
    Val <- Values
    Wire <- Decoded
    Fresh <- Replacement
    Absent = Absent
    None = None
    NoState = NoState
    Invalid = Invalid
    PauseAt = 1
    ResumeAt = 0
    MaxWrites = 2
CHECK_DEADLOCK FALSE
PROPERTY LockResolves
PROPERTY ClientResolves
PROPERTY LifecycleSound
PROPERTY CatchesUp
