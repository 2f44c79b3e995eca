\* Fair hooks, timers and continuations.
SPECIFICATION FairSpec
CONSTANTS
    c1 = c1
    c2 = c2
    c3 = c3
    k1 = k1
    k2 = k2
    NoConn = NoConn
    Client <- MCClient2
    Conn <- MCConn
    MaxClients = 2
    AutoDispose = TRUE
    AllowReconnection = TRUE
    MaxRequests = 1
    JoinKinds = {"create", "join"}
    Fails = {"join", "onCreate"}
    ServerActs = {"dispose"}
CHECK_DEADLOCK FALSE
PROPERTY SeatsResolve
