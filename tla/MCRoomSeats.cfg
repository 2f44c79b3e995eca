\* Two clients, two connections, everything that can happen to a room but lock().
SPECIFICATION Spec
CONSTANTS
    c1 = c1
    c2 = c2
    c3 = c3
    k1 = k1
    k2 = k2
    NoConn = NoConn
    Client <- MCClient2
    Conn <- MCConn
    MaxClients = 2
    AutoDispose = TRUE
    AllowReconnection = TRUE
    MaxRequests = 2
    JoinKinds = {"create", "join", "reservation", "server"}
    Fails = {"create", "join", "reservation", "server", "onCreate", "consume", "late"}
    ServerActs = {"kick", "dispose", "gap"}
SYMMETRY Symmetry2
CHECK_DEADLOCK FALSE
INVARIANT TypeOK
INVARIANT OneSeatPerConnection
INVARIANT JoinedSeatIsConnected
INVARIANT HoldHasTimer
INVARIANT TokensCurrent
INVARIANT OnLeaveAtMostOnce
INVARIANT ConnectedNeverPaused
INVARIANT HandshakeFirst
