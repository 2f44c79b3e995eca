\* Rooms their own creator or reservations keep, whose code removes nobody:
\* three clients for two seats.
SPECIFICATION Spec
CONSTANTS
    c1 = c1
    c2 = c2
    c3 = c3
    k1 = k1
    k2 = k2
    NoConn = NoConn
    Client <- MCClient3
    Conn <- MCConn
    MaxClients = 2
    AutoDispose = TRUE
    AllowReconnection = TRUE
    MaxRequests = 2
    JoinKinds = {"create", "reservation"}
    Fails = {"create", "reservation", "onCreate"}
    ServerActs = {"lock"}
SYMMETRY Symmetry3
CHECK_DEADLOCK FALSE
INVARIANT SeatCapacity
INVARIANT RoomEnds
