\* One thing may go wrong: a crash, or a peer dropped although it is alive.
SPECIFICATION FairSpec
CONSTANTS
    Edge = Edge
    None = None
    o1 = o1
    o2 = o2
    c1 = c1
    c2 = c2
    j1 = j1
    j2 = j2
    j3 = j3
    Owner = {o1, o2}
    Conn = {c1, c2}
    Join = {j1, j2, j3}
    ConnOf <- TwoAndOne
    Creates = {j3}
    Late = {j3}
    MayTimeOut = {j1}
    MaxFaults = 1
    Start <- RoomsOrCreate
CHECK_DEADLOCK FALSE
INVARIANT TypeOK
INVARIANT RoutesAndSeats
PROPERTY Settles
