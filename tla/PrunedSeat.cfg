\* Two joins on one connection, one of which creates its room; nothing goes wrong but
\* that a join may be refused.
SPECIFICATION Spec
CONSTANTS
    Edge = Edge
    None = None
    o1 = o1
    o2 = o2
    c1 = c1
    c2 = c2
    j1 = j1
    j2 = j2
    j3 = j3
    Owner = {o1, o2}
    Conn = {c1, c2}
    Join = {j1, j2, j3}
    ConnOf <- TwoAndOne
    Creates = {j1}
    Late = {}
    MayTimeOut = {}
    MaxFaults = 0
    Start <- OneOwner
CHECK_DEADLOCK FALSE
INVARIANT SeatReachable
