SPECIFICATION Spec
CONSTANTS
    Kind = {"a"}
    MaxUnclaimed = 1
    MaxFrames = 4
    MaxBinds = 2
    Peer = {p1, p2}
    Newcomer = {p2}
    MaxAsks = 1
    MaxLosses = 1
    Callback = {c1, c2}
    Overlap = FALSE
    MaxCommands = 3
    Base = 8
    Short = 1024
    Word = 16384
    Samples <- Messages
    Escape = 2
    MaxRef = 15
    a = a
    b = b
    Seats <- Seating
    MapKeys <- KeyOrder
    Used <- KeysUsed
    Placed = {"Unit", "Wall"}
    MaxTouches = 3
    Guest = {g1, g2}
    RoomCap = 2
    MaxProxyCalls = 3
    MaxOwnSteps = 1
    MaxLostCalls = 1
    MaxEffects = 3
    MaxApplied = 3
INVARIANT InboxSound
INVARIANT DiscoverySound
INVARIANT BackplaneSound
INVARIANT MessagesSound
INVARIANT StreamSound
INVARIANT ProxySound
INVARIANT HooksSound
CHECK_DEADLOCK FALSE
