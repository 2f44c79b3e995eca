SPECIFICATION Spec
CONSTANTS
    Rate <- Rates
    Capacity <- Capacities
    Size = {1, 2}
    Authenticates = TRUE
    QueueLimit = 1
    MaxNow = 2
    MaxSent = 3
    StepMs = {2, 3}
    MaxCatchUp = 2
    MaxTime = 9
    Content <- ContentOf
    Fields <- FieldsOf
    Classes <- ClassesOf
    Durable = TRUE
    MaxSaves = 2
    MaxMoment = 2
    Proc = {p, q}
    Defines = {p, q}
    Private = {"where"}
    Kind <- Kinds
    First <- FirstRooms
    MaxCalls = 2
    MaxClients = 1
    MaxChurn = 1
    Seat = {s1}
    MaxRegs = 2
    MaxMsgs = 2
    MaxSerial = 1
    MaxOffs = 2
    Node = {p, q}
    MaxEvents = 2
    MaxSubs = 2
    MaxUnsubs = 2
SYMMETRY AnyProcess
INVARIANT GatewaySound
INVARIANT LoopSound
PROPERTY LoadsASave
PROPERTY MatchSound
INVARIANT RoomMessagesSound
INVARIANT AppEventsSound
CHECK_DEADLOCK FALSE
