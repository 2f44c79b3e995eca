SPECIFICATION Spec
CONSTANTS
    Rate <- Rates
    Capacity <- Capacities
    Size = {1}
    Authenticates = FALSE
    QueueLimit = 1
    MaxNow = 0
    MaxSent = 0
    StepMs = {2}
    MaxCatchUp = 1
    MaxTime = 0
    Content <- ContentOf
    Fields <- FieldsOf
    Classes <- ClassesOf
    Durable = TRUE
    MaxSaves = 0
    MaxMoment = 0
    Proc = {p, q}
    Defines = {p, q}
    Private = {}
    Kind <- Kinds
    First <- FirstRooms
    MaxCalls = 2
    MaxClients = 1
    MaxChurn = 0
    Seat = {s1}
    MaxRegs = 0
    MaxMsgs = 0
    MaxSerial = 0
    MaxOffs = 0
    Node = {p, q}
    MaxEvents = 0
    MaxSubs = 0
    MaxUnsubs = 0
SYMMETRY AnyProcess
INVARIANT KeyedOnce
CHECK_DEADLOCK FALSE
