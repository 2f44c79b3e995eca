\* One client, two keys, three changes of the state or of what the client may
\* see; and a state of three items and a bag, with two keys and four changes.
SPECIFICATION StateSpec
CONSTANTS
    c1 = c1
    k1 = k1
    k2 = k2
    a1 = a1
    a2 = a2
    b = b
    Absent = Absent
    None = None
    NoState = NoState
    Invalid = Invalid
    Client = {c1}
    Remote = {}
    Key = {k1, k2}
    BadKey = {}
    Val <- MCVal
    Wire <- MCWire
    Fresh <- MCFresh
    PauseAt = 1
    ResumeAt = 0
    MaxWrites = 3
    Item = {x, y, z}
    x = x
    z = z
    Bag = bag
    KeyOrder <- Keys
    Zero = 0
    Number = {0, 1}
    MaxRow = 2
    MaxChanges = 4
INVARIANT TypeOK
PROPERTY InStep
PROPERTY ImplementsStream
INVARIANT RefsSound
