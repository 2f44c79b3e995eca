\* The coordinator and another process create for one pool; two things go wrong.
SPECIFICATION Spec
CONSTANTS
    p1 = p1
    p2 = p2
    p3 = p3
    NoProc = NoProc
    NoLease = NoLease
    Proc <- MCProc
    Score <- MCScore
    MaxClaims <- FirstAndLast
    MaxFaults = 2
CHECK_DEADLOCK FALSE
INVARIANT TypeOK
INVARIANT OneRoomPerPool
INVARIANT LeasesSound
