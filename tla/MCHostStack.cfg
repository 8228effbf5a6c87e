SPECIFICATION Spec
CONSTANTS
    Sockets = {s1, s2}
    Clients = {c1, c2}
    NoOne = NoOne
    Ports = {1000, 2000}
    NumPcbs = 3
    NumHeap = 1
    NumPool = 2
    MaxPings = 3
SYMMETRY StackSymmetry
INVARIANTS
    TypeOK
    PoolIsWhole
    StrayHasCause
    LatestPingIsArmed
PROPERTIES
    ServiceIsKept
    ResultGoesToLatestPing
CHECK_DEADLOCK FALSE
