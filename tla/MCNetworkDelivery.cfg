SPECIFICATION FairSpec
CONSTANTS
    Bus = Bus
    h1 = h1
    h2 = h2
    h3 = h3
    p1 = p1
    p2 = p2
    p3 = p3
    Hosts <- PairHosts
    Ports <- PairPorts
    HostOf <- PairHostOf
    Verdicts = {TRUE, FALSE}
    NoOne = NoOne
    MainThread = MainThread
    MaxReplies = 1
INVARIANTS
    TypeOK
    ReceiversFollowTheBus
    NothingIsMissing
    SetUpIsSynchronous
PROPERTY ProgramEnds
CHECK_DEADLOCK FALSE
