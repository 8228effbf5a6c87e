SPECIFICATION AppFairSpec
CONSTANTS
    Bus = Bus
    NoOne = NoOne
    MainThread = MainThread
    h1 = h1
    h2 = h2
    p1 = p1
    p2 = p2
    Hosts <- PairHosts
    Ports <- PairPorts
    HostOf <- PairHostOf
    Verdicts = {TRUE}
    MaxReplies = 0
    MaxCounter = 10
    HeapSizes = {4, 5}
INVARIANTS
    AppTypeOK
    DatagramsTakeTurns
    StopFollowsExchange
    LeakStopsExchange
PROPERTY ExchangeEnds
CHECK_DEADLOCK FALSE
