SPECIFICATION Spec
CONSTANTS
    Bus = Bus
    h1 = h1
    h2 = h2
    h3 = h3
    p1 = p1
    p2 = p2
    p3 = p3
    Hosts <- TripleHosts
    Ports <- TriplePorts
    HostOf <- TripleHostOf
    Verdicts = {TRUE, FALSE}
    NoOne = NoOne
    MainThread = MainThread
    MaxReplies = 0
INVARIANT AllRunningHostsAreReached
CHECK_DEADLOCK FALSE
