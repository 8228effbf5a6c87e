SPECIFICATION Spec
CONSTANTS
    Sockets = {s1}
    Clients = {c1}
    NoOne = NoOne
    Ports = {1000}
    NumPcbs = 1
    NumHeap = 1
    NumPool = 2
    MaxPings = 1
INVARIANT DatagramArrivesWhole
CHECK_DEADLOCK FALSE
