SPECIFICATION Spec
CONSTANTS
    t1 = t1
    t2 = t2
    Threads <- MCThreads
    Fds <- MCFds
    Addrs <- MCAddrs
    MaxGen = 2
    MaxQueue = 2
INVARIANTS Attributed MapsAgree NoLeakedConnection
SYMMETRY Symmetry
CHECK_DEADLOCK FALSE
