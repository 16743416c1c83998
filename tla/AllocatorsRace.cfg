SPECIFICATION Spec
CONSTANTS
    NULL = NULL
    t1 = t1
    t2 = t2
    t3 = t3
    p1 = p1
    p2 = p2
    p3 = p3
    Threads <- MCThreads
    Addrs <- MCAddrs
    Sizes = {1, 2}
    CanFail = FALSE
SYMMETRY Interchangeable
INVARIANT
    RegistryCoversLive
