SPECIFICATION Spec
CONSTANTS
    NULL = NULL
    t1 = t1
    t2 = t2
    n1 = n1
    n2 = n2
    n3 = n3
    v1 = v1
    v2 = v2
    v3 = v3
    Threads <- MCThreads
    Traversers = {t1}
    Hashes <- MCHashes
    TableSize = 2
    Nodes <- MCNodes
    MaxFailures = 1
    Values <- MCValues
SYMMETRY Interchangeable
INVARIANTS
    TypeOK
    ChainsSound
    ReleasedOnce
    TraversalWeaklyConsistent
PROPERTIES
    Linearizable
