SPECIFICATION ContainersSpec
CONSTANTS
    NONE = NONE
    NULL = NULL
    n1 = n1
    n2 = n2
    n3 = n3
    n4 = n4
    x = x
    y = y
    d = d
    e = e
    Lists <- MCLists
    Nodes <- MCNodes
    Items <- MCItems
    ReleasesBoth = FALSE
    VOID = VOID
    NIL = VOID
    NOVEC = VOID
    Cells = {1, 2, 3}
    Things = {p}
    Vertices = {1, 2, 3}
    HashKeys = {1, 2, 3}
    Payloads = {b1, b2, b3, b4}
    Elems = {u, v}
    FirstRoom = 2
    MaxElems = 3
SYMMETRY Interchangeable
INVARIANTS
    ContainersTypeOK
    LinkedBothWays
PROPERTIES
    ImplementsQueues
    ImplementsCollections
