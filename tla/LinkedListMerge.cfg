SPECIFICATION Spec
CONSTANTS
    NONE = NONE
    NULL = NULL
    n1 = n1
    n2 = n2
    n3 = n3
    n4 = n4
    x = x
    y = y
    d = d
    e = e
    Lists <- MCLists
    Nodes <- MCNodes
    Items <- MCItems
    ReleasesBoth = TRUE
SYMMETRY Interchangeable
INVARIANT
    MergedListsReleasable
