SPECIFICATION Spec
CONSTANTS
    cpu = cpu
    blk = blk
    mem = mem
    UI = UI
    Free = Free
    NULL = NULL
    Blocks = {p1, p2, p3}
    Devs <- MCTriple
    Rebuilt <- MCCpuMem
    Diffed <- MCPair
    Panels <- MCOrder3
    MaxMul = 2
INVARIANTS
    TypeOK
    ReaderSeesComplete
    OwnedOnce
    TeardownIsQuiet
