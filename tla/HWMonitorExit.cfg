SPECIFICATION FairSpec
CONSTANTS
    cpu = cpu
    blk = blk
    mem = mem
    UI = UI
    Free = Free
    NULL = NULL
    Blocks = {p1, p2, p3}
    Devs <- MCPair
    Rebuilt <- MCCpu
    Diffed <- MCPair
    Panels <- MCOrder
    MaxMul = 2
PROPERTIES
    ExitCompletes
