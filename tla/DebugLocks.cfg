SPECIFICATION FairSpec
CONSTANTS
    Log = Log
    Heap = Heap
    MaxInside = 1
    Free = Free
    Joined = {sampler}
    Main = main
    Keypad = keypad
    NBins = 2
    MaxSignals = 2
    MaxTimeFailures = 1
INVARIANTS
    TypeOK
    OwnersHold
    RegistryOutlivesUse
    HoldAndWaitExplained
PROPERTIES
    LocksReleased
    HandlerReturns
CHECK_DEADLOCK FALSE
