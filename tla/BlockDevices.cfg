SPECIFICATION BlkSpec
CONSTANTS
    ABSENT = ABSENT
    REPLACED = REPLACED
    sda = sda
    sdb = sdb
    Disks <- MCDisks
    Modulus = 3
    Space <- MCSpace
    Capacity <- MCCapacity
SYMMETRY Interchangeable
INVARIANTS
    SpeedsAreTraffic
    UsageMatchesSize
