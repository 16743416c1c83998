SPECIFICATION Spec
CONSTANTS
    Handles = {x, y}
    Bytes = {1, 2}
    Zero = 0
    InitBuffer = 2
    MaxLen = 4
    NONE = NONE
INVARIANTS
    TypeOK
    RoomIsZero
PROPERTIES
    ImplementsStrings
