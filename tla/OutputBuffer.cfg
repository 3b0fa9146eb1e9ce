SPECIFICATION Spec
CONSTANTS
    Bytes = {0, 1, 2}
    Zero = 0
    Chunks <- MCChunks
    MinReserve = 3
    MaxLength = 4
    CallerRules <- AllRules
INVARIANTS
    TypeOK
    WritesInOwnMemory
PROPERTY
    HandsOutWhatWasWritten
