CONSTANTS
    Sessions <- OnlyCut
    MaxLine = 10
SPECIFICATION Spec
INVARIANTS
    CorrectlyExtracts
CHECK_DEADLOCK FALSE
