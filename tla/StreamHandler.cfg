CONSTANTS
    Sessions <- LockstepAndAdverse
    MaxLine = 10
SPECIFICATION Spec
INVARIANTS
    ExtractedAsSent
    NothingTwice
PROPERTIES
    AllExtracted
CHECK_DEADLOCK FALSE
