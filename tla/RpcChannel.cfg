SPECIFICATION FairSpec
CONSTANTS
    HasClosure = TRUE
    Nested = FALSE
    Careful = TRUE
    MaxCalls = 3
PROPERTIES
    IsCall
    ClosureIsLast
    CallFinishes
CHECK_DEADLOCK FALSE
