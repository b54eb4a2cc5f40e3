SPECIFICATION WriteFairSpec
CONSTANTS
    Sides = {TRUE, FALSE}
    Windows = {3, 7, 20}
    EncodedLen = 2
    MaxMessages = 4
INVARIANTS
    NothingStranded
    InOrder
PROPERTY MessageSent
CHECK_DEADLOCK FALSE
