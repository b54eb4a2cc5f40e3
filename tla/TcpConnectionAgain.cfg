SPECIFICATION WriteSpec
CONSTANTS
    Sides = {FALSE}
    Windows = {7}
    EncodedLen = 2
    MaxMessages = 2
INVARIANT SentOnce
CHECK_DEADLOCK FALSE
