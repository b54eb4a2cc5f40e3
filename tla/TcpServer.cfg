SPECIFICATION FairSpec
CONSTANTS
    NoCallback = NoCallback
    Threads = 2
    FirstFd = 3
    FirstSize = 4
    MaxClients = 3
    MaxActive = 2
INVARIANTS
    HandedOut
    FreedUnused

    
CHECK_DEADLOCK FALSE
