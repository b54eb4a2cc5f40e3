SPECIFICATION ClientFairSpec
CONSTANTS
    a = a
    b = b
    c = c
    l1 = l1
    l2 = l2
    Client <- MCClient
    Loop <- MCLoop
    LoopOf <- MCLoopOf
    Large = {a}
    Fd = {3, 4}
    NoFd = NoFd
    NoCallback = NoCallback
INVARIANTS
    ListenersRegistered
    CallbacksOwn
PROPERTIES
    ConnectDone
CHECK_DEADLOCK FALSE
