SPECIFICATION FairSpec
CONSTANTS
    c1 = c1
    c2 = c2
    Loop = Loop
    Callers <- MCCallers
    Fds = {f1}
    WakeFd = WakeFd
    NoTask = NoTask
    MaxTasks <- MCOneTask
    MaxReady = 1
    MaxEvents = 2
INVARIANTS
    TypeOK
    MutexHasHolder
PROPERTIES
    IsFifoQueue
    TaskRuns
    StopEndsLoop
CHECK_DEADLOCK FALSE
