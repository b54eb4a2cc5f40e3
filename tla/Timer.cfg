SPECIFICATION TimerFairSpec
CONSTANTS
    Events = {e1, e2}
    Intervals = {0, 1, 3}
    Retry = 2
    Horizon = 3
    MaxSteps = 2
INVARIANTS
    TimerTypeOK
    TimerArmed
    LatenessBounded
    CancelledNotPending
    OneShotTakenOnce
PROPERTY EventFires
CHECK_DEADLOCK FALSE
