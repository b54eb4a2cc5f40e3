SPECIFICATION FairSpec
CONSTANTS
    EmptyText = EmptyText
    BadText = BadText
    OkText = OkText
    ErrText = ErrText
    NoCall = NoCall
    Conn = {c1, c2}
    MaxRequests = 2
    MaxClosures = 1
    MaxEarly = 1
INVARIANTS
    AnswerIsOwn
    RunTimeAlive
    LateAnswersDeferred
PROPERTIES
    CallsAnswered
CHECK_DEADLOCK FALSE
