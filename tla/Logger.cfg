SPECIFICATION FairSpec
CONSTANTS
    Producer = {p}
    Sync = Sync
    Handler = Handler
    None = None
    SetLevel = "INFO"
    Interrupted = {Sync}
    MaxLines = 2
    MaxDays = 1
    MaxSize = 0
INVARIANTS
    LinesInOrder
    FilesRoll
PROPERTIES
    LinesWritten
    SignalEnds
CHECK_DEADLOCK FALSE
