SPECIFICATION OpsSpec
CONSTANTS
    Byte = {1, 2, 3, 4, 5, 6, 7, 8, 9, 10}
    NoByte = 0
    InitSize = 7
    OpsBytes = 10
INVARIANTS
    StreamKept
CHECK_DEADLOCK FALSE
