SPECIFICATION Spec
CONSTANTS
    Byte = {0, 1, 2, 3, 4, 8, 9, 13, 16, 28, 36, 43, 46, 49, 50, 51, 52, 53, 54, 55, 56, 57, 97, 98, 111}
    NoByte = 0
    BufferSize = 128
    Messages = 3
    MaxRead = 50
INVARIANTS
    FramesDecoded
    SpinsBehindFrame
CHECK_DEADLOCK FALSE
