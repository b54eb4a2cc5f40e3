SPECIFICATION FairSpec
CONSTANTS
    Byte = {1, 2, 3, 4, 5, 6, 7, 8, 9, 10, 11, 12, 13, 14, 15, 16, 17, 18, 19, 20}
    NoByte = 0
    BufferSize = 18
    LenBytes = 2
    FrameLen = 5
    Frames = 4
INVARIANTS
    TypeOK
    StreamIntact
    NoFrameWaits
PROPERTIES
    DecodeConsumes
    
CHECK_DEADLOCK FALSE
