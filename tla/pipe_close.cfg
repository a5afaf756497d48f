SPECIFICATION FairSpec
CHECK_DEADLOCK FALSE
CONSTANTS
    a = a
    b = b
    Byte <- MCByte
    Chunks <- MCChunks
    ReadSizes = {1, 2, 3}
    MaxSent = 4
PROPERTY CloseSeen
