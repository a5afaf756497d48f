SPECIFICATION LinesSpec
CONSTANTS
    Newline = Newline
    Lead = Lead
    Continuation = Continuation
    Byte <- ThreeBytes
    Chunks <- Pieces
    Capacity = 2
    Lengths = {0, 1, 3}
    MaxReads = 1
    MaxWrites = 2
    MaxBytes = 4
CHECK_DEADLOCK FALSE
INVARIANTS
    LinesTypeOK
    InputIntact
    AvailableMeansReadable
    StdoutLines
    LogLines
PROPERTIES
    InputIsChannel
    OutputsAreChannels
