SPECIFICATION LinesSpec
CONSTANTS
    Newline = Newline
    Lead = Lead
    Continuation = Continuation
    Byte <- ThreeBytes
    Chunks <- Pieces
    Capacity = 2
    Lengths = {0, 1, 3}
    MaxReads = 2
    MaxWrites = 1
    MaxBytes = 3
CHECK_DEADLOCK FALSE
INVARIANTS
    InputIntact
