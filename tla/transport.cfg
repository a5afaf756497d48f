SPECIFICATION FairSpec
CHECK_DEADLOCK FALSE
CONSTANTS
    c1 = c1
    c2 = c2
    p1 = p1
    None = None
    Callers <- TwoCallers
    MaxCalls = 3
    PeerRequests <- OneRequest
    HasHandler = TRUE
    Faults = {"error", "garbage", "eof", "write"}
INVARIANTS
    TypeOK
    OwnResult
    OkIsThePeers
    ErrorsAreThePeers
    ReaderLocked
    AnswerUnderWay
    NothingLeftPending
PROPERTY CallsEndOrHang
