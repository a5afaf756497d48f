SPECIFICATION FairSpec
CHECK_DEADLOCK FALSE
CONSTANTS
    c1 = c1
    c2 = c2
    p1 = p1
    None = None
    Callers <- TwoCallers
    MaxCalls = 3
    PeerRequests = {}
    HasHandler = FALSE
    Faults = {}
PROPERTY CallsEnd
