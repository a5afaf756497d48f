SPECIFICATION FairSpec
CONSTANTS
    MaxFuel = 2
    Costs <- CheapAndDear
    CallsPerBlock = 2
    MaxSubs = 2
    Timeouts <- ShortAndLong
    MaxTime = 4
    MaxInput = 1
    Platform = "native"
    Ms = 2
    U32 = 4
    None = None
INVARIANTS
    TypeOK
    LastEventDue
    YieldKept
    KilledStopsSoon
PROPERTIES
    KillEnds
    BlocksRun
