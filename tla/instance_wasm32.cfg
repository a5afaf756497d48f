SPECIFICATION Spec
CONSTANTS
    MaxFuel = 2
    Costs <- CheapAndDear
    CallsPerBlock = 1
    MaxSubs = 1
    Timeouts <- ShortAndLong
    MaxTime = 4
    MaxInput = 1
    Platform = "wasm32"
    Ms = 2
    U32 = 4
    None = None
INVARIANTS
    LastEventDue
