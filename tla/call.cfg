SPECIFICATION FairSpec
CONSTANTS
    MaxLogs = 2
    MaxCalls = 2
    MaxSleeps = 1
    MaxUtterances = 2
    Utterances = {"stray", "garbage"}
INVARIANTS
    TypeOK
    Wakeable
    VerdictDelivered
    LogsDelivered
    OneRequestUnderWay
PROPERTIES
    ContractSpec
    CallReturns
