SPECIFICATION EndingSpec
CONSTANTS
    MaxLogs = 0
    MaxCalls = 1
    MaxSleeps = 0
    MaxUtterances = 1
    Utterances = {"garbage"}
PROPERTY ReturnsWhenOneCompletes
