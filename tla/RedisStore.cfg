SPECIFICATION StoreSpec
CONSTANTS
    Keys = {k1, k2}
    Results = {emptyList, emptyDict, object}
    EmptyList = emptyList
    EmptyDict = emptyDict
    Refused = {object}
    Recoded <- ListBecomesDict
    NoResult = NoResult
    MaxRetries = 2
    RetryFailed = TRUE
    LeaseTicks = 1
    TtlTicks = 3
    TtlElapses = TRUE
    MaxAttempts = 3
INVARIANTS
    StoreTypeOK
    RecordShape
    EveryRecordExpires
PROPERTIES
    CompletedIsTerminal
    ImplementsContract
