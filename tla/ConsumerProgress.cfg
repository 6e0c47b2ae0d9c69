SPECIFICATION FairSpec
CONSTANTS
    k1 = k1
    p1 = p1
    p2 = p2
    Keys = {k1}
    Results = {}
    Refused = {}
    Recoded <- PlainResults
    NoResult = NoResult
    MaxRetries = 2
    RetryFailed = TRUE
    LeaseTicks = 1
    TtlTicks = 2
    TtlElapses = TRUE
    MaxAttempts = 1
    Consumers = {c1, c2}
    Partitions = {p1, p2}
    Log <- LogTwice
    NoId = NoId
    Undecodable = Undecodable
    CallerRetries = 2
    NoOwner = NoOwner
    HasDlq = TRUE
    StoreMayFail = TRUE
    SlowHandlers = TRUE
    MaxAborts = 1
    MaxRebalances = 0
INVARIANTS
    LossOnlyIfAbandoned
PROPERTIES
    EventuallyCommitted
    EventuallyResolved
