SPECIFICATION Spec
CONSTANTS
    k1 = k1
    p1 = p1
    p2 = p2
    Keys = {k1}
    Results = {}
    Refused = {}
    Recoded <- PlainResults
    NoResult = NoResult
    MaxRetries = 2
    RetryFailed = TRUE
    LeaseTicks = 2
    TtlTicks = 1
    TtlElapses = FALSE
    MaxAttempts = 1
    Consumers = {c1, c2}
    Partitions = {p1, p2}
    Log <- LogTwice
    NoId = NoId
    Undecodable = Undecodable
    CallerRetries = 2
    NoOwner = NoOwner
    HasDlq = TRUE
    StoreMayFail = FALSE
    SlowHandlers = FALSE
    MaxAborts = 0
    MaxRebalances = 0
INVARIANTS
    DeadLetterMeansExhausted
