SPECIFICATION PipelineFairSpec
CONSTANTS
    k1 = k1
    m1 = m1
    m2 = m2
    Keys = {k1}
    Results = {}
    Refused = {}
    Recoded <- PlainResults
    NoResult = NoResult
    MaxRetries = 2
    RetryFailed = TRUE
    LeaseTicks = 1
    TtlTicks = 1
    TtlElapses = FALSE
    MaxAttempts = 1
    Consumers = {c1}
    Partitions = {1, 2}
    Log <- TopicLog
    NoId = NoId
    Undecodable = Undecodable
    CallerRetries = 1
    NoOwner = NoOwner
    HasDlq = TRUE
    StoreMayFail = TRUE
    SlowHandlers = FALSE
    MaxAborts = 1
    MaxRebalances = 0
    NumTxns = 2
    Message <- MessageDistinct
    PayloadId <- PayloadMixed
    Relays = {r1}
    BatchSize = 2
    SendMayFail = TRUE
    MaxFaults = 1
    MaxStops = 0
INVARIANTS
    HandledMeansCommitted
    IdentifiedRowHandledOnce
PROPERTIES
    CommittedIsResolved
