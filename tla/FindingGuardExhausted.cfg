SPECIFICATION GuardSpec
CONSTANTS
    Keys = {k1}
    Results = {r1}
    Refused = {}
    Recoded <- PlainResults
    NoResult = NoResult
    MaxRetries = 2
    RetryFailed = TRUE
    LeaseTicks = 2
    TtlTicks = 1
    TtlElapses = FALSE
    MaxAttempts = 1
    Guards = {g1}
    Decorated = {d1}
    CallerRetries = 2
    SlowBodies = FALSE
    StoreMayFail = FALSE
    MaxCalls = 2
    MaxInterrupts = 0
PROPERTIES
    RefusedMeansTaken
