SPECIFICATION GuardFairSpec
CONSTANTS
    Keys = {k1}
    Results = {r1}
    Refused = {}
    Recoded <- PlainResults
    NoResult = NoResult
    MaxRetries = 2
    RetryFailed = TRUE
    LeaseTicks = 2
    TtlTicks = 1
    TtlElapses = FALSE
    MaxAttempts = 1
    Guards = {g1, g2}
    Decorated = {d1}
    CallerRetries = 2
    SlowBodies = FALSE
    StoreMayFail = TRUE
    MaxCalls = 2
    MaxInterrupts = 1
INVARIANTS
    GuardTypeOK
    SoleRunner
    WorkRepeatsOnlyUnrecorded
PROPERTIES
    EveryCallReturns
    NoKeyWedged
