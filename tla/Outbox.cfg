SPECIFICATION OutboxFairSpec
CONSTANTS
    m1 = m1
    m2 = m2
    NumTxns = 3
    Message <- MessageRepeated
    Relays = {r1, r2}
    BatchSize = 2
    SendMayFail = TRUE
    MaxFaults = 2
    MaxStops = 1
INVARIANTS
    OutboxTypeOK
    CommittedHasRow
    PublishedMeansSent
    RepublishedOnlyAfterFault
PROPERTIES
    ImplementsOutboxContract
    CommittedIsSettled
