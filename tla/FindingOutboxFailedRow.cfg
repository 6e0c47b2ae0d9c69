SPECIFICATION OutboxFairSpec
CONSTANTS
    m1 = m1
    m2 = m2
    NumTxns = 2
    Message <- MessageDistinct
    Relays = {r1}
    BatchSize = 2
    SendMayFail = TRUE
    MaxFaults = 1
    MaxStops = 0
PROPERTIES
    CommittedIsSent
