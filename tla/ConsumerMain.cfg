SPECIFICATION MainSpec
CONSTANTS
    NumConsumers = 3
INVARIANTS
    MainTypeOK
    CrashExitsNonZero
    CleanExit
PROPERTIES
    AlwaysExits
CHECK_DEADLOCK FALSE
