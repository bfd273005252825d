SPECIFICATION Spec
CONSTANTS
    c1 = c1
    Base <- SlashedBase
    Runs = {7, 8}
    Cleaners = {c1}
    Foreign <- SomeForeign
    AllowShared = TRUE
    CleanupOn = TRUE
    PageSize = 1
    MaxObjects = 1
    MaxFaults = 1
    MaxSignals = 1
    MaxLimbo = 1
INVARIANTS
    TypeOK
    ForeignUntouched
    CleanExit
    CleanupRecovers
    ErrorHasCause
PROPERTIES
    RunsIsolated
