SPECIFICATION Spec
CONSTANTS
    Base <- SlashedBase
    Runs = {7}
    Cleaners = {}
    Foreign <- NoForeign
    AllowShared = FALSE
    CleanupOn = TRUE
    PageSize = 1
    MaxObjects = 1
    MaxFaults = 0
    MaxSignals = 1
    MaxLimbo = 0
INVARIANTS
    CleanedOnExit
