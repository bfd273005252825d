SPECIFICATION Spec
CONSTANTS
    Base <- SlashedBase
    Runs = {7}
    Cleaners = {}
    Foreign <- SomeForeign
    AllowShared = FALSE
    CleanupOn = TRUE
    PageSize = 1
    MaxObjects = 1
    MaxFaults = 0
    MaxSignals = 0
    MaxLimbo = 0
INVARIANTS
    SharedBucketRefused
