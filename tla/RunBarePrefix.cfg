SPECIFICATION Spec
CONSTANTS
    c1 = c1
    Base <- BareBase
    Runs = {7}
    Cleaners = {c1}
    Foreign <- NoForeign
    AllowShared = FALSE
    CleanupOn = FALSE
    PageSize = 1
    MaxObjects = 1
    MaxFaults = 0
    MaxSignals = 0
    MaxLimbo = 0
INVARIANTS
    CleanupRecovers
