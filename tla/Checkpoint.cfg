SPECIFICATION FairSpec
CONSTANTS
    w1 = w1
    w2 = w2
    caller = caller
    Writers <- MCWriters
    Caller = caller
    Retain = 2
    Resume = TRUE
    MaxKey = 4
    MaxFailed = 1
INVARIANTS
    TypeOK
    NoSilentLeak
    TrackedIsStored
    WritesExclusive
    MissNeedsTurnover
    CleanupComplete
    EveryWriteRecorded
    WindowIsLatest
PROPERTIES
    RollingStoreSpec
    RunTerminates
    DisplacedIsDeleted
