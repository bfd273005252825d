SPECIFICATION FairSpec
CONSTANTS
    t1 = t1
    t2 = t2
    Threads <- MCThreads
    Reads = TRUE
    Writes = TRUE
    MaxCount = 4
    MaxFailed = 2
INVARIANTS
    TypeOK
    ClaimsExclusive
    MissExplained
    EveryPutRecorded
    CleanupEmpties
PROPERTIES
    RunTerminates
