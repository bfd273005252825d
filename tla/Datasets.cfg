SPECIFICATION FairSpec
CONSTANTS
    t1 = t1
    t2 = t2
    Threads <- MCThreads
    Kinds <- AllKinds
    Fragments = 2
    Manifests = 1
    Objects = 2
    Fanout = 2
    PerPrefix = 1
    Commands <- BothCommands
    PageSize = 1
    MaxClaims = 3
    MaxFailed = 1
INVARIANTS
    TypeOK
    ReadsExist
    NewKeysFresh
    CleanupExplained
    ListingBracketed
    SequentialBalanced
PROPERTIES
    RunTerminates
