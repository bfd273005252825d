SPECIFICATION Spec
CONSTANTS
    prep = prep
    a0 = a0
    a1 = a1
    b0 = b0
    a = a
    b = b
    fallback = fallback
    m1 = m1
    none = none
    Workers <- MCWorkers
    WorkloadOf <- MCWorkloadOf
    ShardIdOf <- MCShardIdOf
    Fallback = fallback
    Latencies = {1, 2}
    HdrMax = 4
    Messages = {m1}
    NoMessage = none
    MaxOps = 1
INVARIANTS
    TypeOK
    ShardsComplete
    SnapshotExact
    TotalsBracketed
PROPERTIES
    TotalsMonotone
