SPECIFICATION FairSpec
CONSTANTS
    Workloads <- MCWorkloads
    Mix = "mix"
    Children <- MCChildren
    PlanWeight <- MCPlanWeight
    FlagThreads = {0, 4}
    EnvThreads = {5}
    PlanThreads = {0, 2}
    DefaultThreads = 6
    OwnThreads = {"small_objects"}
    Checkpoints = {"checkpoint"}
    Writers = 1
INVARIANTS
    TypeOK
    PhasesInOrder
    ThreadsAsConfigured
PROPERTIES
    RunnerReturns
