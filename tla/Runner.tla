------------------------------- MODULE Runner -------------------------------
(***************************************************************************)
(* From the configuration to the goroutines: how config.Resolve picks the  *)
(* settings, how runner.Run takes the workloads of a plan through          *)
(* Prepopulate, warmup and measurement, and how a mix (internal/workload/  *)
(* mix), one of these workloads, shares its threads among its children and *)
(* collects their errors.                                                  *)
(*                                                                         *)
(* What a workload does inside Run is in Checkpoint, KeyedWorkload and     *)
(* Datasets; here it records operations and returns, with an error or when *)
(* its context is done.  A step is one of these, or one access to the      *)
(* error channel, or one transition of runner.Run.                         *)
(***************************************************************************)
EXTENDS Integers, Sequences, FiniteSets, Functions, FiniteSetsExt

CONSTANTS
    Workloads,       \* the workloads of the plan, in order
    Mix,             \* the one of them that is a mix
    Children,        \* its children, in order
    PlanWeight,      \* the weight the plan gives each child
    FlagThreads,     \* values of the flag --threads in the instance
    EnvThreads,      \* values of S3AIBENCH_THREADS
    PlanThreads,     \* values of defaults.threads, 0 if the plan has none
    DefaultThreads,  \* what Resolve falls back to (64)
    OwnThreads,      \* names that may have a setting of their own
    Checkpoints,     \* the leaves that are checkpoint workloads
    Writers          \* their parameter `writers`

Kids == Range(Children)
Leaves == (Range(Workloads) \ {Mix}) \cup Kids
Phases == {"warmup", "measure"}

ASSUME RunnerAssumption ==
    /\ Workloads \in Seq(Range(Workloads)) /\ IsInjective(Workloads)
    /\ Children \in Seq(Kids) /\ IsInjective(Children) /\ Children # <<>>
    /\ Mix \in Range(Workloads) /\ Kids \cap Range(Workloads) = {}
    /\ PlanWeight \in [Kids -> Int]
    /\ FlagThreads \cup EnvThreads \cup PlanThreads \subseteq Int
    /\ DefaultThreads \in Nat \ {0}
    /\ OwnThreads \subseteq Leaves \cup {Mix}
    /\ Checkpoints \subseteq Leaves /\ Writers \in Int
-----------------------------------------------------------------------------
(* config.Resolve.  A layer is the set of its usable values: empty if the  *)
(* flag is not given, the variable not set or not parsed.                  *)

Usable(values) == {{}} \cup {{v} : v \in values}
Only(layer) == CHOOSE v \in layer : TRUE

\* pickInt, pickInt64, pickDuration: a zero in the plan counts as absent.
Pick(flag, env, planVal, def) ==
    CASE flag # {} -> Only(flag)
      [] flag = {} /\ env # {} -> Only(env)
      [] flag = {} /\ env = {} /\ planVal # 0 -> planVal
      [] OTHER -> def

\* pickBool: the plan's value is a pointer.
PickBool(flag, env, plan, def) ==
    CASE flag # {} -> Only(flag)
      [] flag = {} /\ env # {} -> Only(env)
      [] flag = {} /\ env = {} /\ plan # {} -> Only(plan)
      [] OTHER -> def

VARIABLES
    layers,       \* the layers of defaults.threads, and who has threads of its own
    threads,      \* cfg.Threads
    warm,         \* cfg.Warmup is positive
    duration,     \* cfg.Duration, as 0 or 1
    prepopulate,  \* cfg.Prepopulate
    main,         \* where runner.Run is
    turn,         \* the place in Flat of the next leaf to prepopulate
    prepared,     \* leaves whose Prepopulate was called
    unprepared,   \* leaves whose Prepopulate failed, counted by Result.Errors
    at,           \* where Run of each leaf is, by phase
    given,        \* the threads it was given
    mixAt,        \* where Run of the mix is, in each phase
    errCh,        \* errors in the channel of the mix
    ctxDone,      \* phases whose context is done
    collected     \* history: phases whose operations reached the collector

config == <<layers, threads, warm, duration, prepopulate>>
populating == <<turn, prepared, unprepared>>
running == <<at, given, mixAt, errCh>>
vars == <<config, main, populating, running, ctxDone, collected>>

\* The leaves in the order of Prepopulate: the mix stands for its children.
MixPlace == CHOOSE i \in DOMAIN Workloads : Workloads[i] = Mix
AfterMix == MixPlace + Len(Children)
Flat == SubSeq(Workloads, 1, MixPlace - 1) \o Children
            \o SubSeq(Workloads, MixPlace + 1, Len(Workloads))

\* The threads of one workload, from its entry in the plan or from
\* S3AIBENCH_WORKLOAD_<NAME>_THREADS (applyWorkloadEnv), end in
\* cfg.Workloads[i].Threads, which only the hash reads; for a child of a mix
\* nobody looks them up.  So who has such a setting is kept, and it does nothing.
Resolve ==
    \E flag \in Usable(FlagThreads), env \in Usable(EnvThreads), plan \in PlanThreads,
       own \in SUBSET OwnThreads :
        /\ layers = [flag |-> flag, env |-> env, plan |-> plan, own |-> own]
        /\ threads = Pick(flag, env, plan, DefaultThreads)

Init ==
    /\ Resolve
    /\ \E w \in {0, 1} : warm = (Pick({}, {}, w, 0) > 0)
    /\ \E flag \in Usable({0}) : duration = Pick(flag, {}, 0, 1)
    /\ \E plan \in Usable(BOOLEAN) : prepopulate = PickBool({}, {}, plan, TRUE)
    /\ main = "start" /\ turn = 1 /\ prepared = {} /\ unprepared = {}
    /\ at = [ph \in Phases |-> [l \in Leaves |-> "off"]]
    /\ given = [ph \in Phases |-> [l \in Leaves |-> 0]]
    /\ mixAt = [ph \in Phases |-> "off"] /\ errCh = [ph \in Phases |-> 0]
    /\ ctxDone = {} /\ collected = {}
-----------------------------------------------------------------------------
(* runner.Run.                                                             *)

\* Without a positive duration it returns an error.
Start ==
    /\ main = "start"
    /\ main' = IF duration <= 0 THEN "refused"
               ELSE IF prepopulate THEN "populate"
               ELSE IF warm THEN "warmup" ELSE "measure"
    /\ UNCHANGED <<config, populating, running, ctxDone, collected>>

\* A Prepopulate that fails is noted and the next workload is up; a mix leaves
\* out its other children.  GiveUp would end the loop, RetryFailed try again.
GiveUp(i) == Len(Flat) + 1
RetryFailed(i) == i
SkipFailed(i) == IF Flat[i] \in Kids THEN AfterMix ELSE i + 1

Populate ==
    /\ main = "populate" /\ turn <= Len(Flat)
    /\ prepared' = prepared \cup {Flat[turn]}
    /\ \/ turn' = turn + 1 /\ UNCHANGED unprepared
       \/ turn' = SkipFailed(turn) /\ unprepared' = unprepared \cup {Flat[turn]}
    /\ UNCHANGED <<config, main, running, ctxDone, collected>>

Populated ==
    /\ main = "populate" /\ turn > Len(Flat)
    /\ main' = IF warm THEN "warmup" ELSE "measure"
    /\ UNCHANGED <<config, populating, running, ctxDone, collected>>

\* The timeout of the phase fires.
Endless(ph) == ph = "warmup"
HasTimeout(ph) == TRUE

ContextDone(ph) ==
    /\ main = ph /\ ph \notin ctxDone /\ HasTimeout(ph)
    /\ ctxDone' = ctxDone \cup {ph}
    /\ UNCHANGED <<config, main, populating, running, collected>>

\* wg.Wait of runConcurrent: every workload is back; then the context of the
\* phase is cancelled.
SomeBack(ph) == (\E l \in Leaves \ Kids : at[ph][l] = "back") \/ mixAt[ph] = "back"
AllBack(ph) == (\A l \in Leaves \ Kids : at[ph][l] = "back") /\ mixAt[ph] = "back"

PhaseReturns(ph) ==
    /\ main = ph /\ AllBack(ph)
    /\ main' = IF ph = "warmup" THEN "measure" ELSE "returned"
    /\ ctxDone' = ctxDone \cup {ph}
    /\ UNCHANGED <<config, populating, running, collected>>
-----------------------------------------------------------------------------
(* Run of the workloads.                                                   *)

\* parseNested: a weight that is not positive counts as 1.
Weight(k) == IF PlanWeight[k] <= 0 THEN 1 ELSE PlanWeight[k]
TotalTo[n \in 0 .. Len(Children)] ==
    IF n = 0 THEN 0 ELSE TotalTo[n - 1] + Weight(Children[n])
Total == TotalTo[Len(Children)]

\* A child's share of the threads, at least one; ShareDividedFirst divides
\* before it multiplies.
AtLeastOne(n) == IF n < 1 THEN 1 ELSE n
ShareDividedFirst(k) == AtLeastOne((threads \div Total) * Weight(k))
Share(k) == AtLeastOne((threads * Weight(k)) \div Total)

StartLeaf(l, ph) ==
    /\ main = ph /\ l \notin Kids /\ at[ph][l] = "off"
    /\ at' = [at EXCEPT ![ph][l] = "run"]
    /\ given' = [given EXCEPT ![ph][l] = threads]
    /\ UNCHANGED <<config, main, populating, mixAt, errCh, ctxDone, collected>>

StartMix(ph) ==
    /\ main = ph /\ mixAt[ph] = "off"
    /\ mixAt' = [mixAt EXCEPT ![ph] = "wait"]
    /\ at' = [at EXCEPT ![ph] =
                 [l \in Leaves |-> IF l \in Kids THEN "run" ELSE at[ph][l]]]
    /\ given' = [given EXCEPT ![ph] =
                    [l \in Leaves |-> IF l \in Kids THEN Share(l) ELSE given[ph][l]]]
    /\ UNCHANGED <<config, main, populating, errCh, ctxDone, collected>>

\* The goroutines Run starts: as many as it is given threads, but a checkpoint
\* starts its writers and looks at no threads.  Not one, and Run refuses.
Goroutines(l, ph) == IF l \in Checkpoints THEN Writers ELSE given[ph][l]

\* An operation goes to the recorder of the phase.
Collects(ph) == ph = "measure"

Operate(l, ph) ==
    /\ at[ph][l] = "run" /\ Goroutines(l, ph) > 0
    /\ collected' = IF Collects(ph) THEN collected \cup {ph} ELSE collected
    /\ UNCHANGED <<config, main, populating, running, ctxDone>>

\* Run returns nil, because its context is done.
LeafReturns(l, ph) ==
    /\ at[ph][l] = "run" /\ Goroutines(l, ph) > 0 /\ ph \in ctxDone
    /\ at' = [at EXCEPT ![ph][l] = "back"]
    /\ UNCHANGED <<config, main, populating, given, mixAt, errCh, ctxDone, collected>>

\* Run returns an error, at once without goroutines.  It is dropped if the context
\* is done by now; that of a child goes to the channel, others are logged.
LeafFails(l, ph) ==
    /\ at[ph][l] = "run"
    /\ at' = [at EXCEPT ![ph][l] = IF l \in Kids /\ ph \notin ctxDone THEN "send" ELSE "back"]
    /\ UNCHANGED <<config, main, populating, given, mixAt, errCh, ctxDone, collected>>

\* The channel has room for an error of every child: nobody receives until all
\* of them are through.
Capacity == Len(Children)

SendError(k, ph) ==
    /\ at[ph][k] = "send" /\ errCh[ph] < Capacity
    /\ errCh' = [errCh EXCEPT ![ph] = @ + 1]
    /\ at' = [at EXCEPT ![ph][k] = "back"]
    /\ UNCHANGED <<config, main, populating, given, mixAt, ctxDone, collected>>

\* The children are through; the channel is closed and drained, and the mix
\* returns what was in it as one error.
MixReturns(ph) ==
    /\ mixAt[ph] = "wait" /\ \A k \in Kids : at[ph][k] = "back"
    /\ mixAt' = [mixAt EXCEPT ![ph] = "back"]
    /\ errCh' = [errCh EXCEPT ![ph] = 0]
    /\ UNCHANGED <<config, main, populating, at, given, ctxDone, collected>>

LeafEnds(l, ph) == LeafReturns(l, ph) \/ LeafFails(l, ph) \/ SendError(l, ph)

\* What must happen in the end: an error need not, except without goroutines.
LeafMustEnd(l, ph) ==
    \/ LeafReturns(l, ph) \/ SendError(l, ph)
    \/ Goroutines(l, ph) <= 0 /\ LeafFails(l, ph)

Terminated == main \in {"returned", "refused"} /\ UNCHANGED vars

Next ==
    \/ Start \/ Populate \/ Populated
    \/ \E ph \in Phases :
          \/ ContextDone(ph) \/ PhaseReturns(ph) \/ StartMix(ph) \/ MixReturns(ph)
          \/ \E l \in Leaves : StartLeaf(l, ph) \/ Operate(l, ph) \/ LeafEnds(l, ph)
    \/ Terminated

Spec == Init /\ [][Next]_vars

\* Goroutines run, requests return and timeouts fire.
Fairness ==
    /\ WF_vars(Start) /\ WF_vars(Populate) /\ WF_vars(Populated)
    /\ \A ph \in Phases :
          /\ WF_vars(ContextDone(ph)) /\ WF_vars(PhaseReturns(ph))
          /\ WF_vars(StartMix(ph)) /\ WF_vars(MixReturns(ph))
          /\ \A l \in Leaves : WF_vars(StartLeaf(l, ph)) /\ WF_vars(LeafMustEnd(l, ph))

FairSpec == Spec /\ Fairness
-----------------------------------------------------------------------------
(* Properties.                                                             *)

\* Type correctness; nothing is prepopulated twice.
TypeOK ==
    /\ threads \in Int /\ {warm, prepopulate} \subseteq BOOLEAN /\ duration \in {0, 1}
    /\ main \in Phases \cup {"start", "populate", "returned", "refused"}
    /\ turn \in 1 .. Len(Flat) + 1 /\ \A i \in turn .. Len(Flat) : Flat[i] \notin prepared
    /\ unprepared \subseteq prepared /\ prepared \subseteq Leaves
    /\ at \in [Phases -> [Leaves -> {"off", "run", "send", "back"}]]
    /\ given \in [Phases -> [Leaves -> Int]]
    /\ mixAt \in [Phases -> {"off", "wait", "back"}]
    /\ errCh \in [Phases -> 0 .. Len(Children)]
    /\ ctxDone \subseteq Phases /\ collected \subseteq Phases

\* A workload object is inside one Run at a time, although warmup and
\* measurement call it with no lock between them, and the report counts
\* operations of the measurement only (runner.go:81-89, 110).
PhasesSeparate ==
    /\ \A l, k \in Leaves : ~(/\ at["warmup"][l] \in {"run", "send"}
                              /\ at["measure"][k] # "off")
    /\ collected \subseteq {"measure"}

\* Nobody runs unprepared because another one could not be prepared: only the
\* children that follow a failed child of the mix are skipped (runner.go:72-79,
\* mix.go:99-108).
PreparedBeforeRun ==
    \A l \in Leaves, ph \in Phases :
        at[ph][l] = "run" /\ prepopulate /\ l \notin prepared =>
            l \in Kids /\ unprepared \cap Kids # {}

\* Prepopulate, warmup and measurement of every workload follow one another,
\* whatever fails in between.
PhasesInOrder == PhasesSeparate /\ PreparedBeforeRun

\* A workload with no threads of its own runs with the number of the highest
\* layer of defaults.threads that has one.  The children of a mix get their
\* quota of it, never off by a whole thread, except that none is left without
\* (README.md:71-85, mix.go:110-112).  Nothing is said of a workload that has its
\* own setting, which README.md:99 promises and nobody reads, nor of a
\* checkpoint, which starts its writers instead (checkpoint.go:68-75).
Configured ==
    LET ranked == <<layers.flag, layers.env, {layers.plan} \ {0}, {DefaultThreads}>>
    IN Only(ranked[Min({i \in 1 .. 4 : ranked[i] # {}})])

\* The leaves whose threads come from defaults.threads.
ByDefaults == {l \in Leaves \ (Checkpoints \cup layers.own) :
                  l \in Kids => Mix \notin layers.own}

ThreadsAsConfigured ==
    \A l \in ByDefaults, ph \in Phases : at[ph][l] # "off" =>
        IF l \in Kids
        THEN /\ given[ph][l] >= 1
             /\ given[ph][l] = 1 \/ given[ph][l] * Total <= Configured * Weight(l)
             /\ (given[ph][l] + 1) * Total > Configured * Weight(l)
        ELSE given[ph][l] = Configured

\* runner.Run returns, whatever fails and however many children send an error.
RunnerReturns == <>(main \in {"returned", "refused"})
=============================================================================
