----------------------------- MODULE RunCommand -----------------------------
(***************************************************************************)
(* The commands `run` (internal/cli/run.go) and `cleanup`                  *)
(* (internal/cli/cleanup.go) with the bucket guard and the sweep of        *)
(* internal/safety, working on one bucket that other programs may use too. *)
(*                                                                         *)
(* Every Run process is one invocation of `run`, named by the ULID it      *)
(* draws; every Cleaner is one invocation of `cleanup` on the same plan.   *)
(* A step is one request to the store or one transition of a command.      *)
(* What the workloads do inside runner.Run is abstracted to the puts and   *)
(* deletes they issue; Checkpoint and KeyedWorkload show them in detail.   *)
(* The store is external: a request may fail with or without an effect,    *)
(* and a put that was given up may take effect later.                      *)
(***************************************************************************)
EXTENDS Naturals, FiniteSets, KeyPrefix

CONSTANTS
    Base,         \* cfg.Prefix as the plan resolves it, a sequence of tokens
    Runs,         \* the run ids, each a token
    Cleaners,     \* invocations of the cleanup command
    Foreign,      \* keys of other programs
    AllowShared,  \* cfg.AllowSharedBucket
    CleanupOn,    \* cfg.Cleanup
    PageSize,     \* keys per page of the sweep (1000 in the code)
    MaxObjects,   \* bound: puts of one run
    MaxFaults,    \* bound: failures of the store or the host
    MaxSignals,   \* bound: processes that are interrupted or killed
    MaxLimbo      \* bound: puts that may take effect late

ASSUME RunCommandAssumption ==
    /\ Base \in Seq(Nat) /\ Runs \subseteq Nat \ {Slash} /\ IsFiniteSet(Runs)
    /\ Foreign \subseteq Seq(Nat) /\ IsFiniteSet(Foreign) /\ Runs \cap Cleaners = {}
    /\ AllowShared \in BOOLEAN /\ CleanupOn \in BOOLEAN
    /\ PageSize \in Nat \ {0} /\ MaxObjects \in Nat
    /\ MaxFaults \in Nat /\ MaxSignals \in Nat /\ MaxLimbo \in Nat

Procs == Runs \cup Cleaners
CheckSize == 5                     \* keys CheckBucket asks for
Objects == 1 .. MaxObjects         \* the keys a run's workloads write
NoRun == 0                         \* the owner of foreign objects

VARIABLES
    bucket,     \* objects, each a key and the run that put it
    limbo,      \* puts that failed and may still take effect
    pc,         \* where each process is
    exit,       \* how it ended
    attempted,  \* objects each run has put or tried to
    tracked,    \* keys its workloads will delete in their Cleanup
    page,       \* keys of the current page still to delete
    token,      \* the continuation token: the last key of the page
    more,       \* the page was truncated
    signalled,  \* processes that were interrupted: their context is done
    faulted,    \* history: processes that met a failure
    late,       \* history: objects that appeared after their run's Run
    before      \* history: the bucket when each Cleaner started

sweepVars == <<page, token, more>>
histVars == <<signalled, faulted, late, before>>
vars == <<bucket, limbo, pc, exit, attempted, tracked, sweepVars, histVars>>

Init ==
    /\ bucket = {[key |-> k, by |-> NoRun] : k \in Foreign} /\ limbo = {}
    /\ pc = [p \in Procs |-> "start"] /\ exit = [p \in Procs |-> "none"]
    /\ attempted = [p \in Runs |-> {}] /\ tracked = [p \in Runs |-> {}]
    /\ page = [p \in Procs |-> {}] /\ token = [p \in Procs |-> <<>>]
    /\ more = [p \in Procs |-> FALSE]
    /\ signalled = {} /\ faulted = {} /\ late = {}
    /\ before = [p \in Cleaners |-> {}]
-----------------------------------------------------------------------------
(* Keys.                                                                   *)

\* cfg.Prefix of a process: `run` appends its ULID, `cleanup` does not.
SharedPrefix(p) == Base
CfgPrefix(p) == IF p \in Runs THEN Base \o <<p, Slash>> ELSE Base

\* AWS.key: the client joins the prefix it was built with to every key.
Key(p, k) == JoinPrefix(CfgPrefix(p), k)

\* List(prefix, token): one page of the keys under prefix, after the token.
\* ListRoot is a client that lists the bucket instead.
ListRoot(p, prefix, after) == {o.key : o \in {x \in bucket : Before(after, x.key)}}
Listed(p, prefix, after) ==
    {o.key : o \in {x \in bucket : /\ IsPrefix(Key(p, prefix), x.key)
                                   /\ Before(after, x.key)}}

Holds(key) == \E o \in bucket : o.key = key
Removed(key) == {o \in bucket : o.key # key}
Stored(o) == Removed(o.key) \cup {o}

FirstOf(keys, n) == {k \in keys : Cardinality({j \in keys : Before(j, k)}) < n}
Greatest(keys) == CHOOSE k \in keys : \A j \in keys : ~Before(k, j)

\* The prefix the sweep passes to List.
SweepPrefix(p) == Slashed(CfgPrefix(p))
-----------------------------------------------------------------------------
(* Failures.                                                               *)

\* Something fails on its own account.
Faults(p) ==
    /\ faulted' = faulted \cup {p}
    /\ Cardinality(faulted') <= MaxFaults

\* A request fails: it must if the process was interrupted, because its context
\* is done, and otherwise it may.
Fails(p) == IF p \in signalled THEN UNCHANGED faulted ELSE Faults(p)

Exit(p, how) ==
    /\ pc' = [pc EXCEPT ![p] = "exited"]
    /\ exit' = [exit EXCEPT ![p] = how]

\* The process gets SIGINT or SIGTERM; only its context learns of it.
Interrupt(p) ==
    /\ pc[p] # "exited" /\ p \notin signalled
    /\ Cardinality(signalled) < MaxSignals
    /\ signalled' = signalled \cup {p}
    /\ UNCHANGED <<bucket, limbo, pc, exit, attempted, tracked, sweepVars, faulted,
                   late, before>>

\* The process is killed or the host goes down.
Kill(p) ==
    /\ pc[p] # "exited"
    /\ Cardinality(signalled \cup {p}) <= MaxSignals
    /\ signalled' = signalled \cup {p}
    /\ Exit(p, "killed")
    /\ UNCHANGED <<bucket, limbo, attempted, tracked, sweepVars, faulted, late, before>>

\* A put that was given up takes effect.
Land(o) ==
    /\ o \in limbo
    /\ bucket' = Stored(o) /\ limbo' = limbo \ {o}
    /\ late' = IF pc[o.by] = "drive" THEN late ELSE late \cup {o}
    /\ UNCHANGED <<pc, exit, attempted, tracked, sweepVars, signalled, faulted, before>>
-----------------------------------------------------------------------------
(* doRun, up to the report.                                                *)

\* mkClient, CheckBucket and workload.Build.  The guard lists the root through
\* the client of the run and refuses if it sees a key outside the run's prefix.
CheckPage(p) == FirstOf(Listed(p, <<>>, <<>>), CheckSize)

Proceeds(p) ==
    AllowShared \/ \A k \in CheckPage(p) : IsPrefix(Slashed(CfgPrefix(p)), k)

Check(p) ==
    /\ pc[p] = "start" /\ (AllowShared \/ p \notin signalled)
    /\ pc' = [pc EXCEPT ![p] = IF Proceeds(p) THEN "drive" ELSE "exited"]
    /\ exit' = [exit EXCEPT ![p] = IF Proceeds(p) THEN @ ELSE "refused"]
    /\ UNCHANGED <<bucket, limbo, attempted, tracked, sweepVars, histVars>>

\* An error of the client factory, of CheckBucket, Build, runner.Run or the
\* report ends the command at once.
CommandFails(p) ==
    /\ pc[p] \in {"start", "drive", "report"}
    /\ IF pc[p] = "start" /\ ~AllowShared THEN Fails(p) ELSE Faults(p)
    /\ Exit(p, "error")
    /\ UNCHANGED <<bucket, limbo, attempted, tracked, sweepVars, signalled, late, before>>

\* runner.Run: a workload puts an object.  Every outcome only reaches the
\* recorder.  A workload that counts claims tracks the key whatever happens,
\* one that appends on success only then.
Put(p, n) ==
    LET o == [key |-> Key(p, <<n>>), by |-> p] IN
    /\ pc[p] = "drive" /\ n \notin attempted[p]
    /\ attempted' = [attempted EXCEPT ![p] = @ \cup {n}]
    /\ \/ /\ p \notin signalled
          /\ bucket' = Stored(o) /\ UNCHANGED limbo
          /\ tracked' = [tracked EXCEPT ![p] = @ \cup {<<n>>}]
       \/ /\ \/ UNCHANGED <<bucket, limbo>>
             \/ bucket' = Stored(o) /\ UNCHANGED limbo
             \/ /\ Cardinality(limbo) + Cardinality(late) < MaxLimbo
                /\ limbo' = limbo \cup {o} /\ UNCHANGED bucket
          /\ tracked' \in {tracked, [tracked EXCEPT ![p] = @ \cup {<<n>>}]}
    /\ UNCHANGED <<pc, exit, sweepVars, histVars>>

\* A workload deletes an object it put (checkpoint's retain trim): it drops the
\* key first, and a delete that fails is only recorded.
Trim(p) ==
    /\ pc[p] = "drive"
    /\ \E k \in tracked[p] :
          /\ bucket' \in {bucket, Removed(Key(p, k))}
          /\ tracked' = [tracked EXCEPT ![p] = @ \ {k}]
    /\ UNCHANGED <<limbo, pc, exit, attempted, sweepVars, histVars>>

\* The measurement window is over (or the context done): runner.Run returns nil.
RunReturns(p) ==
    /\ pc[p] = "drive"
    /\ pc' = [pc EXCEPT ![p] = "report"]
    /\ UNCHANGED <<bucket, limbo, exit, attempted, tracked, sweepVars, histVars>>

\* writeReports succeeds; without cfg.Cleanup that is the end.
ReportOK(p) ==
    /\ pc[p] = "report"
    /\ \/ CleanupOn /\ pc' = [pc EXCEPT ![p] = "cleanup"] /\ UNCHANGED exit
       \/ ~CleanupOn /\ Exit(p, "ok")
    /\ UNCHANGED <<bucket, limbo, attempted, tracked, sweepVars, histVars>>
-----------------------------------------------------------------------------
(* Deleting.                                                               *)

\* The replies to a delete of key: done, or NotFound if it is not there.
Replies(key) == {"done"} \cup (IF Holds(key) THEN {} ELSE {"notFound"})

\* IsNotFound counts as done; NotFoundIsError passes it on.
NotFoundIsError == {"done"}
Accepted == {"done", "notFound"}

DeleteOK(key) ==
    /\ Replies(key) \cap Accepted # {}
    /\ bucket' = Removed(key)

\* Workload.Cleanup of every workload, one delete after the other.
WorkloadDelete(p) ==
    /\ pc[p] = "cleanup" /\ p \notin signalled
    /\ \E k \in tracked[p] :
          /\ DeleteOK(Key(p, k))
          /\ tracked' = [tracked EXCEPT ![p] = @ \ {k}]
    /\ UNCHANGED <<limbo, pc, exit, attempted, sweepVars, histVars>>

WorkloadsCleaned(p) ==
    /\ pc[p] = "cleanup" /\ tracked[p] = {}
    /\ pc' = [pc EXCEPT ![p] = "list"]
    /\ UNCHANGED <<bucket, limbo, exit, attempted, tracked, sweepVars, histVars>>

\* `cleanup` sweeps at once.
StartCleaner(p) ==
    /\ p \in Cleaners /\ pc[p] = "start"
    /\ pc' = [pc EXCEPT ![p] = "list"]
    /\ before' = [before EXCEPT ![p] = bucket]
    /\ UNCHANGED <<bucket, limbo, exit, attempted, tracked, sweepVars, signalled,
                   faulted, late>>

\* One page of safety.Cleanup; FirstPageOnly forgets the continuation.
FirstPageOnly(keys) == FALSE
Truncated(keys) == Cardinality(keys) > PageSize

ListPage(p) ==
    LET keys == Listed(p, SweepPrefix(p), token[p])
        got == FirstOf(keys, PageSize) IN
    /\ pc[p] = "list" /\ p \notin signalled
    /\ page' = [page EXCEPT ![p] = got]
    /\ more' = [more EXCEPT ![p] = Truncated(keys)]
    /\ token' = [token EXCEPT ![p] = IF got = {} THEN @ ELSE Greatest(got)]
    /\ pc' = [pc EXCEPT ![p] = "delete"]
    /\ UNCHANGED <<bucket, limbo, exit, attempted, tracked, histVars>>

\* The keys of a page are deleted in order.  The client joins its prefix to
\* the key that List returned.
SweepDelete(p) ==
    /\ pc[p] = "delete" /\ p \notin signalled
    /\ \E k \in FirstOf(page[p], 1) :
          /\ DeleteOK(Key(p, k))
          /\ page' = [page EXCEPT ![p] = @ \ {k}]
    /\ UNCHANGED <<limbo, pc, exit, attempted, tracked, token, more, histVars>>

NextPage(p) ==
    /\ pc[p] = "delete" /\ page[p] = {} /\ more[p]
    /\ pc' = [pc EXCEPT ![p] = "list"]
    /\ UNCHANGED <<bucket, limbo, exit, attempted, tracked, sweepVars, histVars>>

SweepReturns(p) ==
    /\ pc[p] = "delete" /\ page[p] = {} /\ ~more[p]
    /\ Exit(p, "ok")
    /\ UNCHANGED <<bucket, limbo, attempted, tracked, sweepVars, histVars>>

\* The key of the delete in flight, if there is one.
InFlight(p) ==
    CASE pc[p] = "cleanup" -> {Key(p, k) : k \in tracked[p]}
      [] pc[p] = "delete" -> {Key(p, k) : k \in FirstOf(page[p], 1)}
      [] OTHER -> {}

\* The first request that fails ends the command; a failed delete may have
\* taken effect.
CleaningFails(p) ==
    /\ pc[p] = "list" \/ InFlight(p) # {}
    /\ IF \E key \in InFlight(p) : Replies(key) \ Accepted # {}
       THEN UNCHANGED faulted ELSE Fails(p)
    /\ Exit(p, "error")
    /\ \/ UNCHANGED bucket
       \/ \E key \in InFlight(p) : bucket' = Removed(key)
    /\ UNCHANGED <<limbo, attempted, tracked, sweepVars, signalled, late, before>>
-----------------------------------------------------------------------------
Driving(p) == \/ Check(p) \/ CommandFails(p)
              \/ \E n \in Objects : Put(p, n)
              \/ Trim(p) \/ RunReturns(p) \/ ReportOK(p)
              \/ WorkloadDelete(p) \/ WorkloadsCleaned(p)
Sweeping(p) == \/ ListPage(p) \/ SweepDelete(p) \/ NextPage(p)
               \/ SweepReturns(p) \/ CleaningFails(p)

Terminated == (\A p \in Procs : pc[p] = "exited") /\ UNCHANGED vars

Next ==
    \/ \E p \in Runs : Driving(p)
    \/ \E p \in Cleaners : StartCleaner(p)
    \/ \E p \in Procs : Sweeping(p) \/ Interrupt(p) \/ Kill(p)
    \/ \E o \in limbo : Land(o)
    \/ Terminated

Spec == Init /\ [][Next]_vars
-----------------------------------------------------------------------------
(* Properties.                                                             *)

Mine(r) == {o \in bucket : o.by = r}

\* Type correctness; a sweep only ever holds keys of its own prefix.
TypeOK ==
    /\ \A o \in bucket \cup limbo : o.key \in Seq(Nat) /\ o.by \in Runs \cup {NoRun}
    /\ pc \in [Procs -> {"start", "drive", "report", "cleanup", "list", "delete",
                         "exited"}]
    /\ exit \in [Procs -> {"none", "ok", "refused", "error", "killed"}]
    /\ \A p \in Procs : exit[p] # "none" <=> pc[p] = "exited"
    /\ attempted \in [Runs -> SUBSET Objects]
    /\ \A r \in Runs : tracked[r] \subseteq {<<n>> : n \in attempted[r]}
    /\ \A p \in Procs : \A k \in page[p] : IsPrefix(SweepPrefix(p), k)
    /\ more \in [Procs -> BOOLEAN] /\ token \in [Procs -> Seq(Nat)]
    /\ signalled \subseteq Procs /\ faulted \subseteq Procs
    /\ \A o \in late : o.by \in Runs

\* No command touches an object of another program outside the plan's prefix,
\* whatever is in the bucket, interrupted or not.
ForeignUntouched ==
    \A k \in Foreign : ~IsPrefix(Slashed(Base), k) => [key |-> k, by |-> NoRun] \in bucket

\* An object of a run disappears only while this run drives or cleans up, or
\* while a `cleanup` command sweeps; runs never disturb each other.
RunsIsolated ==
    [][\A r \in Runs :
          Mine(r) \ bucket' # {} =>
              \/ pc[r] \in {"drive", "cleanup", "delete"}
              \/ \E c \in Cleaners : pc[c] = "delete"]_vars

\* A run that succeeded with cleanup on left none of its objects: whatever its
\* workloads did not track, the sweep found.  Puts that took effect after
\* runner.Run returned are the exception.
CleanExit ==
    CleanupOn => \A r \in Runs : exit[r] = "ok" => Mine(r) \subseteq late

\* Recovery: when `cleanup` succeeds, what runs had left under the plan's prefix
\* when it started is gone, after kills and interrupts too, however many pages
\* it took and although runs sweep the same keys at once (README.md:62, 98).
CleanupRecovers ==
    \A c \in Cleaners : exit[c] = "ok" =>
        \A o \in before[c] : IsPrefix(Base, o.key) /\ o.by \in Runs => o \notin bucket

\* A command reports an error only if something failed or it was interrupted;
\* deleting what another command deleted already is no error.
ErrorHasCause ==
    \A p \in Procs : exit[p] = "error" => p \in signalled \cup faulted

\* What the docs promise and the code does not do (violated):
\* a run refuses a bucket with foreign objects (safety.go:19-20) ...
SharedBucketRefused ==
    ~AllowShared /\ Foreign # {} => \A r \in Runs : pc[r] # "drive"

\* ... and with cleanup on deletes its objects on exit
\* (s3-ai-benchmark-prd.md:184).
CleanedOnExit ==
    CleanupOn => \A r \in Runs :
        pc[r] = "exited" /\ exit[r] # "killed" => Mine(r) \subseteq late
=============================================================================
