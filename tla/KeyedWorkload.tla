--------------------------- MODULE KeyedWorkload ----------------------------
(***************************************************************************)
(* The small_objects workload (internal/workload/smallobj); large_objects  *)
(* (internal/workload/largeobj) is the same algorithm over RangeGet and    *)
(* MultipartUpload.  Threads claim key indices with one atomic counter,    *)
(* PUT and GET by index, and Cleanup deletes every claimed index.          *)
(*                                                                         *)
(* A step is one atomic access to writtenCount or one reply of the object  *)
(* store.  The store is external: a DELETE that fails may or may not have  *)
(* taken effect; a PUT that fails may have taken effect, may take effect   *)
(* at any later time, also after Cleanup deleted its key, or never.        *)
(***************************************************************************)
EXTENDS Naturals, FiniteSets

CONSTANTS
    Threads,     \* the goroutines of Run; Run refuses threads <= 0 (82-84)
    Reads,       \* some iterations read (read_ratio > 0)
    Writes,      \* some iterations write (read_ratio < 1)
    MaxCount,    \* bound: value of writtenCount
    MaxFailed    \* bound: distinct keys with a failed request

ASSUME KeyedAssumption ==
    /\ IsFiniteSet(Threads) /\ Threads # {}
    /\ Reads \in BOOLEAN /\ Writes \in BOOLEAN /\ (Reads \/ Writes)
    /\ MaxCount \in Nat /\ MaxFailed \in Nat

MaxRuns == 2                     \* runner.Run: warmup, then measurement

VARIABLES
    store,           \* indices whose key is in the bucket
    writtenCount,    \* Workload.writtenCount
    pc,              \* where each thread is
    idx,             \* the index its request is for
    main,            \* what the caller is doing
    runs,            \* calls of Run so far
    ctxDone,         \* the context of the current Run is done
    next,            \* Cleanup's loop variable
    limit,           \* Cleanup's copy of writtenCount
    puts,            \* OpPut records handed to the recorder
    limbo,           \* indices whose PUT was given up and may yet take effect
    prepared,        \* history: a Prepopulate succeeded
    failed,          \* history: indices with a request that returned an error
    late             \* history: indices stored by such a PUT after their delete

callerVars == <<main, runs, ctxDone, next, limit, prepared>>
lateVars == <<limbo, late>>
vars == <<store, writtenCount, pc, idx, puts, failed, callerVars, lateVars>>

Init ==
    /\ store = {} /\ failed = {} /\ limbo = {} /\ late = {} /\ writtenCount = 0
    /\ pc = [t \in Threads |-> "off"] /\ idx = [t \in Threads |-> 0]
    /\ main = "start" /\ runs = 0 /\ ctxDone = FALSE
    /\ next = 0 /\ limit = 0 /\ puts = 0 /\ prepared = FALSE
-----------------------------------------------------------------------------
(* The object store.                                                       *)

Fail(k) ==
    /\ Cardinality(failed \cup {k}) <= MaxFailed
    /\ failed' = failed \cup {k}

PutOK(k) == store' = store \cup {k} /\ UNCHANGED <<failed, lateVars>>

\* The object is there although the PUT reported an error, or the PUT is still
\* under way when its caller gives it up.
PutError(k) ==
    /\ Fail(k)
    /\ \/ store' = store \cup {k} /\ UNCHANGED lateVars
       \/ limbo' = limbo \cup {k} /\ UNCHANGED <<store, late>>

\* A delete that takes effect late only removes what Cleanup is to remove.
DeleteOK(k) == store' = store \ {k} /\ UNCHANGED <<failed, lateVars>>
DeleteError(k) == Fail(k) /\ store' \in {store, store \ {k}} /\ UNCHANGED lateVars

\* Cleanup has had the delete of k answered.
Deleted(k) == main \in {"cleanup", "cleaned", "cleanupFailed"} /\ k < next

\* A PUT that was given up takes effect after all; one that never does is lost.
Land(k) ==
    /\ limbo' = limbo \ {k} /\ store' = store \cup {k}
    /\ late' = IF Deleted(k) THEN late \cup {k} ELSE late
    /\ UNCHANGED <<writtenCount, pc, idx, puts, failed, callerVars>>
-----------------------------------------------------------------------------
(* One thread of Run.                                                      *)

Writing == {t \in Threads : pc[t] = "put"}

\* The bound: every write that was started finds room below MaxCount.
MayWrite == writtenCount + Cardinality({t \in Threads : pc[t] = "write"}) < MaxCount

\* The loop condition, ctx.Err() == nil.
LoopsForever == TRUE
LoopsOn == ~ctxDone

\* Every iteration first looks at the context, then draws reading or writing.
Iterate(t) ==
    /\ pc[t] = "loop"
    /\ IF LoopsOn
       THEN \/ Reads /\ pc' = [pc EXCEPT ![t] = "read"]
            \/ Writes /\ MayWrite /\ pc' = [pc EXCEPT ![t] = "write"]
       ELSE pc' = [pc EXCEPT ![t] = "off"]
    /\ UNCHANGED <<store, writtenCount, idx, puts, failed, callerVars, lateVars>>

\* writtenCount.Add(1); AddRaced is a Load and a Store.
AddRaced == IF Writing # {} THEN writtenCount ELSE writtenCount + 1
Add == writtenCount + 1

\* The index is claimed before the PUT, so that Cleanup knows it in any case.
Claim(t) ==
    /\ pc[t] = "write"
    /\ writtenCount' = Add
    /\ idx' = [idx EXCEPT ![t] = writtenCount]
    /\ pc' = [pc EXCEPT ![t] = "put"]
    /\ UNCHANGED <<store, puts, failed, callerVars, lateVars>>

\* The PUT returns and is recorded, whatever its outcome.
RecordSuccessOnly(t) == \/ PutOK(idx[t]) /\ puts' = puts + 1
                        \/ PutError(idx[t]) /\ UNCHANGED puts
PutOutcome(t) == (PutOK(idx[t]) \/ PutError(idx[t])) /\ puts' = puts + 1

PutReturns(t) ==
    /\ pc[t] = "put"
    /\ PutOutcome(t)
    /\ pc' = [pc EXCEPT ![t] = "loop"] /\ idx' = [idx EXCEPT ![t] = 0]
    /\ UNCHANGED <<writtenCount, callerVars>>

\* Int63n(cnt) is below cnt; Int63n(cnt + 1) would not be.
DrawInclusive == 0 .. writtenCount
Draw == {k \in 0 .. writtenCount : k < writtenCount}

\* writtenCount.Load(): nothing claimed, or the index of the GET.
PickRead(t) ==
    /\ pc[t] = "read"
    /\ \/ /\ writtenCount = 0
          /\ pc' = [pc EXCEPT ![t] = "loop"] /\ UNCHANGED idx
       \/ /\ writtenCount # 0
          /\ \E k \in Draw : idx' = [idx EXCEPT ![t] = k]
          /\ pc' = [pc EXCEPT ![t] = "get"]
    /\ UNCHANGED <<store, writtenCount, puts, failed, callerVars, lateVars>>

\* The GET finds the key, misses it or fails; it changes nothing.
GetReturns(t) ==
    /\ pc[t] = "get"
    /\ pc' = [pc EXCEPT ![t] = "loop"] /\ idx' = [idx EXCEPT ![t] = 0]
    /\ UNCHANGED <<store, writtenCount, puts, failed, callerVars, lateVars>>

ThreadStep(t) == \/ Iterate(t) \/ Claim(t) \/ PutReturns(t)
                 \/ PickRead(t) \/ GetReturns(t)
-----------------------------------------------------------------------------
(* The caller.                                                             *)

\* Prepopulate puts key 0 and, if that succeeded, stores 1 in writtenCount.
PrepopulateOK ==
    /\ main = "start" /\ MaxCount > 0
    /\ PutOK(0) /\ writtenCount' = 1
    /\ main' = "idle" /\ prepared' = TRUE
    /\ UNCHANGED <<pc, idx, puts, runs, ctxDone, next, limit>>

PrepopulateError ==
    /\ main = "start"
    /\ PutError(0)
    /\ main' = "idle"
    /\ UNCHANGED <<writtenCount, pc, idx, puts, runs, ctxDone, next, limit, prepared>>

\* runner.Run calls Run for the warmup and for the measurement, no more.
RunsOnceMore == runs <= MaxRuns
RunsAgain == runs < MaxRuns

\* An interrupted process hands Run a context that is already done.
StartRun ==
    /\ main \in {"start", "idle"} /\ RunsAgain
    /\ main' = "running" /\ runs' = runs + 1 /\ ctxDone' \in BOOLEAN
    /\ pc' = [t \in Threads |-> "loop"]
    /\ UNCHANGED <<store, writtenCount, idx, puts, failed, next, limit, prepared,
                   lateVars>>

ContextDone ==
    /\ main = "running" /\ ~ctxDone
    /\ ctxDone' = TRUE
    /\ UNCHANGED <<store, writtenCount, pc, idx, puts, failed, main, runs, next,
                   limit, prepared, lateVars>>

\* wg.Wait: every thread is through, not only one of them.
OneStopped == \E t \in Threads : pc[t] = "off"
AllStopped == \A t \in Threads : pc[t] = "off"

RunReturns ==
    /\ main = "running" /\ AllStopped
    /\ main' = "idle"
    /\ UNCHANGED <<store, writtenCount, pc, idx, puts, failed, runs, ctxDone, next,
                   limit, prepared, lateVars>>

StartCleanup ==
    /\ main = "idle" /\ runs > 0
    /\ main' = "cleanup" /\ next' = 0 /\ limit' = writtenCount
    /\ UNCHANGED <<store, writtenCount, pc, idx, puts, failed, runs, ctxDone, prepared,
                   lateVars>>

\* The first delete that fails, other than by NotFound, ends Cleanup.
CleanupDelete ==
    /\ main = "cleanup" /\ next < limit
    /\ \/ DeleteOK(next) /\ next' = next + 1 /\ UNCHANGED main
       \/ DeleteError(next) /\ main' = "cleanupFailed" /\ UNCHANGED next
    /\ UNCHANGED <<writtenCount, pc, idx, puts, runs, ctxDone, limit, prepared>>

CleanupReturns ==
    /\ main = "cleanup" /\ next >= limit
    /\ main' = "cleaned"
    /\ UNCHANGED <<store, writtenCount, pc, idx, puts, failed, runs, ctxDone, next,
                   limit, prepared, lateVars>>

\* The command may end without Cleanup.
Terminated ==
    /\ main \in {"idle", "cleaned", "cleanupFailed"} /\ runs > 0
    /\ UNCHANGED vars

Next ==
    \/ \E t \in Threads : ThreadStep(t)
    \/ PrepopulateOK \/ PrepopulateError \/ StartRun \/ ContextDone \/ RunReturns
    \/ StartCleanup \/ CleanupDelete \/ CleanupReturns
    \/ \E k \in limbo : Land(k)
    \/ Terminated

Spec == Init /\ [][Next]_vars

\* Goroutines run, requests return and deadlines fire.
Fairness ==
    /\ \A t \in Threads : WF_vars(ThreadStep(t))
    /\ WF_vars(ContextDone) /\ WF_vars(RunReturns)

FairSpec == Spec /\ Fairness
-----------------------------------------------------------------------------
(* Properties.                                                             *)

\* Type correctness.
TypeOK ==
    /\ store \subseteq Nat /\ failed \subseteq Nat
    /\ limbo \subseteq failed /\ late \subseteq failed
    /\ writtenCount \in Nat /\ puts \in Nat
    /\ pc \in [Threads -> {"off", "loop", "read", "write", "put", "get"}]
    /\ idx \in [Threads -> Nat]
    /\ main \in {"start", "idle", "running", "cleanup", "cleaned", "cleanupFailed"}
    /\ runs \in 0 .. MaxRuns /\ ctxDone \in BOOLEAN /\ prepared \in BOOLEAN
    /\ next \in Nat /\ limit \in Nat

\* No two threads put the same key, and none overwrites the key that
\* Prepopulate or an earlier write created (index claimed by one atomic Add).
ClaimsExclusive ==
    /\ \A t, u \in Writing : t # u => idx[t] # idx[u]
    /\ \A t \in Writing : idx[t] \in store => idx[t] = 0 /\ ~prepared

\* A read misses only a key whose PUT is still in flight or whose request
\* failed; with neither, every index below writtenCount is readable.
MissExplained ==
    \A t \in Threads : pc[t] = "get" /\ idx[t] \notin store =>
        idx[t] \in failed \/ \E u \in Writing : idx[u] = idx[t]

\* Every claimed index is recorded exactly once when its PUT returned, or is in
\* flight; an error does not lose the record.
EveryPutRecorded ==
    writtenCount = puts + Cardinality(Writing) + (IF prepared THEN 1 ELSE 0)

\* A Cleanup that succeeds leaves nothing, not even keys whose PUT reported an
\* error: it deletes the whole range of claimed indices (126-131).  Two kinds of
\* key are out of its hands.  One is a key whose PUT was given up, at the deadline
\* say, and took effect only after Cleanup had deleted it.  The other is the base
\* object of a failed Prepopulate that no writer has claimed since.
CleanupEmpties ==
    main = "cleaned" =>
        \A k \in store : k \in late \/ (k = 0 /\ writtenCount = 0 /\ 0 \in failed)

\* Under the context's deadline Run returns.
RunTerminates == main = "running" ~> main # "running"
=============================================================================
