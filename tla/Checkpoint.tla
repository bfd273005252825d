----------------------------- MODULE Checkpoint -----------------------------
(***************************************************************************)
(* The checkpointing workload (internal/workload/checkpoint): writers      *)
(* upload numbered checkpoints, keep the last Retain of them in the        *)
(* mutex-guarded list `versions' and delete the ones they push out; an     *)
(* optional resume reader re-reads the last entry of that list; Cleanup    *)
(* deletes what the list still names.  The caller is the runner: an        *)
(* optional Prepopulate, one or two calls of Run (warmup, measurement),    *)
(* and then possibly Cleanup.                                              *)
(*                                                                         *)
(* The grain is what other goroutines can see: one step per critical       *)
(* section of `mu', per atomic on `counter' and per reply of the object    *)
(* store.  The store is external.  A request that fails may or may not     *)
(* have taken effect, and whether it fails does not depend on the context: *)
(* a request in flight at the deadline can end either way.                 *)
(***************************************************************************)
EXTENDS Naturals, Sequences, FiniteSets, Functions

CONSTANTS
    Writers,     \* the goroutines Run starts
    Caller,      \* the goroutine that calls Prepopulate, Run and Cleanup
    Retain,      \* retain_versions
    Resume,      \* resume
    MaxKey,      \* bound: checkpoints claimed
    MaxFailed    \* bound: distinct keys with a failed request

\* Run refuses writers <= 0 (69-71), so it has at least one; a negative
\* retain_versions, which no factory rejects, makes the slice expression of
\* line 131 panic at the first write and is outside this model.
ASSUME CheckpointAssumption ==
    /\ IsFiniteSet(Writers) /\ Writers # {} /\ Caller \notin Writers
    /\ Retain \in Nat
    /\ Resume \in BOOLEAN
    /\ MaxKey \in Nat /\ MaxFailed \in Nat

Procs == Writers \cup {Caller}       \* everyone who may be inside writeOneAt
NoKey == 0                           \* the empty string of readLatest
Keys == 1 .. MaxKey                  \* key n stands for keyPrefix + %08d of n
MaxRuns == 2                         \* runner.Run: warmup, then measurement

VARIABLES
    store,       \* keys present in the bucket
    counter,     \* Workload.counter
    versions,    \* Workload.versions
    pc,          \* where each process is in the writer loop
    key,         \* the local `key' of writeOneAt
    toDel,       \* what is left of the local `toDel' of writeOneAt
    rpc,         \* where the resume reader is
    rkey,        \* the local `latest' of readLatest
    main,        \* what the caller is doing
    runs,        \* calls of Run so far
    ctxDone,     \* the context of the current Run is done
    doomed,      \* what is left of the local `keys' of Cleanup
    puts,        \* OpCheckpointPut records handed to the recorder
    failed,      \* history: keys with an upload or delete that returned an error
    published,   \* history: every key appended to versions, in order
    overtaken    \* history: publications since the reader picked rkey

writerVars == <<counter, versions, pc, key, toDel, published>>
readerVars == <<rpc, rkey, overtaken>>
vars == <<store, counter, versions, pc, key, toDel, rpc, rkey, main, runs,
          ctxDone, doomed, puts, failed, published, overtaken>>

Init ==
    /\ store = {} /\ failed = {}
    /\ counter = 0 /\ versions = <<>> /\ puts = 0
    /\ pc = [p \in Procs |-> "off"]
    /\ key = [p \in Procs |-> NoKey]
    /\ toDel = [p \in Procs |-> <<>>]
    /\ rpc = "off" /\ rkey = NoKey
    /\ published = <<>> /\ overtaken = 0
    /\ main = "start" /\ runs = 0 /\ ctxDone = FALSE /\ doomed = <<>>

-----------------------------------------------------------------------------
(* The object store.  Each operator says what a request leaves in the      *)
(* bucket and in the history of failures.                                  *)

Fail(k) ==
    /\ Cardinality(failed \cup {k}) <= MaxFailed
    /\ failed' = failed \cup {k}

UploadOK(k) == store' = store \cup {k} /\ UNCHANGED failed
UploadError(k) == Fail(k) /\ store' \in {store, store \cup {k}}

\* Deleting an absent key is a success or a NotFound, which the code equates.
DeleteOK(k) == store' = store \ {k} /\ UNCHANGED failed
DeleteError(k) == Fail(k) /\ store' \in {store, store \ {k}}

-----------------------------------------------------------------------------
(* writeOneAt, by a writer or by Prepopulate.                              *)

\* counter.Add(1); BumpRaced is a Load and a Store that another claim overwrites.
BumpRaced == IF \E q \in Procs : pc[q] = "upload" THEN counter ELSE counter + 1
Bump == counter + 1

\* The counter names the checkpoint; the upload starts.
Claim(p) ==
    /\ counter < MaxKey
    /\ counter' = Bump
    /\ key' = [key EXCEPT ![p] = counter + 1]
    /\ pc' = [pc EXCEPT ![p] = "upload"]

\* Where writeOneAt returns to: the writer's loop, or the runner.
Return(p) ==
    /\ pc' = [pc EXCEPT ![p] = IF p = Caller THEN "off" ELSE "select"]
    /\ main' = IF p = Caller THEN "idle" ELSE main

\* Record precedes the error return of line 123; RecordAfterReturn follows it.
RecordAfterReturn == UNCHANGED puts
RecordError == puts' = puts + 1

\* MultipartUpload returns an error: recorded, and nothing is tracked.
UploadFailed(p) ==
    /\ pc[p] = "upload"
    /\ UploadError(key[p])
    /\ RecordError
    /\ key' = [key EXCEPT ![p] = NoKey]
    /\ Return(p)
    /\ UNCHANGED <<counter, versions, toDel, published, readerVars, runs,
                   ctxDone, doomed>>

UploadSucceeded(p) ==
    /\ pc[p] = "upload"
    /\ UploadOK(key[p])
    /\ puts' = puts + 1
    /\ pc' = [pc EXCEPT ![p] = "publish"]
    /\ UNCHANGED <<counter, versions, key, toDel, published, readerVars, main,
                   runs, ctxDone, doomed>>

\* How many entries of a list of length n lie beyond the retain window.
Excess(n) == IF n > Retain THEN n - Retain ELSE 0

\* Lines 129-133 split the list into what stays and what is to be deleted.  The
\* slips a rewrite could make: splitting at the wrong end, forgetting what
\* was cut, deleting it without cutting it.
Split(all, n) == [keep |-> SubSeq(all, n + 1, Len(all)), cut |-> SubSeq(all, 1, n)]
TrimNewest(all) == LET n == Len(all) - Excess(Len(all))
                   IN [keep |-> SubSeq(all, 1, n), cut |-> SubSeq(all, n + 1, Len(all))]
TrimForgetting(all) == [keep |-> Split(all, Excess(Len(all))).keep, cut |-> <<>>]
TrimUncut(all) == [keep |-> all, cut |-> Split(all, Excess(Len(all))).cut]
Trim(all) == Split(all, Excess(Len(all)))

\* The critical section: append, and cut what lies beyond the window.
Publish(p) ==
    /\ pc[p] = "publish"
    /\ LET trimmed == Trim(Append(versions, key[p]))
       IN /\ versions' = trimmed.keep
          /\ toDel' = [toDel EXCEPT ![p] = trimmed.cut]
    /\ key' = [key EXCEPT ![p] = NoKey]
    /\ pc' = [pc EXCEPT ![p] = "delete"]
    /\ published' = Append(published, key[p])
    /\ overtaken' = overtaken + 1
    /\ UNCHANGED <<store, counter, rpc, rkey, main, runs, ctxDone, doomed,
                   puts, failed>>

\* A delete is sent whatever the context says; DeleteUntilDone gives up with it.
DeleteUntilDone(k) == IF ctxDone THEN UNCHANGED <<store, failed>> ELSE DeleteOK(k)
DeleteOutcome(k) == DeleteOK(k) \/ DeleteError(k)

\* One retain-delete returns; an error is only logged.
RetainDelete(p) ==
    /\ pc[p] = "delete" /\ toDel[p] # <<>>
    /\ DeleteOutcome(Head(toDel[p]))
    /\ toDel' = [toDel EXCEPT ![p] = Tail(@)]
    /\ UNCHANGED <<counter, versions, pc, key, published, readerVars, main,
                   runs, ctxDone, doomed, puts>>

WriteDone(p) ==
    /\ pc[p] = "delete" /\ toDel[p] = <<>>
    /\ Return(p)
    /\ UNCHANGED <<store, counter, versions, key, toDel, published, readerVars,
                   runs, ctxDone, doomed, puts, failed>>

WriteStep(p) == \/ UploadSucceeded(p) \/ UploadFailed(p) \/ Publish(p)
                \/ RetainDelete(p) \/ WriteDone(p)
-----------------------------------------------------------------------------
(* The writer loop's select: both cases may be ready, and then either is   *)
(* taken, so a writer can start uploads after the deadline.                *)

TimerFires(w) ==
    /\ pc[w] = "select"
    /\ Claim(w)
    /\ UNCHANGED <<store, versions, toDel, published, readerVars, main, runs,
                   ctxDone, doomed, puts, failed>>

WriterStops(w) ==
    /\ pc[w] = "select" /\ ctxDone
    /\ pc' = [pc EXCEPT ![w] = "off"]
    /\ UNCHANGED <<store, counter, versions, key, toDel, published, readerVars,
                   main, runs, ctxDone, doomed, puts, failed>>

-----------------------------------------------------------------------------
(* The resume reader.                                                      *)

\* The loop condition, ctx.Err() == nil; without it the reader never stops.
ReadsForever == TRUE
ReadsOn == ~ctxDone

ReaderLoop ==
    /\ rpc = "loop"
    /\ rpc' = IF ReadsOn THEN "pick" ELSE "off"
    /\ UNCHANGED <<store, writerVars, rkey, overtaken, main, runs, ctxDone,
                   doomed, puts, failed>>

\* The entry readLatest picks; the first one would be the oldest.
OldestEntry == versions[1]
LatestEntry == versions[Len(versions)]

\* The critical section of readLatest; with nothing tracked it returns.
PickLatest ==
    /\ rpc = "pick"
    /\ IF versions = <<>>
       THEN rpc' = "loop" /\ UNCHANGED <<rkey, overtaken>>
       ELSE /\ rpc' = "get"
            /\ rkey' = LatestEntry
            /\ overtaken' = 0
    /\ UNCHANGED <<store, writerVars, main, runs, ctxDone, doomed, puts, failed>>

\* GET returns the object, NotFound or another error; all are recorded and
\* none changes what the reader does next.
GetReturns ==
    /\ rpc = "get"
    /\ rpc' = "loop" /\ rkey' = NoKey
    /\ UNCHANGED <<store, writerVars, overtaken, main, runs, ctxDone, doomed,
                   puts, failed>>

ReaderStep == ReaderLoop \/ PickLatest \/ GetReturns

-----------------------------------------------------------------------------
(* The runner and the command that call the workload.                      *)

Prepopulate ==
    /\ main = "start"
    /\ main' = "prepopulate"
    /\ Claim(Caller)
    /\ UNCHANGED <<store, versions, toDel, published, readerVars, runs, ctxDone,
                   doomed, puts, failed>>

\* The runner calls Run at most twice; RunsOnceMore is a third time.
RunsOnceMore == runs <= MaxRuns
RunsAgain == runs < MaxRuns

\* Run starts every writer and, with resume, the reader.  An interrupted
\* process hands it a context that is already done.
StartRun ==
    /\ main \in {"start", "idle"} /\ RunsAgain
    /\ main' = "running" /\ runs' = runs + 1
    /\ ctxDone' \in BOOLEAN
    /\ pc' = [p \in Procs |-> IF p \in Writers THEN "select" ELSE pc[p]]
    /\ rpc' = IF Resume THEN "loop" ELSE "off"
    /\ UNCHANGED <<store, counter, versions, key, toDel, published, rkey,
                   overtaken, doomed, puts, failed>>

ContextDone ==
    /\ main = "running" /\ ~ctxDone
    /\ ctxDone' = TRUE
    /\ UNCHANGED <<store, writerVars, readerVars, main, runs, doomed,
                   puts, failed>>

\* What wg.Wait waits for; ReaderStopped forgets to Add the writers.
ReaderStopped == ctxDone /\ rpc = "off"
AllStopped == rpc = "off" /\ \A w \in Writers : pc[w] = "off"

\* wg.Wait returns.
RunReturns ==
    /\ main = "running"
    /\ AllStopped
    /\ main' = "idle"
    /\ UNCHANGED <<store, writerVars, readerVars, runs, ctxDone,
                   doomed, puts, failed>>

\* Cleanup copies the list; the list itself is never emptied.
StartCleanup ==
    /\ main = "idle" /\ runs > 0
    /\ main' = "cleanup"
    /\ doomed' = versions
    /\ UNCHANGED <<store, writerVars, readerVars, runs, ctxDone,
                   puts, failed>>

\* The first delete that fails ends Cleanup with its error.
CleanupDelete ==
    /\ main = "cleanup" /\ doomed # <<>>
    /\ \/ DeleteOK(Head(doomed)) /\ UNCHANGED main
       \/ DeleteError(Head(doomed)) /\ main' = "cleanupFailed"
    /\ doomed' = Tail(doomed)
    /\ UNCHANGED <<writerVars, readerVars, runs, ctxDone, puts>>

CleanupReturns ==
    /\ main = "cleanup" /\ doomed = <<>>
    /\ main' = "cleaned"
    /\ UNCHANGED <<store, writerVars, readerVars, runs, ctxDone,
                   doomed, puts, failed>>

\* The command may end without Cleanup.
Terminated ==
    /\ main \in {"idle", "cleaned", "cleanupFailed"} /\ runs > 0
    /\ UNCHANGED vars

Next ==
    \/ \E p \in Procs : WriteStep(p)
    \/ \E w \in Writers : TimerFires(w) \/ WriterStops(w)
    \/ ReaderStep
    \/ Prepopulate \/ StartRun \/ ContextDone \/ RunReturns
    \/ StartCleanup \/ CleanupDelete \/ CleanupReturns
    \/ Terminated

Spec == Init /\ [][Next]_vars

\* Requests return, timers and deadlines fire and no goroutine is starved.
\* Go's select picks uniformly among its ready cases, so a writer that keeps
\* meeting a done context stops with probability one: strong fairness.
Fairness ==
    /\ \A p \in Procs : WF_vars(WriteStep(p))
    /\ \A w \in Writers : WF_vars(TimerFires(w)) /\ SF_vars(WriterStops(w))
    /\ WF_vars(ReaderStep)
    /\ WF_vars(ContextDone) /\ WF_vars(RunReturns)

FairSpec == Spec /\ Fairness
-----------------------------------------------------------------------------
(* Properties.                                                             *)

\* The abstract rolling store, over this state.
RS == INSTANCE RollingStore WITH
        Names <- Keys,
        used <- (1 .. counter) \ {key[p] : p \in {q \in Procs : pc[q] = "upload"}},
        objects <- store,
        log <- published,
        closed <- main \in {"cleanup", "cleaned", "cleanupFailed"}

\* Type correctness.
TypeOK ==
    /\ store \subseteq Nat /\ failed \subseteq Nat
    /\ counter \in 0 .. MaxKey /\ puts \in Nat /\ overtaken \in Nat
    /\ versions \in Seq(Nat) /\ doomed \in Seq(Nat) /\ published \in Seq(Nat)
    /\ pc \in [Procs -> {"off", "select", "upload", "publish", "delete"}]
    /\ key \in [Procs -> Nat]
    /\ toDel \in [Procs -> Seq(Nat)]
    /\ rpc \in {"off", "loop", "pick", "get"} /\ rkey \in Nat
    /\ main \in {"start", "prepopulate", "idle", "running", "cleanup",
                 "cleaned", "cleanupFailed"}
    /\ runs \in 0 .. MaxRuns /\ ctxDone \in BOOLEAN

\* Every object in the bucket is somebody's responsibility: it is tracked in
\* versions, still in the hands of the writer that uploaded or displaced it, or
\* a request for its key failed.  Nothing is lost between the append, the trim
\* and the deletes outside the lock, whatever the interleaving.
NoSilentLeak == \A k \in store :
    \/ k \in Range(versions)
    \/ \E p \in Procs : k = key[p] \/ k \in Range(toDel[p])
    \/ k \in failed

\* What is tracked is in the bucket until Cleanup starts: no writer deletes an
\* object that the list, and so the resume reader and Cleanup, still names.
TrackedIsStored ==
    main \notin {"cleanup", "cleaned", "cleanupFailed"} =>
        Range(versions) \subseteq store

\* No two writes in flight share a key, and an upload never overwrites an
\* object that exists: the counter alone keeps writers apart.
WritesExclusive ==
    /\ \A p, q \in Procs : p # q /\ key[p] = key[q] => key[p] = NoKey
    /\ \A p \in Procs : pc[p] = "upload" => key[p] \notin store

\* The resume reader's GET can miss only if a whole retain window of checkpoints
\* was published after it picked its key and before the request was served.
MissNeedsTurnover ==
    rpc = "get" /\ rkey \notin store => overtaken >= Retain

\* A Cleanup that reports success leaves in the bucket only keys for which a
\* request failed: no write outlives Run, and no displaced version was dropped.
CleanupComplete == main = "cleaned" => store \subseteq failed

\* Every claimed checkpoint is recorded once, whether its upload failed or not.
EveryWriteRecorded ==
    counter = puts + Cardinality({p \in Procs : pc[p] = "upload"})

\* The list is always the Retain checkpoints published last, in that order,
\* however the appends and trims of several writers interleave.
WindowIsLatest == versions = RS!Youngest(published, Retain)

\* Under the context's deadline Run returns.
RunTerminates == main = "running" ~> main # "running"

\* A displaced version is deleted or its delete fails; it is not forgotten.
DisplacedIsDeleted == \A k \in Keys :
    (\E p \in Procs : k \in Range(toDel[p])) ~> (k \notin store \/ k \in failed)

\* The workload implements the abstract rolling store.
RollingStoreSpec == RS!Spec
=============================================================================
