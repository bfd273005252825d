------------------------------ MODULE Datasets ------------------------------
(***************************************************************************)
(* The workloads that read a dataset: lancedb, training_data (package      *)
(* dataloader) and metadata (internal/workload/...).  Prepopulate puts the *)
(* base keys one after the other; threads then read them, list them, and   *)
(* claim numbers for new keys (manifests, copies) with an atomic counter.  *)
(* Cleanup rebuilds the keys from what was counted.                        *)
(*                                                                         *)
(* A key is a pair: its directory, numbered in listing order, and its      *)
(* number there.  A step is one reply of the store; checking the context   *)
(* and claiming a number belong to the step that sends the request.  The   *)
(* store is external, as in KeyedWorkload: a PUT or copy that is given up  *)
(* may take effect at any later time.                                      *)
(***************************************************************************)
EXTENDS Naturals, Sequences, FiniteSets, Functions

CONSTANTS
    Threads,                 \* the goroutines of Run
    Kinds,                   \* the workloads of the instance
    Fragments, Manifests,    \* lancedb: fragments, manifest_count
    Objects,                 \* training_data: object_count
    Fanout, PerPrefix,       \* metadata: prefixes, objects_per_prefix
    Commands,                \* `run`, whose Env has a Rand, or `prepopulate`, without
    PageSize,                \* keys per page of a listing (100)
    MaxClaims, MaxFailed     \* bounds: numbers claimed, keys with a failed request

\* What the factories accept; Run refuses threads <= 0.
LancedbAccepts == Fragments > 0 /\ Manifests > 0
DataloaderAccepts == Objects > 0
MetadataAccepts == Fanout > 0 /\ PerPrefix > 0

ASSUME DatasetsAssumption ==
    /\ IsFiniteSet(Threads) /\ Threads # {}
    /\ Kinds \subseteq {"lancedb", "training_data", "metadata"}
    /\ {Fragments, Manifests, Objects, Fanout, PerPrefix} \subseteq Nat
    /\ LancedbAccepts /\ DataloaderAccepts /\ MetadataAccepts
    /\ PageSize \in Nat \ {0}
    /\ Commands \subseteq {"run", "prepopulate"}
    /\ MaxClaims \in Nat /\ MaxFailed \in Nat

MaxRuns == 2                 \* runner.Run: warmup, then measurement

VARIABLES
    command,                 \* the command that drives it, fixed
    kind, pattern,           \* the workload and its access_pattern, fixed
    store,                   \* the keys in the bucket
    tracked,                 \* base keys known: fragmentCount + manifestCount,
                             \* len(keys) or len(baseKeys)
    claims,                  \* manifestsWritten, copyCount or seq
    pc, key,                 \* where each thread is, and the key of its request
    listing,                 \* its listing: delimiter, continuation token,
                             \* entries counted; and (history) entries at its start
    main, runs, ctxDone,     \* the caller, calls of Run, its context is done
    next,                    \* loop variable of Prepopulate and Cleanup
    visits,                  \* history: picks of each key in sequential order
    limbo,                   \* keys whose PUT was given up and may yet take effect
    failed,                  \* history: keys with a request that failed
    late                     \* history: keys stored by such a PUT after their delete

callerVars == <<main, runs, ctxDone, next>>
fixed == <<command, kind, pattern>>
lateVars == <<limbo, late>>
vars == <<fixed, store, tracked, claims, pc, key, listing, callerVars, visits, failed,
          lateVars>>
-----------------------------------------------------------------------------
(* Keys.                                                                   *)

New == 1       \* "_versions/" of lancedb, "copy/" of metadata
Base == 2      \* "data/", "obj-" and, with those after it, "p00/", "p01/", ...

Row(dir, n) == [i \in 1 .. n |-> <<dir, i - 1>>]

\* The base keys in the order of Prepopulate.
LancedbKeys == Row(Base, Fragments) \o Row(New, Manifests)
DataloaderKeys == Row(Base, Objects)
MetadataKeys == [i \in 1 .. Fanout * PerPrefix |->
    <<Base + (i - 1) \div PerPrefix, (i - 1) % PerPrefix>>]

BaseKeys == CASE kind = "lancedb" -> LancedbKeys
              [] kind = "training_data" -> DataloaderKeys
              [] kind = "metadata" -> MetadataKeys

fragmentCount == IF tracked < Fragments THEN tracked ELSE Fragments
manifestCount == tracked - fragmentCount

\* The key of the n-th number claimed: manifests go on after those of
\* Prepopulate; ManifestFromZero forgets them.
ManifestFromZero(n) == <<New, n>>
ManifestKey(n) == <<New, manifestCount + n>>
CopyKey(n) == <<New, n>>

\* What Cleanup deletes, in order; ManifestsWritten forgets manifestCount.
ManifestsWritten == claims
ManifestTotal == manifestCount + claims
LancedbCleanup == Row(Base, fragmentCount) \o Row(New, ManifestTotal)
DataloaderCleanup == SubSeq(DataloaderKeys, 1, tracked)
MetadataCleanup == SubSeq(MetadataKeys, 1, tracked) \o [i \in 1 .. claims |-> CopyKey(i - 1)]

CleanupKeys == CASE kind = "lancedb" -> LancedbCleanup
                 [] kind = "training_data" -> DataloaderCleanup
                 [] kind = "metadata" -> MetadataCleanup

NoKey == <<0, 0>>
Before(a, b) == a[1] < b[1] \/ (a[1] = b[1] /\ a[2] < b[2])

\* The entries of a listing: the keys or, with the delimiter, their directories.
Entries(delim) == IF delim THEN {<<k[1], 0>> : k \in store} ELSE store
FirstPage(es) == {e \in es : Cardinality({d \in es : Before(d, e)}) < PageSize}
LastOf(es) == CHOOSE e \in es : \A d \in es : ~Before(e, d)
NoListing == [delim |-> FALSE, token |-> NoKey, counted |-> 0, floor |-> 0]

Init ==
    /\ command \in Commands /\ kind \in Kinds
    /\ pattern \in IF kind = "training_data" THEN {"sequential", "random"} ELSE {"random"}
    /\ store = {} /\ failed = {} /\ limbo = {} /\ late = {} /\ tracked = 0 /\ claims = 0
    /\ pc = [t \in Threads |-> "off"] /\ key = [t \in Threads |-> NoKey]
    /\ listing = [t \in Threads |-> NoListing]
    /\ main \in IF command = "run" THEN {"populating", "idle"} ELSE {"populating"}
    /\ runs = 0 /\ ctxDone = FALSE /\ next = 0
    /\ visits = [i \in 0 .. Objects - 1 |-> 0]
-----------------------------------------------------------------------------
(* The object store.                                                       *)

Fail(k) == failed' = failed \cup {k} /\ Cardinality(failed') <= MaxFailed

PutOK(k) == store' = store \cup {k} /\ UNCHANGED <<failed, lateVars>>

\* The object is there although the PUT reported an error, or the PUT is still
\* under way when its caller gives it up.
PutError(k) ==
    /\ Fail(k)
    /\ \/ store' = store \cup {k} /\ UNCHANGED lateVars
       \/ limbo' = limbo \cup {k} /\ UNCHANGED <<store, late>>

\* A delete that takes effect late only removes what Cleanup is to remove.
DeleteOK(k) == store' = store \ {k} /\ UNCHANGED <<failed, lateVars>>
DeleteError(k) == Fail(k) /\ store' \in {store, store \ {k}} /\ UNCHANGED lateVars

\* Cleanup has had the delete of k answered.
Deleted(k) ==
    /\ main \in {"cleanup", "cleaned", "cleanupFailed"}
    /\ \E i \in 1 .. next : k = CleanupKeys[i]

\* A PUT that was given up takes effect after all; one that never does is lost.
Land(k) ==
    /\ limbo' = limbo \ {k} /\ store' = store \cup {k}
    /\ late' = IF Deleted(k) THEN late \cup {k} ELSE late
    /\ UNCHANGED <<fixed, failed, tracked, claims, pc, key, listing, callerVars,
                   visits>>
-----------------------------------------------------------------------------
(* Prepopulate.                                                            *)

\* The size of the object is drawn from Env.Rand (of a manifest if its bounds
\* differ, as they do by default); `prepopulate` passes none.
DrawsSize(k) == kind = "training_data" \/ (kind = "lancedb" /\ k[1] = New)
RandMissing(k) == command = "prepopulate" /\ DrawsSize(k)

\* dataloader keeps its keys in a local slice until all are there.
TrackedEarly == next + 1
TrackedOnError == tracked

PopulatePut ==
    LET k == BaseKeys[next + 1] IN
    /\ main = "populating" /\ next < Len(BaseKeys)
    /\ ~RandMissing(k)
    /\ \/ /\ PutOK(k) /\ next' = next + 1 /\ UNCHANGED main
          /\ tracked' = IF kind = "training_data" THEN tracked ELSE next'
       \/ PutError(k) /\ main' = "idle" /\ tracked' = TrackedOnError /\ UNCHANGED next
    /\ UNCHANGED <<fixed, claims, pc, key, listing, runs, ctxDone, visits>>

PopulateReturns ==
    /\ main = "populating" /\ next = Len(BaseKeys)
    /\ main' = "idle" /\ tracked' = next
    /\ UNCHANGED <<fixed, store, failed, lateVars, claims, pc, key, listing, runs,
                   ctxDone, next, visits>>

\* A draw from a nil *rand.Rand panics; nothing recovers.
PopulatePanics ==
    /\ main = "populating" /\ next < Len(BaseKeys)
    /\ RandMissing(BaseKeys[next + 1])
    /\ main' = "panicked"
    /\ UNCHANGED <<fixed, store, failed, lateVars, tracked, claims, pc, key, listing,
                   runs, ctxDone, next, visits>>
-----------------------------------------------------------------------------
(* One thread of Run.                                                      *)

Goto(t, l, k) == pc' = [pc EXCEPT ![t] = l] /\ key' = [key EXCEPT ![t] = k]
Iterating(t) == pc[t] \in {"loop", "listed"}
Forget(t) == listing' = [listing EXCEPT ![t] = NoListing]

Leave(t) ==
    /\ Iterating(t) /\ ctxDone
    /\ Goto(t, "off", NoKey) /\ Forget(t)
    /\ UNCHANGED <<fixed, store, failed, lateVars, tracked, claims, callerVars, visits>>

\* seq.Add(1), manifestsWritten.Add(1), copyCount.Add(1); AddRaced is a Load
\* and a Store.
AddRaced == IF \E t \in Threads : pc[t] \in {"put", "get"} THEN claims ELSE claims + 1
Add == claims + 1

Send(t, l, k) ==
    /\ Iterating(t) /\ ~ctxDone
    /\ Goto(t, l, k) /\ Forget(t)
    /\ UNCHANGED <<fixed, store, failed, lateVars, tracked, callerVars>>

\* Any fragment; with none the iteration does nothing.
ReadFragment(t) ==
    /\ kind = "lancedb"
    /\ \E i \in 1 .. fragmentCount : Send(t, "head", LancedbKeys[i])
    /\ UNCHANGED <<claims, visits>>

\* HEAD and tagging requests go to any base key.
ReadBaseKey(t) ==
    /\ kind = "metadata"
    /\ \E i \in 1 .. tracked : Send(t, "get", MetadataKeys[i])
    /\ UNCHANGED <<claims, visits>>

\* Shuffled and Zipfian access may pick any key, sequential access the next.
ReadAny(t) ==
    /\ kind = "training_data" /\ pattern = "random"
    /\ \E i \in 1 .. tracked : Send(t, "get", DataloaderKeys[i])
    /\ UNCHANGED <<claims, visits>>

ReadNext(t) ==
    /\ kind = "training_data" /\ pattern = "sequential" /\ claims < MaxClaims
    /\ claims' = Add
    /\ LET i == claims % tracked IN
          /\ Send(t, "get", DataloaderKeys[i + 1])
          /\ visits' = [visits EXCEPT ![i] = @ + 1]

\* The HEAD of a fragment returns: its ranged GET follows, unless it failed.
HeadReturns(t) ==
    /\ pc[t] = "head"
    /\ Goto(t, "get", key[t]) \/ Goto(t, "loop", NoKey)
    /\ UNCHANGED <<fixed, store, failed, lateVars, tracked, claims, listing,
                   callerVars, visits>>

\* A GET, ranged GET, HEAD or tagging request returns and is recorded.
ReadReturns(t) ==
    /\ pc[t] = "get"
    /\ Goto(t, "loop", NoKey)
    /\ UNCHANGED <<fixed, store, failed, lateVars, tracked, claims, listing,
                   callerVars, visits>>

\* A new manifest, or a copy of any base key.
Claim(t, k) ==
    /\ claims < MaxClaims /\ claims' = Add
    /\ Send(t, "put", k) /\ UNCHANGED visits

WriteManifest(t) == kind = "lancedb" /\ Claim(t, ManifestKey(claims))
Copy(t) == kind = "metadata" /\ Claim(t, CopyKey(claims))

PutReturns(t) ==
    /\ pc[t] = "put"
    /\ PutOK(key[t]) \/ PutError(key[t])
    /\ Goto(t, "loop", NoKey)
    /\ UNCHANGED <<fixed, tracked, claims, listing, callerVars, visits>>

\* A listing at its start, and after a page.
Opened(d) == [delim |-> d, token |-> NoKey, counted |-> 0, floor |-> Cardinality(Entries(d))]
Paged(l, page, token) ==
    [delim |-> l.delim, token |-> token, counted |-> l.counted + Cardinality(page),
     floor |-> l.floor]

\* metadata pages through everything, with or without the delimiter.
ListPrefix(t) ==
    /\ kind = "metadata" /\ Iterating(t) /\ ~ctxDone
    /\ Goto(t, "list", NoKey)
    /\ \E d \in BOOLEAN : listing' = [listing EXCEPT ![t] = Opened(d)]
    /\ UNCHANGED <<fixed, store, failed, lateVars, tracked, claims, callerVars, visits>>

\* lancedb asks for one page of manifests and drops the reply.
ListManifest(t) ==
    kind = "lancedb" /\ Send(t, "list", NoKey) /\ UNCHANGED <<claims, visits>>

\* The loop goes on with the token of the page; TokenDropped asks for the first
\* page again.
TokenDropped(page) == NoKey
TokenOf(page) == LastOf(page)

ListReturns(t) ==
    LET l == listing[t]
        rest == {e \in Entries(l.delim) : Before(l.token, e)}
        page == FirstPage(rest) IN
    /\ pc[t] = "list" /\ kind = "metadata"
    /\ \/ /\ page # rest
          /\ Goto(t, "list", NoKey)
          /\ listing' = [listing EXCEPT ![t] = Paged(l, page, TokenOf(page))]
       \/ /\ page = rest
          /\ Goto(t, "listed", NoKey)
          /\ listing' = [listing EXCEPT ![t] = Paged(l, page, l.token)]
    /\ UNCHANGED <<fixed, store, failed, lateVars, tracked, claims, callerVars, visits>>

\* An error ends the listing, and lancedb drops any reply; RetryPage asks again.
RetryPage == "list"
AfterListError == "loop"

ListEnds(t) ==
    /\ pc[t] = "list"
    /\ Goto(t, AfterListError, NoKey) /\ Forget(t)
    /\ UNCHANGED <<fixed, store, failed, lateVars, tracked, claims, callerVars, visits>>

ThreadStep(t) ==
    \/ Leave(t)
    \/ ReadFragment(t) \/ HeadReturns(t) \/ ListManifest(t) \/ WriteManifest(t)
    \/ ReadAny(t) \/ ReadNext(t)
    \/ ReadBaseKey(t) \/ ListPrefix(t) \/ Copy(t)
    \/ ReadReturns(t) \/ PutReturns(t) \/ ListReturns(t) \/ ListEnds(t)
-----------------------------------------------------------------------------
(* The caller.                                                             *)

RunsOnceMore == runs <= MaxRuns
RunsAgain == runs < MaxRuns

\* training_data and metadata refuse an empty dataset.
StartRun ==
    /\ main = "idle" /\ command = "run" /\ RunsAgain
    /\ runs' = runs + 1
    /\ IF tracked = 0 /\ kind # "lancedb"
       THEN UNCHANGED <<main, ctxDone, pc>>
       ELSE /\ main' = "running" /\ ctxDone' \in BOOLEAN
            /\ pc' = [t \in Threads |-> "loop"]
    /\ UNCHANGED <<fixed, store, failed, lateVars, tracked, claims, key, listing,
                   next, visits>>

ContextDone ==
    /\ main = "running" /\ ~ctxDone
    /\ ctxDone' = TRUE
    /\ UNCHANGED <<fixed, store, failed, lateVars, tracked, claims, pc, key, listing,
                   main, runs, next, visits>>

OneStopped == \E t \in Threads : pc[t] = "off"
AllStopped == \A t \in Threads : pc[t] = "off"

RunReturns ==
    /\ main = "running" /\ AllStopped
    /\ main' = "idle"
    /\ UNCHANGED <<fixed, store, failed, lateVars, tracked, claims, pc, key, listing,
                   runs, ctxDone, next, visits>>

StartCleanup ==
    /\ main = "idle" /\ runs > 0
    /\ main' = "cleanup" /\ next' = 0
    /\ UNCHANGED <<fixed, store, failed, lateVars, tracked, claims, pc, key, listing,
                   runs, ctxDone, visits>>

CleanupDelete ==
    /\ main = "cleanup" /\ next < Len(CleanupKeys)
    /\ \/ DeleteOK(CleanupKeys[next + 1]) /\ next' = next + 1 /\ UNCHANGED main
       \/ DeleteError(CleanupKeys[next + 1]) /\ main' = "cleanupFailed" /\ UNCHANGED next
    /\ UNCHANGED <<fixed, tracked, claims, pc, key, listing, runs, ctxDone, visits>>

CleanupReturns ==
    /\ main = "cleanup" /\ next >= Len(CleanupKeys)
    /\ main' = "cleaned"
    /\ UNCHANGED <<fixed, store, failed, lateVars, tracked, claims, pc, key, listing,
                   runs, ctxDone, next, visits>>

Terminated ==
    /\ main \in {"idle", "cleaned", "cleanupFailed", "panicked"}
    /\ UNCHANGED vars

Next ==
    \/ PopulatePut \/ PopulateReturns \/ PopulatePanics
    \/ \E t \in Threads : ThreadStep(t)
    \/ StartRun \/ ContextDone \/ RunReturns
    \/ StartCleanup \/ CleanupDelete \/ CleanupReturns
    \/ \E k \in limbo : Land(k)
    \/ Terminated

Spec == Init /\ [][Next]_vars

\* Goroutines run, requests return and deadlines fire.
Fairness ==
    /\ \A t \in Threads : WF_vars(ThreadStep(t))
    /\ WF_vars(ContextDone) /\ WF_vars(RunReturns)

FairSpec == Spec /\ Fairness
-----------------------------------------------------------------------------
(* Properties.                                                             *)

\* Type correctness.
TypeOK ==
    /\ command \in Commands /\ kind \in Kinds /\ pattern \in {"sequential", "random"}
    /\ store \subseteq Nat \X Nat /\ failed \subseteq Nat \X Nat
    /\ limbo \subseteq failed /\ late \subseteq failed
    /\ tracked \in 0 .. Len(BaseKeys) /\ claims \in Nat
    /\ pc \in [Threads -> {"off", "loop", "head", "get", "put", "list", "listed"}]
    /\ key \in [Threads -> Nat \X Nat]
    /\ \A t \in Threads : listing[t].delim \in BOOLEAN /\ listing[t].counted \in Nat
    /\ main \in {"populating", "idle", "running", "cleanup", "cleaned",
                 "cleanupFailed", "panicked"}
    /\ runs \in 0 .. MaxRuns /\ ctxDone \in BOOLEAN /\ next \in Nat

\* A read never misses: whatever part of the dataset a failed Prepopulate left,
\* threads pick only keys whose PUT succeeded, and nothing deletes while they
\* read (lancedb.go:79-81, metadata.go:57, dataloader.go:105-108).
ReadsExist == \A t \in Threads : pc[t] \in {"head", "get"} => key[t] \in store

\* A new manifest or copy never overwrites: no two requests in flight share a
\* key, and none has the key of the dataset or of an earlier one, except a key
\* whose request failed (the counters claim, dataloader excluded).
NewKeysFresh ==
    \A t \in Threads : pc[t] = "put" =>
        /\ key[t] \in store => key[t] \in failed
        /\ \A u \in Threads : u # t /\ pc[u] = "put" => key[u] # key[t]

\* A Cleanup that succeeds leaves nothing that it knows of, except a manifest or
\* copy whose request was given up, at the deadline say, and took effect only
\* after Cleanup had deleted its key.  What it does not know of is the one base
\* key at which Prepopulate failed and, of training_data, every object of such a
\* Prepopulate.
CleanupExplained ==
    main = "cleaned" => \A k \in store :
        \/ k \in late
        \/ kind = "training_data" /\ tracked = 0 /\ failed # {}
        \/ tracked < Len(BaseKeys) /\ k = BaseKeys[tracked + 1] /\ k \in failed

\* A listing that goes through its pages counts every entry once, although
\* copies are added before and after its position: at least what was there when
\* it began and at no time more than is there now (metadata.go:146-147).
ListingBracketed ==
    \A t \in Threads :
        /\ listing[t].counted <= Cardinality(Entries(listing[t].delim))
        /\ pc[t] = "listed" => listing[t].counted >= listing[t].floor

\* Sequential access visits all keys equally often, whichever threads claim the
\* positions, and goes on from the warmup into the measurement.
SequentialBalanced ==
    \A i, j \in DOMAIN visits : visits[i] <= visits[j] + 1

\* Under the context's deadline Run returns, from the middle of a listing too.
RunTerminates == main = "running" ~> main # "running"

\* What the README promises of `prepopulate` (README.md:61): without a failing
\* request the dataset exists when the command ends (violated).
DatasetCreated ==
    command = "prepopulate" /\ main \in {"idle", "panicked"} /\ failed = {} =>
        Range(BaseKeys) \subseteq store
=============================================================================
