# s3aibench: specifications

TLA+ specifications of [s3aibench](../src/README.md), an S3 benchmark written in
Go, with TLC configurations and TLAPS proofs. Source paths are relative to `src/`.

## 1. The system

One process runs one command on one bucket. `run` resolves a plan, draws a ULID,
builds a client whose prefix is the configured one plus that ULID, builds the
plan's workloads and hands them to the runner: Prepopulate, an optional warmup
and the measurement. Then it reports what the metrics collector has gathered and,
by default, deletes its objects. `cleanup` sweeps the configured prefix. The
store and the AWS SDK are external: requests fail, with or without an effect, and
a request that was given up can take effect later.

| Component | State | Operations | Hard about it |
|---|---|---|---|
| checkpoint workload | `versions` under `mu`, atomic `counter` | Prepopulate, Run (writers, resume reader), Cleanup | deletes and reads outside the lock; failed uploads and deletes; the deadline |
| small/large objects | atomic `writtenCount` | Prepopulate, Run, Cleanup | indices claimed before the PUT; reads below the count |
| metrics collector | shards with one mutex each, a map of them | Record, ShardFor, Totals, Snapshot | reads across shards are not atomic; IDs repeat between workloads |
| progress ticker | none | one line per tick | sums while workers record; outlives the report |
| run command | prefix, workloads, exit status | doRun | every early return skips the cleanup; one context for work and cleanup |
| safety | none | CheckBucket, Cleanup | paging while deleting; concurrent commands |
| client | prefix | joinPrefix, S3 verbs | what "the prefix" is for listing and for writing |
| runner | none | Run | the same workload objects are run twice; whose failure stops whom |
| lancedb | `fragmentCount`, `manifestCount`, atomic `manifestsWritten` | Prepopulate, Run, Cleanup | keys of new manifests are sums of a field and a counter; HEAD then ranged GET |
| dataloader (`training_data`) | `keys`, atomic `seq` | Prepopulate, Run, Cleanup | the position is shared by threads and phases; keys assigned only at the end |
| metadata | `baseKeys`, atomic `copyCount` | Prepopulate, Run, Cleanup | paged listings while copies are added; a loop that looks at no context |
| mix, registry | children and weights; factories | Build, Run, Cleanup | thread shares; error channel |
| body generator | one ring of random bytes, pooled readers | Read, Seek, NewReader, Release | wrap of the ring; a reader's fields survive into its next body |
| config, plan | none | Resolve, Validate | precedence; zero as "unset" |
| buffer pool, report, histogram, size distribution | none | formatting, arithmetic | bucket boundaries |

What makes each correct: a workload knows every object it is responsible for and
deletes nobody else's; two requests never fight over one key; everything that was
issued is recorded; a read finds its object, or there is a known reason why not; Run
ends at the deadline; the report adds up; a body has the bytes and the length that
were asked for, a retry included; a workload runs with the configured threads (where the code
reads them, see the end of section 3); commands on one bucket leave each other alone,
and a command that reports success has done what it says.

## 2. Modules

| Module | Code | Role |
|---|---|---|
| `Checkpoint` | `internal/workload/checkpoint` | the workload with its caller |
| `RollingStore` | (abstract) | what that workload promises its bucket |
| `CheckpointProofs` | | theorems about `Checkpoint` |
| `KeyedWorkload` | `internal/workload/smallobj`, `largeobj` | the workload with its caller |
| `KeyedProofs` | | theorems about `KeyedWorkload` |
| `Datasets` | `internal/workload/lancedb`, `dataloader`, `metadata`, `internal/cli/prepopulate.go` | the three workloads that read a dataset |
| `DatasetsProofs` | | theorems about `Datasets` |
| `Runner` | `internal/config/resolve.go`, `internal/runner`, `internal/workload/mix` | from the settings to the goroutines |
| `RunnerProofs` | | theorems about `Runner` |
| `BodyReader` | `internal/bodygen` | bodies of PUTs, with callers that act as the SDK |
| `BodyProofs` | | theorems about `BodyReader` |
| `Collector` | `internal/metrics`, `internal/report/progress.go` | shards, readers, ticker |
| `CollectorProofs` | | theorems about `Collector` |
| `KeyPrefix` | `internal/s3client/s3client.go` | `joinPrefix` and the order of keys |
| `KeyPrefixProofs` | | lemmas about prefixes and the order of keys |
| `RunCommand` | `internal/cli/run.go`, `cleanup.go`, `internal/safety` | several commands on one bucket |
| `RunProofs` | | theorems about `RunCommand` |
| `MC*` | | values of the constants for TLC |

Each action is one critical section, one atomic access or one reply of the
store; a handler with several such steps has one action per step, with its local
variables as state. `Checkpoint.Publish` is the critical section of `writeOneAt`
(append, trim, copy of what is to be deleted), `RetainDelete` is one delete outside
the lock; `KeyedWorkload.Claim` is `writtenCount.Add(1)`. `RunCommand` uses
`KeyPrefix` for every key, so that what is listed and what is written meet only
where the code makes them.

A request that fails may have had its effect, have none, or have it later. In
`KeyedWorkload`, `Datasets` and `RunCommand` a PUT that is given up may go into `limbo`,
from which `Land` takes it at any later time, in the middle of Cleanup, after it, or
never. What Cleanup cannot be held to is in `late`: the keys that landed when Cleanup had
already had their delete answered (in `RunCommand`, where the sweep lists what it deletes,
the objects that appeared after their run's Run). A delete that takes effect late only
removes what Cleanup is to remove, so it is not modelled. In `Checkpoint` a failed upload
has its effect when it returns: its properties about the bucket excuse every key with a
failed request (`CleanupComplete`, `NoSilentLeak`), so a later effect would violate none
of them, and `RollingStore` counts the write of such a key at the reply. Variables marked
*history* do not exist in the code and are never read by an action, except to bound
failures.

`Datasets` has the three workloads in one module, because they differ in their keys
and operations and share everything else: a Prepopulate that puts a fixed list,
threads that draw an operation at random, an atomic counter that numbers new keys,
and a Cleanup that rebuilds the list from counters. `LancedbKeys`, `DataloaderKeys`
and `MetadataKeys` are the lists; a key is a pair of its directory, numbered in
listing order, and its number there, so that the order in which S3 lists
(`copy/` before `p00/`) is the order of pairs. One variable stands for each pair
of fields that move together: `tracked` for `fragmentCount + manifestCount`, `len(keys)`
or `len(baseKeys)`, `claims` for `manifestsWritten`, `seq` or `copyCount`. The check
of the context and the claim of a number belong to the step that sends the request:
nothing another thread sees happens between them. Each iteration draws its
operation from the weights at random, hence any. The variable `command` tells `run`
from `prepopulate`, which calls Prepopulate only, with an `Env` without `Rand`.

`Runner` goes from the layers of a setting (flag, environment, plan, default) through
`Pick` to the threads of each workload. Its workloads are opaque: they record
operations and return. All it knows of them is how many goroutines they start
(`Goroutines`): as many as they are given threads, but a checkpoint starts its parameter
`writers` and does not look at the threads (`checkpoint.go:68-75`); without any, Run
refuses. A mix is one of them, with a goroutine for each child, its
share of the threads, and the channel of their errors, which `MixReturns` reads when
all are through. The loop over the workloads, and inside it that of the mix over its
children, is the cursor `turn` in `Flat`, the workloads with the children in the place
of the mix. What its children do inside Run is in the other modules, each of
which takes its caller to call Prepopulate once, then Run twice, then Cleanup:
`PhasesInOrder` is the part of that assumption that the runner owes them.

`BodyReader` names a byte by its place in the ring, so the content of a body is a
sequence of places. `net/http` and the SDK are external: they read with any buffer,
seek to the end for the length and back for a retry.

`Checkpoint` implements `RollingStore`: an object is written once, published at
most once, and the newest `Retain` published objects stay until the store is
closed. The mapping (`RS` in `Checkpoint`) takes `published` as the log and the
claimed keys whose upload has returned as used; the retain-deletes are `Remove`,
the start of Cleanup is `Close`, all other steps stutter.

Definitions such as `TrimNewest` or `BumpRaced` stand next to the one the model
uses and are the slips a rewrite of those lines could make; putting one in the
place of the real definition breaks a property. No action uses them.

## 3. Model checking

`tlc -config <cfg> <module>`; `PROJECT.json` says what each run shows. Times are
those of two workers.

| Configuration | Module | Result | States |
|---|---|---|---|
| `Checkpoint.cfg` | `MCCheckpoint` | holds | 104 thousand, 30 s |
| `KeyedWorkload.cfg` | `MCKeyedWorkload` | holds | 31 thousand, 3 s |
| `Collector.cfg` | `MCCollector` | holds | 2.7 million, 40 s |
| `RunCommands.cfg` | `MCRunCommand` | holds | 435 thousand, 12 s |
| `Datasets.cfg` | `MCDatasets` | holds | 105 thousand, 20 s |
| `Runner.cfg` | `MCRunner` | holds | 394 thousand, 30 s |
| `BodyReader.cfg` | `MCBodyReader` | holds | 157 thousand, 6 s |
| `RunShared.cfg` | `MCRunCommand` | `SharedBucketRefused` violated | |
| `RunInterrupted.cfg` | `MCRunCommand` | `CleanedOnExit` violated | |
| `RunBarePrefix.cfg` | `MCRunCommand` | `CleanupRecovers` violated | |
| `BodyRing.cfg` | `MCBodyReader` | `NeverOverruns` violated | |
| `DatasetCreated.cfg` | `MCDatasets` | `DatasetCreated` violated | |

What the passing runs show:

- `Checkpoint`: no object leaks or is deleted while it is tracked, whatever fails; the
  window is the newest publications; a read misses only when the window has turned
  over; every write is recorded; Run returns and deletes what it has displaced.
- `KeyedWorkload`: an index is claimed once; a read misses only a failed PUT or one in
  flight; Cleanup deletes everything that was claimed, and what it leaves all the same is
  an object whose PUT was given up and took effect after its delete, or the base object
  of a failed Prepopulate.
- `Datasets`: reads never miss (`ReadsExist`), also after a Prepopulate that failed half
  way; new keys never overwrite (`NewKeysFresh`); a Cleanup that succeeds leaves only what
  `CleanupExplained` lists, late manifests and copies among it; a listing in pages counts
  what was there, once (`ListingBracketed`); sequential access is balanced over threads
  and phases.
- `Runner`: no workload is inside Run twice, nobody runs unprepared for another's
  failure, thread numbers follow the layers of `defaults.threads` and the weights within
  one thread, where the code reads them (not for a checkpoint, nor for a workload with
  a setting of its own), and
  the runner returns however many children fail at once.
- `BodyReader`: any calls of Read and Seek, on readers in any order of reuse, give the
  ring unrolled, in the length asked for.
- `Collector`: snapshots are exact when the workers are through, running totals are
  between what was and what is, and do not go down.
- `RunCommands`: two runs and a `cleanup` on one bucket, with a kill, a failing
  process and a late put: nobody deletes what belongs to others, success means clean,
  and an error has a cause of its own.

**Bounds.** `MaxKey` (4 checkpoints) turns a window of two over completely with two
writers in flight. `MaxFailed` bounds the keys with failed requests, not the number of
failures of one key. `MaxCount` (4 indices) leaves room for a prepopulated key, two writes
in flight and one more. `Collector` runs four goroutines, one through the fallback shard,
two workloads sharing worker ID 0, each recording once: a record is one critical section,
so longer histories add sums and no interleavings of a new kind. `PageSize` 1 with two
objects makes the sweep page; with 1000 it would need a thousand objects. (In
`RunCommands` the sweep of `cleanup` finds an object of each of two runs and pages between
them; a run puts one object, so its own sweep has one page, and it is `CleanupRecovers`
that checks the paging. The proof of `CleanExits` has any page size and any number of
objects.) `MaxLimbo` allows one late put, `MaxSignals` one interrupt or kill, `MaxFaults`
one process with failures. `Datasets` has two fragments and one manifest, two objects, or
two prefixes with one object each: with `PageSize` 1 (100 in the code) every listing
pages, and copies sort before the position and the dataset after it; the tree of prefixes
has depth 1, as a deeper one has the same keys in the same order and only fewer
directories at its top; `MaxClaims` 3 makes sequential access wrap round the two objects
and gives each thread a new key in flight and one more. `Runner` has flags 0 and 4, 5 in
the environment, 0 and 2 in the plan and 6 as default, and children with weights 2 and 0:
a share that divides, shares that do not, a zero that counts in one layer and not in the
other, and no threads at all, with which `small_objects` refuses and the checkpoint runs.
`small_objects` may have a setting of its own. `BodyReader` has a ring of three bytes,
bodies shorter than it and longer than twice the ring, buffers up to 7, which is a ring,
another ring and one byte, and two bodies per caller from three readers, so that readers
change hands. Workloads run twice (warmup and measurement), which the runner fixes.

**Fairness.** Requests return, goroutines get scheduled, timers and deadlines fire: weak
fairness of those steps, per goroutine. A writer whose timer and context are both ready
picks either; Go picks uniformly, so a writer that meets a done context again and again
stops with probability one, which `SF_vars(WriterStops(w))` states. (With `MaxKey` a
writer runs out of claims, so the runs would pass with weak fairness as well; the code has
no such limit.) In `Runner` a workload that starts goroutines need not fail, so only its
return at the deadline is fair (`LeafMustEnd`); one that has none to start (no threads, or
a checkpoint without writers) returns its error at once. Interrupts, kills, failures and
late effects are never assumed to happen. Requests that hang for ever are outside the
model. `Collector`, `RunCommand` and `BodyReader` are checked for safety only.

**What the violated runs show**

- *The shared-bucket guard never refuses.* The client joins the run's own prefix to
  the empty prefix that `CheckBucket` lists, so it inspects a fresh directory. The
  tests use a client without a prefix.
- *An interrupted run cleans nothing up*: cleanup uses the context that the signal
  cancelled. The same holds for a report that cannot be written (`run.go:125`).
- *A prefix without a trailing slash* makes `cleanup` look in another directory than
  `run` writes to, and report success.
- *`Read` wraps at most once*, although a body may be longer than the ring: a buffer
  that is longer than the rest of the ring and a whole ring makes the slice
  expression of `bodygen.go:95` panic. The ring has 1 MiB; the SDK's uploader fills
  part-sized buffers, 16 MiB by default, through `Read`.
- *The `prepopulate` command panics* for a plan with `training_data`, or with lancedb's
  default manifest sizes: it passes an `Env` without `Rand`, from which object sizes
  are drawn. The `Env` has no `Recorder` either, with which checkpoint's Prepopulate
  records its upload (`checkpoint.go:112`, 122), so that one panics too.

Other disagreements noticed, which no run covers:

- `retain_versions: 0` leaves the resume reader without a target for ever
  (`checkpoint.go:60`); a negative value makes line 131 panic with the mutex held.
  `Checkpoint` covers 0 and not a negative value.
- An index below `writtenCount` need not be a valid key (`smallobj.go:53`, 79-80): it is
  counted before its PUT. `MissExplained` is what does hold.
- The thread shares of a mix need not add up to the threads of the mix
  (`mix.go:2-4`): each is rounded down and raised to one, also when the setting is 0,
  with which every other workload refuses to run, except a checkpoint, which ignores the
  setting.
- A checkpoint starts `writers` goroutines and reads no threads (`checkpoint.go:68-75`):
  `defaults.threads` and `--threads` (`README.md:71-85`) mean nothing to it.
- `runner.Result` "reports which workloads failed" (`runner.go:35`): it holds errors of
  Prepopulate only and `doRun` ignores it; a child that fails early is reported to
  the mix's caller after the deadline, where the runner drops the error.
- Threads, duration and weight of one workload (`README.md:99-105`, and the plan's own
  `threads`) are resolved into `cfg.Workloads` (`resolve.go:131-150`) and enter the
  configuration's hash only: the runner gives every workload `defaults.threads`.
  `ThreadsAsConfigured` takes no side in this. It says nothing of a workload that has
  such a setting (`layers.own`), for which the promise is not kept.
- Children of a mix skip the plan's check of duplicate names, so two of them may write
  the same keys. The modules take a workload's keys to be its own.
- `prepopulate` writes under a fresh ULID, which no later `run` reads from.
- A prefix that starts with a slash: `joinPrefix` trims it from what is listed
  (`s3client.go:40`) and not from the prefix, so the sweep of `/x/` looks under
  `/x/x/`, finds nothing and reports success. With the empty prefix, `cleanup` lists
  and deletes the whole bucket: `safety.Cleanup` makes `/` of it and the client trims
  that. The theorems about `RunCommand` name the prefixes they hold for.
- A lancedb `fragment_size` or `range` of 0 makes the range `bytes=0--1`.
- `started_at` (`docs/schema.md:24`) is taken before Prepopulate and warmup;
  `sample_message` (`docs/schema.md:82`) is not the first one seen when shards are
  merged in map order; the fallback and the worker IDs are shared by the workloads
  that run at once, so the Record path is not always uncontended (`metrics.go:3-5`);
  `workload.Registered` does not sort; the ticker prints until `doRun` returns, into
  the text report; an only latency of an hour or more is reported with minimum 0
  (`metrics.go:232`).
- Checkpoints are kept in the order their uploads complete, not in that of their
  numbers (`checkpoint.go:127`); the code promises neither, and `WindowIsLatest` states
  what it does.

## 4. Proofs

Every safety property that a passing run checks, and the refinement of
`RollingStore`, is a theorem for every value of the constants that the module's
assumption admits (any finite set of goroutines, any sizes, windows, pages, weights
and bounds). The bounds of section 3 are constants like the others, so nothing rests
on their values. `tlapm <module>` checks a module. The hypotheses that go beyond a
module's assumption stand with the theorem and below.

An invariant is seldom inductive alone. Each module has an inductive one, made of
named parts, often proved one after the other so that a part may use the earlier
ones; the theorems follow from it.

### `CheckpointProofs`

| Theorem | Property |
|---|---|
| `TypeCorrect` | `TypeOK` |
| `LeakFreedom` | `NoSilentLeak` |
| `WindowCorrect` | `WindowIsLatest` |
| `WriteExclusion` | `WritesExclusive` |
| `TrackedStored` | `TrackedIsStored` |
| `MissExplained` | `MissNeedsTurnover` |
| `CleanupCorrect` | `CleanupComplete` |
| `RecordedHolds` | `EveryWriteRecorded` |
| `ImplementsRollingStore` | `RollingStoreSpec` |

1. *Control* (`ControlHolds`): which process can be where, and which keys are in
   hand: keys never exceed `counter`, no key is in two hands, and a key that is
   being uploaded has never been published.
2. *Lifecycle* (`LifecycleHolds`): while the caller is not running or
   prepopulating, nobody is inside a write and the reader is off. Cleanup therefore
   meets no write.
3. *Window* (`WindowHolds`): `versions` is the tail of `published` of length
   `Retain`, and `published` repeats no key. Appending and trimming slides that
   tail by one (`Slide`); what is cut is older than the window (`DisplacedIsOld`).
4. *Custody* (`CustodyHolds`): every stored key is tracked, in hand, displaced, in
   Cleanup's list, or has failed; every tracked key is stored until Cleanup; the
   reader's key was published `overtaken` publications ago, so it is in the window
   while `overtaken < Retain`.

`EveryWriteRecorded` counts the processes inside an upload: each claim adds one, each
reply removes one and records (`UploadingSteps`). For the
refinement one step of the proof maps the initial states and one every step. Under the
mapping, the reply to an upload is a `Write`, `Publish` a publication, a delete that
takes effect a `Remove`, the start of Cleanup `Close`; every other step stutters.
That a write's object is new comes from Control, that it is published once from
Lifecycle, and that a removal leaves the newest `Retain` alone from Window.

### `KeyedProofs`

| Theorem | Property |
|---|---|
| `KeyedTypes` | `TypeOK` |
| `IndexOwnership` | `ClaimsExclusive` |
| `ReadsExplained` | `MissExplained` |
| `SweepComplete` | `CleanupEmpties` |
| `RecordedOnce` | `EveryPutRecorded` |

The inductive invariant `IInv` says who may hold an index (`Indices`: threads run only
inside Run, indices in use are below the counter and differ), where objects come from,
those still in `limbo` included (`Origins`), where every claimed index is before Cleanup
(`Claims`: stored, failed or in flight) and how far Cleanup got (`Swept`: nothing is left
below the loop variable but what landed late). The properties look at two of these at a
time: a read misses only what `Claims` puts elsewhere; a finished Cleanup has `next` at
the counter, and `Origins` leaves nothing above it, now or to come.

### `DatasetsProofs`

| Theorem | Property |
|---|---|
| `TypesHold` | `TypeOK` |
| `ReadsFind` | `ReadsExist` |
| `ClaimsFresh` | `NewKeysFresh` |
| `CleanupLeaves` | `CleanupExplained` |
| `Balanced` | `SequentialBalanced` |
| `ListingsExact` | `ListingBracketed` |

`Frame` has the types and the phases: threads run only inside Run, and `tracked` follows
the loop of Prepopulate. On it rest *Present* (what is tracked is in the bucket until
Cleanup, and a read in flight is for such a key), *Fresh* (`Ceiling`, the number of the
next new key, is above every number in the bucket and in flight, but for failed
requests; with lancedb it is a sum of a field and a counter), *Custody* (every object is
one that Cleanup can work out from the counters and, once its delete was answered, one
that landed after that, or is the unknown rest of a failed Prepopulate; the same of what
is in `limbo`), *Dealt* (after q rounds and r more claims, the
first r keys have q + 1 visits, the others q) and *Paging* (a listing has counted no more
than lies behind its token, and what was there when it began is counted or ahead).
*Paging* is where the order of keys enters: a copy that appears may fall on either side
of the token, and as a directory entry may be new or not.

### `RunnerProofs`

| Theorem | Property |
|---|---|
| `TypesHold` | `TypeOK` |
| `PhasesFollow` | `PhasesInOrder` |
| `ThreadsDivided` | `ThreadsAsConfigured` |

`Inv` is `TypeOK` (with the room in the mix's error channel: no more errors than children
that have sent), `Queue` (whoever is before the cursor was prepared, or is a child of a
mix with a failed child), `Phased` (nobody runs outside its phase; when the mix is back,
its children are) and `Shared` (what a leaf was given is what the settings say, whether or
not it starts that many goroutines). The lemmas about `Pick`, the cursor (`FlatOrder`) and
the quotas hold for any layers, any order of workloads and any weights, negative ones
included.

### `BodyProofs`

| Theorem | Property |
|---|---|
| `BodiesExact` | `BodyExact` |
| `ShortReadsSafe` | `NeverOverruns`, under a hypothesis |

`Inv`: a reader is in the pool or with one caller, and stands where its caller has read
to, the bytes so far being the ring unrolled; arithmetic modulo `Block` gives the rest.
`NeverOverruns` is violated in general (`BodyRing`); `ShortReadsSafe` proves it where every
buffer, or every body, is at most as long as the ring.

### `KeyPrefixProofs`, `RunProofs`

| Theorem | Property | Prefix `Base` |
|---|---|---|
| `ErrorsExplained` | `ErrorHasCause` | any |
| `RunsApart` | `RunsIsolated` | any |
| `TypesHold` | `TypeOK` | not empty |
| `ForeignSafe` | `ForeignUntouched` | not empty, and no foreign key in a run's directory outside it |
| `ForeignSafeDirectory` | `ForeignUntouched` | ends in a slash |
| `CleanExits` | `CleanExit` | does not start with a slash |
| `RecoveryComplete` | `CleanupRecovers` | empty, or ends in a slash and does not start with one |

The default, `s3aibench/`, satisfies every hypothesis. They are needed: TLC violates
`CleanExit` and `CleanupRecovers` with a leading slash, `TypeOK` and `ForeignUntouched`
with the empty prefix (the sweep is then of the whole bucket), and `CleanupRecovers`
without the slash at the end (`RunBarePrefix`). The second hypothesis of `ForeignSafe` is
about the prefix `bench`: a run with ULID u writes to `benchu/` by plain concatenation
(`run.go:72`), outside `bench/`, where a foreign `benchu/...` would be swept.

`KeyPrefixProofs` has what the two uses of `JoinPrefix` have in common: a joined key
extends the prefix and is joined once only; the order of keys is total, so a page has a
last key, and the empty token comes before all of them.
`Frame` (`Control`, `Stock`) says where commands and objects can be: an object in the
bucket was put by a run or was there before, and a late put is in one place only.
`Swept` is the invariant of the sweep: what it has to find is deleted, in the page it
holds, or ahead of its continuation token, also while other commands put and delete
around it. It holds for a command whose sweep lists and deletes the keys it is to find
(`Reach`), and which prefixes give that is a lemma each for `run` and `cleanup`.

### `CollectorProofs`

| Theorem | Property |
|---|---|
| `TypesHold` | `TypeOK` |
| `NothingLost` | `ShardsComplete` |
| `LinesBracketed` | `TotalsBracketed` |
| `LinesMonotone` | `TotalsMonotone` |
| `ReportExact` | `SnapshotExact`, if every latency is below an hour |

A sum over shards is a fold, about which the provers know nothing. The lemmas under *Sums*
turn it into a number of pairs, of a place and a unit it holds, and give what the proofs
need: a sum is a natural number, is that of the rest and one more place, and grows by what
one place grows. With them `Inv` is kept step by step: `Complete` (the shards add up to
what was recorded, per workload and in all), `Reading` (what `Totals` has summed and what
is left to read lies between the truth at its start and now; whatever was shown is below),
`Merging` (the same for `Snapshot`, as an equation, since nobody records then) and
`Extremes` (a minimum was recorded or is the sentinel). The hypothesis of `ReportExact` is
that of `metrics.go:232`: a minimum of exactly an hour is taken for the sentinel, and one
above it is lost.

### What is only model-checked

- Liveness: `RunTerminates`, `DisplacedIsDeleted`, `RunnerReturns`. The proof system has
  no rules for fairness or ENABLED.
- The five violated properties, whose counterexamples are TLC's.

## 5. Not modelled

- Contents and sizes of objects beyond the bytes of a body, wall-clock time, and
  latencies beyond what the collector tells apart.
- The SDK's retries (a request is one reply), its checksums, HTTP settings. A transport
  that goes on reading a body after the request was cancelled and the reader released
  is assumed not to exist: whether it does is up to `net/http`.
- Parsing of plans and parameters, `Validate`, the hash and dump of the configuration,
  report formats, histogram export and profiling: pure functions and I/O.
- The registry: a map that is filled before `main` and only read after. Its `Build`
  releases the lock before it calls a factory, so mix's factory may call it again.
- `mix.Cleanup`, which calls its children's in reverse order; the composition with
  `RunCommand` would add a loop and no state.
- `bufpool`, which no workload uses; `fake`, a test double; `sizedist`, which samples
  with floating-point arithmetic, for which TLC has no numbers.
- Zipfian and shuffled access as distributions: `Datasets` lets them pick any key.

## 6. Plan

Every safety property of the runs is proved. What is left:

1. Models: `mix.Cleanup` inside `RunCommand`, in the reverse order of its children; the
   buckets of the histogram export.
2. Proofs: of a run the theorems take the workloads' keys to be its own; a lemma that the
   keys of two workloads with different names differ would state the part of it that the
   plan's validation owes. The longest proofs (`DatasetsProofs`, `RunProofs`) have steps
   by cases that a few more lemmas would shorten.
