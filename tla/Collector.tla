----------------------------- MODULE Collector ------------------------------
(***************************************************************************)
(* The metrics collector (internal/metrics): workers record into shards,   *)
(* one mutex each; the progress ticker sums them with Totals while they    *)
(* record, and the command merges them with Snapshot when Run has          *)
(* returned.  Neither reader holds more than one shard's mutex at a time,  *)
(* so what it returns is not the state of any one moment.                  *)
(*                                                                         *)
(* A step is one critical section: of Collector.mu or of one shard.mu.     *)
(* Of an operation's statistics the model keeps the count, the errors, the *)
(* minimum latency with its sentinel, and the sample message of the only   *)
(* error code; bytes, sums and the maximum merge like the count, and each  *)
(* workload records one kind of operation.                                 *)
(***************************************************************************)
EXTENDS Naturals, FiniteSets, FiniteSetsExt, Functions

CONSTANTS
    Workers,     \* goroutines that record
    WorkloadOf,  \* the workload name each passes to Record
    ShardIdOf,   \* the ID each passes to ShardFor, or Fallback if it does not
    Fallback,    \* names Collector.fallback
    Latencies,   \* the latencies that occur; the code does not bound them
    HdrMax,      \* hdrMax, the sentinel of LatMin
    Messages,    \* messages an error can have
    NoMessage,   \* no error, or no sample yet
    MaxOps       \* bound: operations of one worker

Workloads == {WorkloadOf[w] : w \in Workers}
ShardIds == {ShardIdOf[w] : w \in Workers} \cup {Fallback}

ASSUME CollectorAssumption ==
    /\ IsFiniteSet(Workers) /\ MaxOps \in Nat /\ HdrMax \in Nat
    /\ Latencies \subseteq Nat /\ NoMessage \notin Messages

VARIABLES
    shards,      \* Collector.shards and fallback: per ID, the statistics per workload
    holds,       \* the workers whose ShardFor has returned
    ops,         \* how many operations each worker has recorded
    tick,        \* the ticker's call of Totals: what is left to read and the sums
    shown,       \* the totals the ticker printed last
    snap,        \* the command's call of Snapshot, likewise
    truth,       \* history: the operations and latencies recorded, per workload
    low          \* history: the true totals when the ticker's call began

vars == <<shards, holds, ops, tick, shown, snap, truth, low>>
-----------------------------------------------------------------------------
(* Statistics.                                                             *)

\* A fresh OpStats; an entry the code has not created yet counts as this one.
NoStats == [count |-> 0, errors |-> 0, latMin |-> HdrMax, sample |-> NoMessage]
NewShard == [wl \in Workloads |-> NoStats]

Lower(a, b) == IF b < a THEN b ELSE a

\* shard.record.
Recorded(st, lat, msg) ==
    [count  |-> st.count + 1,
     errors |-> st.errors + (IF msg = NoMessage THEN 0 ELSE 1),
     latMin |-> Lower(st.latMin, lat),
     sample |-> IF st.sample = NoMessage THEN msg ELSE st.sample]

\* mergeStats.
Merged(dst, src) ==
    [count  |-> dst.count + src.count,
     errors |-> dst.errors + src.errors,
     latMin |-> Lower(dst.latMin, src.latMin),
     sample |-> IF dst.sample = NoMessage THEN src.sample ELSE dst.sample]

\* Snapshot reports 0 for the sentinel.
Normalised(st) ==
    [st EXCEPT !.latMin = IF st.latMin = HdrMax THEN 0 ELSE st.latMin]

\* What Totals reads of a shard.
Sums(stats) == [count  |-> SumFunction([wl \in Workloads |-> stats[wl].count]),
                errors |-> SumFunction([wl \in Workloads |-> stats[wl].errors])]
Plus(a, b) == [count |-> a.count + b.count, errors |-> a.errors + b.errors]
Zero == [count |-> 0, errors |-> 0]

Idle == [pc |-> "idle"]

\* NewCollector makes the fallback shard; WithoutFallback forgets it.
WithoutFallback == {}
InitialShards == {Fallback}

Init ==
    /\ shards = [i \in InitialShards |-> NewShard]
    /\ holds = {} /\ ops = [w \in Workers |-> 0]
    /\ tick = Idle /\ shown = Zero /\ snap = Idle
    /\ truth = [wl \in Workloads |->
                [count |-> 0, errors |-> 0, latencies |-> {}]]
    /\ low = Zero
-----------------------------------------------------------------------------
(* Workers.                                                                *)

\* The existing shard of an ID is shared; FreshShard would replace it.
FreshShard(i) == [j \in DOMAIN shards \cup {i} |-> IF j = i THEN NewShard ELSE shards[j]]
SharedShard(i) ==
    [j \in DOMAIN shards \cup {i} |-> IF j \in DOMAIN shards THEN shards[j] ELSE NewShard]

\* Workers run until runner.Run has waited for all of them; then the command
\* takes its Snapshot.
Running == snap = Idle

\* ShardFor, once at the start of each worker.  A worker that records through
\* the Collector itself has the fallback shard from the beginning.
ShardFor(w) ==
    /\ Running /\ w \notin holds
    /\ holds' = holds \cup {w}
    /\ shards' = SharedShard(ShardIdOf[w])
    /\ UNCHANGED <<ops, tick, shown, snap, truth, low>>

\* The operations that were really done, one more of them.
Observed(t, lat, msg) ==
    [count     |-> t.count + 1,
     errors    |-> t.errors + (IF msg = NoMessage THEN 0 ELSE 1),
     latencies |-> t.latencies \cup {lat}]

Record(w) ==
    /\ Running /\ w \in holds /\ ops[w] < MaxOps
    /\ \E lat \in Latencies, msg \in Messages \cup {NoMessage} :
          LET wl == WorkloadOf[w]
              i == ShardIdOf[w]
          IN /\ shards' = [shards EXCEPT
                   ![i] = [shards[i] EXCEPT ![wl] = Recorded(shards[i][wl], lat, msg)]]
             /\ truth' = [truth EXCEPT ![wl] = Observed(truth[wl], lat, msg)]
    /\ ops' = [ops EXCEPT ![w] = @ + 1]
    /\ UNCHANGED <<holds, tick, shown, snap, low>>
-----------------------------------------------------------------------------
(* The two readers.                                                        *)

\* The shards to read, listed under Collector.mu; NoFallback leaves one out.
NoFallback == DOMAIN shards \ {Fallback}
AllShards == DOMAIN shards

TotalsBegin ==
    /\ tick = Idle
    /\ tick' = [pc |-> "sum", todo |-> AllShards, acc |-> Zero]
    /\ low' = Sums(truth)
    /\ UNCHANGED <<shards, holds, ops, shown, snap, truth>>

\* One shard, under its mutex; map order is arbitrary.
TotalsAdd ==
    /\ tick.pc = "sum"
    /\ \E i \in tick.todo :
          tick' = [pc |-> "sum", todo |-> tick.todo \ {i},
                   acc |-> Plus(tick.acc, Sums(shards[i]))]
    /\ UNCHANGED <<shards, holds, ops, shown, snap, truth, low>>

\* The ticker prints; it may do so before every shard was read.
TotalsEarly == tick.pc = "sum"
TotalsRead == tick.pc = "sum" /\ tick.todo = {}

TotalsEnd ==
    /\ TotalsRead
    /\ shown' = tick.acc /\ tick' = Idle
    /\ UNCHANGED <<shards, holds, ops, snap, truth, low>>

\* Snapshot is called when every worker has stopped.
SnapshotBegin ==
    /\ snap = Idle
    /\ snap' = [pc |-> "merge", todo |-> AllShards, acc |-> NewShard]
    /\ UNCHANGED <<shards, holds, ops, tick, shown, truth, low>>

SnapshotMerge ==
    /\ snap.pc = "merge"
    /\ \E i \in snap.todo :
          snap' = [pc |-> "merge", todo |-> snap.todo \ {i},
                   acc |-> [wl \in Workloads |-> Merged(snap.acc[wl], shards[i][wl])]]
    /\ UNCHANGED <<shards, holds, ops, tick, shown, truth, low>>

SnapshotEnd ==
    /\ snap.pc = "merge" /\ snap.todo = {}
    /\ snap' = [pc |-> "done", acc |-> [wl \in Workloads |-> Normalised(snap.acc[wl])]]
    /\ UNCHANGED <<shards, holds, ops, tick, shown, truth, low>>

Terminated == snap.pc = "done" /\ UNCHANGED vars

Next ==
    \/ \E w \in Workers : ShardFor(w) \/ Record(w)
    \/ TotalsBegin \/ TotalsAdd \/ TotalsEnd
    \/ SnapshotBegin \/ SnapshotMerge \/ SnapshotEnd
    \/ Terminated

Spec == Init /\ [][Next]_vars
-----------------------------------------------------------------------------
(* Properties.                                                             *)

\* Type correctness.
Stats == [count : Nat, errors : Nat, latMin : 0 .. HdrMax,
          sample : Messages \cup {NoMessage}]
Pair == [count : Nat, errors : Nat]
TypeOK ==
    /\ Fallback \in DOMAIN shards /\ DOMAIN shards \subseteq ShardIds
    /\ \A i \in DOMAIN shards : shards[i] \in [Workloads -> Stats]
    /\ holds \subseteq Workers /\ ops \in [Workers -> 0 .. MaxOps]
    /\ shown \in Pair /\ low \in Pair
    /\ tick # Idle => tick.todo \subseteq DOMAIN shards /\ tick.acc \in Pair
    /\ snap.pc = "merge" => snap.todo \subseteq DOMAIN shards
    /\ snap # Idle => snap.acc \in [Workloads -> Stats]

\* No record is lost in the shards, whichever goroutine created them and
\* however the calls of ShardFor interleave with records.
ShardsComplete == \A wl \in Workloads :
    /\ SumFunction([i \in DOMAIN shards |-> shards[i][wl].count]) = truth[wl].count
    /\ SumFunction([i \in DOMAIN shards |-> shards[i][wl].errors]) = truth[wl].errors

\* The report's numbers are those of every operation recorded: Snapshot merges
\* all shards exactly, the fallback included, and its minimum is a real one.
SnapshotExact == snap.pc = "done" => \A wl \in Workloads :
    /\ snap.acc[wl].count = truth[wl].count
    /\ snap.acc[wl].errors = truth[wl].errors
    /\ snap.acc[wl].latMin = IF truth[wl].latencies = {} THEN 0
                             ELSE Min(truth[wl].latencies)
    /\ snap.acc[wl].sample = NoMessage <=> truth[wl].errors = 0

\* A progress line is never wrong by more than what happened while it was being
\* summed: the totals lie between the true ones at its start and now.
TotalsBracketed == tick = Idle =>
    /\ low.count <= shown.count /\ shown.count <= Sums(truth).count
    /\ low.errors <= shown.errors /\ shown.errors <= Sums(truth).errors

\* Successive progress lines never go backwards, although each is summed from
\* shards that grow meanwhile.
TotalsMonotone ==
    [][shown.count <= shown'.count /\ shown.errors <= shown'.errors]_vars
=============================================================================
