---------------------------- MODULE KeyedProofs -----------------------------
(***************************************************************************)
(* Theorems about KeyedWorkload, for every number of threads, with or      *)
(* without reads and writes, and for every value of the bounds.            *)
(***************************************************************************)
EXTENDS KeyedWorkload, FiniteSetTheorems, TLAPS

\* Threads run only inside Run, every index in use was claimed, and index 0
\* belongs to Prepopulate if that succeeded.
Indices ==
    /\ main # "running" => \A t \in Threads : pc[t] = "off"
    /\ main = "start" => writtenCount = 0 /\ store = {} /\ limbo = {}
    /\ prepared => writtenCount > 0
    /\ \A t \in Threads : pc[t] \in {"put", "get"} => idx[t] < writtenCount
    /\ \A t \in Threads : pc[t] = "put" /\ idx[t] = 0 => ~prepared
    /\ \A t, u \in Threads :
          t # u /\ pc[t] = "put" /\ pc[u] = "put" => idx[t] # idx[u]

\* Where every object comes from, stored already or yet to land: a claim whose
\* PUT has returned, or the base object that a failing Prepopulate left.
Origins ==
    /\ \A k \in store \cup limbo : k < writtenCount \/ (k = 0 /\ 0 \in failed)
    /\ \A t \in Threads :
          pc[t] = "put" /\ idx[t] \in store \cup limbo => idx[t] = 0 /\ ~prepared

\* Where every claim is: stored, failed or in flight, until Cleanup starts.
Claims ==
    main \in {"start", "idle", "running"} =>
        \A k \in 0 .. writtenCount :
            \/ k = writtenCount
            \/ k \in store \cup failed
            \/ \E t \in Threads : pc[t] = "put" /\ idx[t] = k

\* How far Cleanup got: what it leaves behind has landed since.
Swept ==
    main \in {"cleanup", "cleaned"} =>
        /\ limit = writtenCount
        /\ \A k \in store : k >= next \/ k \in late
        /\ main = "cleaned" => next >= limit

IInv == TypeOK /\ Indices /\ Origins /\ Claims /\ Swept
-----------------------------------------------------------------------------
\* The initial state satisfies the invariant.
LEMMA InvInit == Init => IInv
<1> SUFFICES ASSUME Init PROVE IInv
  OBVIOUS
<1>1. TypeOK
  <2>1. pc \in [Threads -> {"off"}] /\ idx \in [Threads -> {0}]
    BY DEF Init
  <2>2. 0 \in 0 .. MaxRuns
    BY DEF MaxRuns
  <2> QED BY <2>1, <2>2 DEF Init, TypeOK
<1>2. Indices BY DEF Init, Indices
<1>3. Origins BY DEF Init, Origins
<1>4. Claims BY DEF Init, Claims
<1>5. Swept BY DEF Init, Swept
<1> QED BY <1>1, <1>2, <1>3, <1>4, <1>5 DEF IInv

\* Every step keeps the types.
LEMMA StepTypes == TypeOK /\ [Next]_vars => TypeOK'
<1> SUFFICES ASSUME TypeOK, [Next]_vars PROVE TypeOK'
  OBVIOUS
<1>1. ASSUME NEW t \in Threads, ThreadStep(t) PROVE TypeOK'
  <2>1. CASE Iterate(t) BY <2>1 DEF TypeOK, callerVars, lateVars, Iterate
  <2>2. CASE Claim(t) BY <2>2 DEF TypeOK, callerVars, lateVars, Claim, Add
  <2>3. CASE PutReturns(t)
    <3>1. /\ store' \subseteq store \cup {idx[t]} /\ puts' = puts + 1
          /\ failed' \subseteq failed \cup {idx[t]} /\ failed \subseteq failed'
          /\ limbo' \subseteq failed' /\ late' = late
      BY <2>3 DEF PutReturns, PutOutcome, PutOK, PutError, Fail, TypeOK, lateVars
    <3>2. idx[t] \in Nat BY DEF TypeOK
    <3>3. store' \subseteq Nat /\ failed' \subseteq Nat BY <3>1, <3>2 DEF TypeOK
    <3>4. limbo' \subseteq failed' /\ late' \subseteq failed' BY <3>1 DEF TypeOK
    <3>5. puts' \in Nat BY <3>1 DEF TypeOK
    <3> QED BY <2>3, <3>3, <3>4, <3>5 DEF TypeOK, callerVars, PutReturns
  <2>4. CASE PickRead(t) BY <2>4 DEF TypeOK, callerVars, lateVars, PickRead, Draw
  <2>5. CASE GetReturns(t) BY <2>5 DEF TypeOK, callerVars, lateVars, GetReturns
  <2> QED BY <1>1, <2>1, <2>2, <2>3, <2>4, <2>5 DEF ThreadStep
<1>2. CASE PrepopulateOK BY <1>2 DEF TypeOK, callerVars, lateVars, PrepopulateOK, PutOK
<1>3. CASE PrepopulateError
  <2>1. /\ store' \subseteq store \cup {0} /\ failed' = failed \cup {0}
        /\ limbo' \subseteq limbo \cup {0} /\ late' = late
    BY <1>3 DEF lateVars, PrepopulateError, PutError, Fail
  <2>2. /\ store' \subseteq Nat /\ failed' \subseteq Nat
        /\ limbo' \subseteq failed' /\ late' \subseteq failed'
    BY <2>1 DEF TypeOK
  <2> QED BY <1>3, <2>2 DEF TypeOK, PrepopulateError
<1>4. CASE StartRun BY <1>4 DEF TypeOK, callerVars, lateVars, StartRun, RunsAgain, MaxRuns
<1>5. CASE ContextDone BY <1>5 DEF TypeOK, callerVars, lateVars, ContextDone
<1>6. CASE RunReturns BY <1>6 DEF TypeOK, callerVars, lateVars, RunReturns
<1>7. CASE StartCleanup BY <1>7 DEF TypeOK, callerVars, lateVars, StartCleanup
<1>8. CASE CleanupDelete
  <2>1. /\ store' \subseteq store /\ failed' \subseteq failed \cup {next}
        /\ failed \subseteq failed' /\ limbo' = limbo /\ late' = late
    BY <1>8 DEF CleanupDelete, DeleteOK, DeleteError, Fail, lateVars
  <2>2. store' \subseteq Nat /\ failed' \subseteq Nat BY <2>1 DEF TypeOK
  <2>3. next' \in Nat /\ main' \in {"cleanup", "cleanupFailed"}
    BY <1>8 DEF CleanupDelete, TypeOK
  <2> QED BY <1>8, <2>1, <2>2, <2>3 DEF TypeOK, callerVars, lateVars, CleanupDelete
<1>9. CASE CleanupReturns BY <1>9 DEF TypeOK, callerVars, lateVars, CleanupReturns
<1>10. CASE UNCHANGED vars BY <1>10 DEF TypeOK, callerVars, lateVars, vars
<1>11. ASSUME NEW k \in limbo, Land(k) PROVE TypeOK'
  <2>1. k \in failed /\ k \in Nat BY DEF TypeOK
  <2>2. store' \subseteq Nat /\ limbo' \subseteq failed /\ late' \subseteq failed
    BY <1>11, <2>1 DEF Land, TypeOK
  <2> QED BY <1>11, <2>2 DEF TypeOK, callerVars, Land
<1> QED BY <1>1, <1>2, <1>3, <1>4, <1>5, <1>6, <1>7, <1>8, <1>9, <1>10, <1>11
        DEF Next, Terminated

\* The steps of a thread that only move it: whatever it does next, it has no
\* PUT in flight, and a GET it starts has a claimed index.
LEMMA StepMove ==
    ASSUME IInv, TypeOK', NEW t \in Threads, main = "running", pc[t] # "put",
           NEW p \in {"off", "loop", "read", "write", "get"}, NEW k \in Nat,
           p = "get" => k < writtenCount,
           pc' = [pc EXCEPT ![t] = p], idx' = [idx EXCEPT ![t] = k],
           UNCHANGED <<store, writtenCount, failed, callerVars, lateVars>>
    PROVE  IInv'
<1> USE DEF lateVars
<1>1. Indices' BY DEF IInv, TypeOK, Indices, callerVars
<1>2. Origins' BY DEF IInv, TypeOK, Origins, callerVars
<1>3. Claims' BY DEF IInv, TypeOK, Claims, callerVars
<1>4. Swept' BY DEF IInv, TypeOK, Swept, callerVars
<1> QED BY <1>1, <1>2, <1>3, <1>4 DEF IInv

\* The atomic Add: the new index is above every index claimed before.
LEMMA StepClaim ==
    ASSUME IInv, TypeOK', NEW t \in Threads, main = "running", Claim(t)
    PROVE  IInv'
<1> USE DEF Claim, Add, callerVars, lateVars
<1>1. Indices' BY DEF IInv, TypeOK, Indices
<1>2. Origins' BY DEF IInv, TypeOK, Indices, Origins
<1>3. Claims'
  <2> SUFFICES ASSUME NEW k \in 0 .. writtenCount
               PROVE  \/ k \in store \cup failed
                      \/ \E u \in Threads : pc'[u] = "put" /\ idx'[u] = k
    BY DEF IInv, TypeOK, Claims
  <2>1. CASE k = writtenCount BY <2>1 DEF IInv, TypeOK
  <2>2. CASE k # writtenCount
    <3>1. k \in store \cup failed \/ \E u \in Threads : pc[u] = "put" /\ idx[u] = k
      BY <2>2 DEF IInv, Claims
    <3> QED BY <3>1 DEF IInv, TypeOK
  <2> QED BY <2>1, <2>2
<1>4. Swept' BY DEF IInv, TypeOK, Swept
<1> QED BY <1>1, <1>2, <1>3, <1>4 DEF IInv

\* The PUT returns: its index is stored, or it failed and may be stored.
LEMMA StepPut ==
    ASSUME IInv, TypeOK', NEW t \in Threads, main = "running", PutReturns(t)
    PROVE  IInv'
<1> USE DEF PutReturns, callerVars
<1>1. /\ store \subseteq store' /\ store' \cup limbo' \subseteq store \cup limbo \cup {idx[t]}
      /\ failed \subseteq failed' /\ idx[t] \in store' \cup failed' /\ late' = late
  BY DEF PutOutcome, PutOK, PutError, Fail, lateVars
<1>2. Indices' BY <1>1 DEF IInv, TypeOK, Indices
<1>3. Origins' BY <1>1 DEF IInv, TypeOK, Indices, Origins
<1>4. Claims'
  <2> SUFFICES ASSUME NEW k \in 0 .. writtenCount, k # writtenCount
               PROVE  \/ k \in store' \cup failed'
                      \/ \E u \in Threads : pc'[u] = "put" /\ idx'[u] = k
    BY DEF IInv, TypeOK, Claims
  <2>1. k \in store \cup failed \/ \E u \in Threads : pc[u] = "put" /\ idx[u] = k
    BY DEF IInv, Claims
  <2> QED BY <1>1, <2>1 DEF IInv, TypeOK
<1>5. Swept' BY <1>1 DEF IInv, TypeOK, Swept
<1> QED BY <1>2, <1>3, <1>4, <1>5 DEF IInv

\* Every step of a thread keeps the invariant.
LEMMA StepThread ==
    ASSUME IInv, TypeOK', NEW t \in Threads, ThreadStep(t)
    PROVE  IInv'
<1>1. main = "running"
  BY DEF IInv, Indices, ThreadStep, Iterate, Claim, PutReturns, PickRead, GetReturns
<1>2. idx = [idx EXCEPT ![t] = idx[t]] /\ idx[t] \in Nat /\ 0 \in Nat
  BY DEF IInv, TypeOK
<1>3. CASE Iterate(t)
  <2>1. PICK p \in {"off", "read", "write"} : pc' = [pc EXCEPT ![t] = p]
    BY <1>3 DEF Iterate
  <2> QED BY <1>1, <1>2, <1>3, <2>1, StepMove DEF Iterate
<1>4. CASE Claim(t) BY <1>1, <1>4, StepClaim
<1>5. CASE PutReturns(t) BY <1>1, <1>5, StepPut
<1>6. CASE PickRead(t)
  <2>1. CASE writtenCount = 0
    BY <1>1, <1>2, <1>6, <2>1, StepMove DEF PickRead
  <2>2. CASE writtenCount # 0
    <3>1. PICK k \in Draw : idx' = [idx EXCEPT ![t] = k]
      BY <1>6, <2>2 DEF PickRead
    <3>2. k \in Nat /\ k < writtenCount
      BY <3>1 DEF Draw, IInv, TypeOK
    <3> QED BY <1>1, <1>6, <2>2, <3>1, <3>2, StepMove DEF PickRead
  <2> QED BY <2>1, <2>2
<1>7. CASE GetReturns(t) BY <1>1, <1>2, <1>7, StepMove DEF GetReturns
<1> QED BY <1>3, <1>4, <1>5, <1>6, <1>7 DEF ThreadStep

\* Prepopulate keeps the invariant, whether its PUT succeeds or fails.
LEMMA StepPrepopulate ==
    ASSUME IInv, TypeOK', PrepopulateOK \/ PrepopulateError
    PROVE  IInv'
<1>1. /\ main = "start" /\ main' = "idle" /\ writtenCount = 0 /\ store = {}
      /\ \A t \in Threads : pc[t] = "off"
      /\ limbo = {} /\ UNCHANGED <<pc, idx, next, limit>>
  BY DEF IInv, Indices, PrepopulateOK, PrepopulateError
<1>2. CASE PrepopulateOK
  <2>1. writtenCount' = 1 /\ store' = {0} /\ limbo' = {} /\ prepared'
    BY <1>1, <1>2 DEF PrepopulateOK, PutOK, lateVars
  <2> QED BY <1>1, <2>1 DEF IInv, Indices, Origins, Claims, Swept
<1>3. CASE PrepopulateError
  <2>1. /\ writtenCount' = 0 /\ store' \cup limbo' \subseteq {0} /\ 0 \in failed'
        /\ prepared' = prepared
    BY <1>1, <1>3 DEF PrepopulateError, PutError, Fail, lateVars
  <2> QED BY <1>1, <2>1 DEF IInv, Indices, Origins, Claims, Swept
<1> QED BY <1>2, <1>3

\* The caller's steps around Run leave the indices, the store and the failures.
LEMMA StepCaller ==
    ASSUME IInv, TypeOK',
           StartRun \/ ContextDone \/ RunReturns \/ StartCleanup \/ CleanupReturns
    PROVE  IInv'
<1> USE DEF lateVars
<1>1. Indices'
  BY DEF IInv, TypeOK, Indices, StartRun, ContextDone, RunReturns, AllStopped,
         StartCleanup, CleanupReturns
<1>2. Origins'
  BY DEF IInv, TypeOK, Indices, Origins, StartRun, ContextDone, RunReturns,
         StartCleanup, CleanupReturns
<1>3. Claims'
  BY DEF IInv, TypeOK, Indices, Claims, StartRun, ContextDone, RunReturns,
         StartCleanup, CleanupReturns
<1>4. Swept'
  BY DEF IInv, TypeOK, Swept, StartRun, ContextDone, RunReturns,
         StartCleanup, CleanupReturns
<1> QED BY <1>1, <1>2, <1>3, <1>4 DEF IInv

\* A delete takes the lowest index left, and none comes back.
LEMMA StepDelete ==
    ASSUME IInv, TypeOK', CleanupDelete
    PROVE  IInv'
<1>1. /\ main = "cleanup" /\ main' \in {"cleanup", "cleanupFailed"}
      /\ store' \subseteq store /\ failed \subseteq failed'
      /\ \A t \in Threads : pc[t] = "off"
      /\ UNCHANGED <<writtenCount, pc, idx, limit, prepared, limbo, late>>
      /\ main' = "cleanup" => next' = next + 1 /\ next \notin store'
  BY DEF IInv, Indices, CleanupDelete, DeleteOK, DeleteError, Fail, lateVars
<1>2. Indices' BY <1>1 DEF IInv, Indices
<1>3. Origins' BY <1>1 DEF IInv, Origins
<1>4. Claims' BY <1>1 DEF Claims
<1>5. Swept' BY <1>1 DEF IInv, TypeOK, Swept
<1> QED BY <1>2, <1>3, <1>4, <1>5 DEF IInv

\* A PUT that was given up lands: its index is one of those accounted for, and
\* if Cleanup is past it, it is late.
LEMMA StepLand ==
    ASSUME IInv, TypeOK', NEW k \in limbo, Land(k)
    PROVE  IInv'
<1> USE DEF Land, callerVars
<1>1. /\ k \in Nat /\ store \subseteq store' /\ late \subseteq late'
      /\ store' \cup limbo' \subseteq store \cup limbo
  BY DEF IInv, TypeOK
<1>2. Indices' BY <1>1 DEF IInv, Indices
<1>3. Origins' BY <1>1 DEF IInv, Origins
<1>4. Claims' BY <1>1 DEF IInv, Claims
<1>5. Swept'
  <2> SUFFICES ASSUME main \in {"cleanup", "cleaned"}
               PROVE  \A j \in store' : j >= next \/ j \in late'
    BY DEF IInv, Swept
  <2>1. next \in Nat BY DEF IInv, TypeOK
  <2>2. k >= next \/ k \in late' BY <1>1, <2>1 DEF Deleted
  <2> QED BY <1>1, <2>2 DEF IInv, Swept
<1> QED BY <1>2, <1>3, <1>4, <1>5 DEF IInv

\* The invariant holds in every reachable state.
THEOREM Inductive == Spec => []IInv
<1>1. IInv /\ [Next]_vars => IInv'
  <2> SUFFICES ASSUME IInv, [Next]_vars PROVE IInv'
    OBVIOUS
  <2>1. TypeOK' BY StepTypes DEF IInv
  <2>2. ASSUME NEW t \in Threads, ThreadStep(t) PROVE IInv'
    BY <2>1, <2>2, StepThread
  <2>3. CASE PrepopulateOK \/ PrepopulateError BY <2>1, <2>3, StepPrepopulate
  <2>4. CASE StartRun \/ ContextDone \/ RunReturns \/ StartCleanup \/ CleanupReturns
    BY <2>1, <2>4, StepCaller
  <2>5. CASE CleanupDelete BY <2>1, <2>5, StepDelete
  <2>6. CASE UNCHANGED vars
    BY <2>6 DEF IInv, TypeOK, Indices, Origins, Claims, Swept, vars, callerVars, lateVars
  <2>7. ASSUME NEW k \in limbo, Land(k) PROVE IInv'
    BY <2>1, <2>7, StepLand
  <2> QED BY <2>2, <2>3, <2>4, <2>5, <2>6, <2>7 DEF Next, Terminated
<1> QED BY InvInit, <1>1, PTL DEF Spec

\* Every reachable state is type correct.
THEOREM KeyedTypes == Spec => []TypeOK
<1>1. IInv => TypeOK BY DEF IInv
<1> QED BY Inductive, <1>1, PTL

\* One atomic Add gives every PUT an index of its own, above every key that a
\* successful Prepopulate or an earlier PUT created.
THEOREM IndexOwnership == Spec => []ClaimsExclusive
<1>1. IInv => ClaimsExclusive
  BY DEF IInv, Indices, Origins, ClaimsExclusive, Writing
<1> QED BY Inductive, <1>1, PTL

\* A read misses only an index whose PUT is in flight or had a failed request.
THEOREM ReadsExplained == Spec => []MissExplained
<1>1. IInv => MissExplained
  <2> SUFFICES ASSUME IInv, NEW t \in Threads, pc[t] = "get", idx[t] \notin store
               PROVE  idx[t] \in failed \/ \E u \in Writing : idx[u] = idx[t]
    BY DEF MissExplained
  <2>1. main = "running" BY DEF IInv, Indices
  <2>2. idx[t] \in 0 .. writtenCount /\ idx[t] # writtenCount
    BY DEF IInv, TypeOK, Indices
  <2> QED BY <2>1, <2>2 DEF IInv, Claims, Writing
<1> QED BY Inductive, <1>1, PTL

\* A Cleanup that succeeds leaves at most keys whose PUT was given up and took
\* effect after their delete, and the base object of a Prepopulate that failed
\* and that no write claimed.
THEOREM SweepComplete == Spec => []CleanupEmpties
<1>1. IInv => CleanupEmpties
  BY DEF IInv, TypeOK, Origins, Swept, CleanupEmpties
<1> QED BY Inductive, <1>1, PTL
-----------------------------------------------------------------------------
(* The record of every PUT.                                                *)

\* The PUTs in flight are finitely many: there is at most one per thread.
LEMMA WritingFinite == IsFiniteSet(Writing) /\ Cardinality(Writing) \in Nat
<1>1. Writing \in SUBSET Threads BY DEF Writing
<1> QED BY <1>1, KeyedAssumption, FS_Subset, FS_CardinalityType

\* A thread's step adds it to those with a PUT in flight when it claims, takes
\* it out when the PUT returns, and otherwise leaves them as they are.
LEMMA WritingSteps ==
    ASSUME TypeOK, NEW t \in Threads
    PROVE  /\ Claim(t) => t \notin Writing /\ Writing' = Writing \cup {t}
           /\ PutReturns(t) => t \in Writing /\ Writing' = Writing \ {t}
           /\ Iterate(t) \/ PickRead(t) \/ GetReturns(t) => Writing' = Writing
<1> USE DEF Writing, TypeOK
<1>1. Claim(t) => t \notin Writing /\ Writing' = Writing \cup {t}
  BY DEF Claim
<1>2. PutReturns(t) => t \in Writing /\ Writing' = Writing \ {t}
  BY DEF PutReturns
<1>3. Iterate(t) => Writing' = Writing
  BY DEF Iterate
<1>4. PickRead(t) \/ GetReturns(t) => Writing' = Writing
  BY DEF PickRead, GetReturns
<1> QED BY <1>1, <1>2, <1>3, <1>4

\* Every index but that of a successful Prepopulate is recorded by its PUT,
\* once and whatever the PUT returned (103-122).
THEOREM RecordedOnce == Spec => []EveryPutRecorded
<1>1. Init => EveryPutRecorded
  <2> SUFFICES ASSUME Init PROVE EveryPutRecorded
    OBVIOUS
  <2>1. Writing = {} BY DEF Init, Writing
  <2> QED BY <2>1, FS_EmptySet DEF Init, EveryPutRecorded
<1>2. IInv /\ EveryPutRecorded /\ [Next]_vars => EveryPutRecorded'
  <2> SUFFICES ASSUME IInv, EveryPutRecorded, [Next]_vars PROVE EveryPutRecorded'
    OBVIOUS
  <2> DEFINE base == IF prepared THEN 1 ELSE 0
  <2>0. /\ TypeOK /\ writtenCount = puts + Cardinality(Writing) + base
        /\ puts \in Nat /\ IsFiniteSet(Writing) /\ Cardinality(Writing) \in Nat
    BY WritingFinite DEF IInv, TypeOK, EveryPutRecorded
  <2>a. ASSUME Writing' = Writing, UNCHANGED <<writtenCount, puts, prepared>>
        PROVE  EveryPutRecorded'
    BY <2>0, <2>a DEF EveryPutRecorded
  <2>b. ASSUME UNCHANGED pc PROVE Writing' = Writing
    BY <2>b DEF Writing
  <2>1. ASSUME NEW t \in Threads, Claim(t) PROVE EveryPutRecorded'
    <3>1. Cardinality(Writing') = Cardinality(Writing) + 1
      BY <2>0, <2>1, WritingSteps, FS_AddElement
    <3>2. writtenCount' = writtenCount + 1 /\ puts' = puts /\ prepared' = prepared
      BY <2>1 DEF Claim, Add, callerVars
    <3> QED BY <2>0, <3>1, <3>2 DEF EveryPutRecorded
  <2>2. ASSUME NEW t \in Threads, PutReturns(t) PROVE EveryPutRecorded'
    <3>1. Cardinality(Writing') = Cardinality(Writing) - 1
      BY <2>0, <2>2, WritingSteps, FS_RemoveElement
    <3>2. writtenCount' = writtenCount /\ puts' = puts + 1 /\ prepared' = prepared
      BY <2>2 DEF PutReturns, PutOutcome, callerVars
    <3> QED BY <2>0, <3>1, <3>2 DEF EveryPutRecorded
  <2>3. ASSUME NEW t \in Threads, Iterate(t) \/ PickRead(t) \/ GetReturns(t)
        PROVE  EveryPutRecorded'
    BY <2>0, <2>3, <2>a, WritingSteps DEF Iterate, PickRead, GetReturns, callerVars
  <2>4. CASE PrepopulateOK
    <3>1. writtenCount = 0 /\ ~prepared
      BY <2>4 DEF PrepopulateOK, IInv, Indices
    <3>2. /\ writtenCount' = 1 /\ puts' = puts /\ prepared' /\ Writing' = Writing
      BY <2>4, <2>b DEF PrepopulateOK
    <3> QED BY <2>0, <3>1, <3>2 DEF EveryPutRecorded
  <2>5. CASE StartRun
    <3>1. Writing = {} /\ Writing' = {}
      BY <2>5 DEF StartRun, Writing, IInv, Indices
    <3> QED BY <2>5, <2>a, <3>1 DEF StartRun
  <2>6. CASE PrepopulateError \/ ContextDone \/ RunReturns \/ StartCleanup
             \/ CleanupDelete \/ CleanupReturns
    BY <2>6, <2>a, <2>b DEF PrepopulateError, ContextDone, RunReturns, StartCleanup,
       CleanupDelete, CleanupReturns
  <2>7. CASE UNCHANGED vars
    BY <2>7, <2>a, <2>b DEF vars, callerVars
  <2>8. ASSUME NEW k \in limbo, Land(k) PROVE EveryPutRecorded'
    BY <2>8, <2>a, <2>b DEF Land, callerVars
  <2> QED BY <2>1, <2>2, <2>3, <2>4, <2>5, <2>6, <2>7, <2>8 DEF Next, Terminated, ThreadStep
<1> QED BY <1>1, <1>2, Inductive, PTL DEF Spec
=============================================================================
