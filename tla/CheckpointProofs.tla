-------------------------- MODULE CheckpointProofs --------------------------
(***************************************************************************)
(* Theorems about Checkpoint, for every number of writers, every retain    *)
(* window and every value of the bounds.                                   *)
(***************************************************************************)
EXTENDS Checkpoint, SequenceTheorems, FiniteSetTheorems, TLAPS

(***************************************************************************)
(* Sequences: what appending to a list and cutting its old end yields.     *)
(***************************************************************************)

\* The range of a sequence, by position.
LEMMA RangeByPosition ==
    ASSUME NEW s \in Seq(Nat)
    PROVE  /\ Range(s) \subseteq Nat
           /\ \A x : x \in Range(s) <=> \E i \in 1 .. Len(s) : s[i] = x
BY DEF Range

\* The n youngest elements of a sequence, by length and by position.
LEMMA YoungestShape ==
    ASSUME NEW s \in Seq(Nat), NEW n \in Nat
    PROVE  LET y == RS!Youngest(s, n)
           IN /\ y \in Seq(Nat)
              /\ Len(y) = IF Len(s) > n THEN n ELSE Len(s)
              /\ \A i \in 1 .. Len(y) : y[i] = s[Len(s) - Len(y) + i]
<1>1. CASE Len(s) > n
  <2>1. RS!Youngest(s, n) = SubSeq(s, Len(s) - n + 1, Len(s))
    BY <1>1 DEF RS!Youngest
  <2> QED BY <1>1, <2>1
<1>2. CASE ~(Len(s) > n)
  <2>1. RS!Youngest(s, n) = s
    BY <1>2 DEF RS!Youngest
  <2> QED BY <1>2, <2>1
<1> QED BY <1>1, <1>2

\* Cutting what exceeds the window off an extended window slides the window;
\* what is cut was published before everything that stays.
LEMMA Slide ==
    ASSUME NEW s \in Seq(Nat), NEW k \in Nat, Retain \in Nat
    PROVE  LET all == Append(RS!Youngest(s, Retain), k)
               t   == Append(s, k)
           IN /\ Trim(all).keep = RS!Youngest(t, Retain)
              /\ Trim(all).cut \in Seq(Nat)
              /\ \A x \in Range(Trim(all).cut) :
                    \E i \in 1 .. Len(t) : i <= Len(t) - Retain /\ t[i] = x
              /\ Range(all) \subseteq Range(Trim(all).keep) \cup Range(Trim(all).cut)
<1> DEFINE y == RS!Youngest(s, Retain)
           all == Append(y, k)
           n == Excess(Len(all))
           t == Append(s, k)
           z == RS!Youngest(t, Retain)
           cut == SubSeq(all, 1, n)
<1>1. /\ y \in Seq(Nat)
      /\ Len(y) = IF Len(s) > Retain THEN Retain ELSE Len(s)
      /\ \A i \in 1 .. Len(y) : y[i] = s[Len(s) - Len(y) + i]
  BY YoungestShape
<1>2. /\ t \in Seq(Nat) /\ Len(t) = Len(s) + 1 /\ t[Len(t)] = k
      /\ \A i \in 1 .. Len(s) : t[i] = s[i]
  BY AppendProperties
<1>3. /\ z \in Seq(Nat)
      /\ Len(z) = IF Len(t) > Retain THEN Retain ELSE Len(t)
      /\ \A i \in 1 .. Len(z) : z[i] = t[Len(t) - Len(z) + i]
  BY <1>2, YoungestShape
<1> HIDE DEF y, t, z
<1>4. /\ all \in Seq(Nat) /\ Len(all) = Len(y) + 1 /\ all[Len(all)] = k
      /\ \A i \in 1 .. Len(y) : all[i] = y[i]
  BY <1>1, AppendProperties
<1> HIDE DEF all
<1>0. Len(s) \in Nat /\ Len(y) \in Nat /\ Len(z) \in Nat /\ Len(t) \in Nat /\ Len(all) \in Nat
  BY <1>1, <1>2, <1>3, <1>4, LenProperties
<1>5. \A i \in 1 .. Len(all) : all[i] = t[Len(t) - Len(all) + i]
  <2> SUFFICES ASSUME NEW i \in 1 .. Len(all)
               PROVE  all[i] = t[Len(t) - Len(all) + i]
    OBVIOUS
  <2>1. CASE i = Len(all)
    BY <2>1, <1>0, <1>2, <1>4
  <2>2. CASE i < Len(all)
    <3>1. i \in 1 .. Len(y)
      BY <2>2, <1>0, <1>4
    <3>2. all[i] = s[Len(s) - Len(y) + i]
      BY <3>1, <1>1, <1>4
    <3>3. /\ Len(t) - Len(all) + i = Len(s) - Len(y) + i
          /\ Len(s) - Len(y) + i \in 1 .. Len(s)
      BY <3>1, <1>0, <1>1, <1>2, <1>4
    <3> QED BY <3>2, <3>3, <1>2
  <2> QED BY <2>1, <2>2, <1>0
<1>6. n \in Nat /\ n = IF Len(all) > Retain THEN Len(all) - Retain ELSE 0
  BY <1>0 DEF Excess
<1>7. n <= Len(all) /\ Len(all) - n = Len(z)
  BY <1>0, <1>1, <1>2, <1>3, <1>4, <1>6
<1> HIDE DEF n
<1>n. n \in Nat /\ n <= Len(all) /\ Len(z) = Len(all) - n
  BY <1>6, <1>7
<1>8. cut \in Seq(Nat) /\ Len(cut) = n /\ \A i \in 1 .. n : cut[i] = all[i]
  BY <1>0, <1>4, <1>n, SubSeqProperties, SMTT(30)
<1>9. SubSeq(all, n + 1, Len(all)) = z
  <2>1. /\ SubSeq(all, n + 1, Len(all)) \in Seq(Nat)
        /\ Len(SubSeq(all, n + 1, Len(all))) = Len(z)
        /\ \A i \in 1 .. Len(z) : SubSeq(all, n + 1, Len(all))[i] = all[n + i]
    <3>1. /\ n + 1 \in Int /\ Len(all) \in Int
          /\ \A i \in n + 1 .. Len(all) : all[i] \in Nat
      BY <1>0, <1>4, <1>n
    <3> DEFINE rest == SubSeq(all, n + 1, Len(all))
    <3>2. /\ rest \in Seq(Nat)
          /\ Len(rest) = IF n + 1 <= Len(all) THEN Len(all) - (n + 1) + 1 ELSE 0
          /\ \A i \in 1 .. Len(all) - (n + 1) + 1 : rest[i] = all[n + 1 + i - 1]
      BY <3>1, SubSeqProperties, SMTT(20)
    <3> HIDE DEF rest
    <3>3. /\ Len(rest) = Len(z) /\ Len(all) - (n + 1) + 1 = Len(z)
      BY <3>2, <1>0, <1>n
    <3>4. \A i \in 1 .. Len(z) : n + 1 + i - 1 = n + i
      BY <1>0, <1>n
    <3>5. \A i \in 1 .. Len(z) : rest[i] = all[n + i]
      BY <3>2, <3>3, <3>4
    <3> QED BY <3>2, <3>3, <3>5 DEF rest
  <2>2. \A i \in 1 .. Len(z) : all[n + i] = z[i]
    <3> SUFFICES ASSUME NEW i \in 1 .. Len(z) PROVE all[n + i] = z[i]
      OBVIOUS
    <3>1. n + i \in 1 .. Len(all) /\ Len(t) - Len(all) + (n + i) = Len(t) - Len(z) + i
      BY <1>0, <1>n
    <3> QED BY <3>1, <1>3, <1>5
  <2> HIDE DEF cut
  <2> QED BY <2>1, <2>2, <1>3, SeqEqual
<1>10. ASSUME NEW x \in Range(cut)
       PROVE  \E i \in 1 .. Len(t) : i <= Len(t) - Retain /\ t[i] = x
  <2>1. PICK j \in 1 .. n : cut[j] = x
    BY <1>8, RangeByPosition, ZenonT(30)
  <2>2. all[j] = t[Len(t) - Len(all) + j]
    BY <1>0, <1>5, <1>6, <1>7, <2>1
  <2>3. /\ Len(t) - Len(all) + j \in 1 .. Len(t)
        /\ Len(t) - Len(all) + j <= Len(t) - Retain
    <3>1. Len(t) - Retain = Len(t) - Len(all) + n \/ n = 0
      <4>1. CASE Len(all) > Retain
        <5>1. n = Len(all) - Retain
          BY <4>1, <1>6
        <5> QED BY <5>1, <1>0
      <4>2. CASE ~(Len(all) > Retain)
        BY <4>2, <1>6
      <4> QED BY <4>1, <4>2
    <3>2. Len(all) <= Len(t)
      BY <1>0, <1>1, <1>2, <1>4
    <3> QED BY <3>1, <3>2, <1>0, <1>n, <2>1
  <2> QED BY <1>8, <2>1, <2>2, <2>3
<1> HIDE DEF cut
<1>11. Range(all) \subseteq Range(z) \cup Range(cut)
  <2> SUFFICES ASSUME NEW i \in 1 .. Len(all)
               PROVE  all[i] \in Range(z) \cup Range(cut)
    BY <1>4, RangeByPosition
  <2>1. CASE i <= n
    BY <2>1, <1>8, <1>n, <1>0, RangeByPosition
  <2>2. CASE i > n
    <3>1. i - n \in 1 .. Len(z) /\ all[i] = z[i - n]
      <4>1. i - n \in 1 .. Len(z) /\ Len(t) - Len(all) + i = Len(t) - Len(z) + (i - n)
        BY <2>2, <1>0, <1>n
      <4> QED BY <4>1, <1>3, <1>5
    <3> QED BY <3>1, <1>3, RangeByPosition
  <2> QED BY <2>1, <2>2, <1>n, <1>0
<1>12. Trim(all).keep = z /\ Trim(all).cut = cut
  BY <1>9 DEF Trim, Split, n, cut
<1> QED BY <1>8, <1>10, <1>11, <1>12 DEF y, all, t, z

\* The members of a window, by position in the full sequence.
LEMMA YoungestMembers ==
    ASSUME NEW s \in Seq(Nat), NEW n \in Nat
    PROVE  \A x : x \in Range(RS!Youngest(s, n)) <=>
                     \E i \in 1 .. Len(s) : i > Len(s) - n /\ s[i] = x
<1> DEFINE y == RS!Youngest(s, n)
<1>1. /\ y \in Seq(Nat)
      /\ Len(y) = IF Len(s) > n THEN n ELSE Len(s)
      /\ \A i \in 1 .. Len(y) : y[i] = s[Len(s) - Len(y) + i]
  BY YoungestShape
<1> HIDE DEF y
<1>2. Len(s) \in Nat /\ Len(y) \in Nat
  BY <1>1, LenProperties
<1>3. /\ Len(y) <= Len(s) /\ Len(y) <= n
      /\ \A i \in 1 .. Len(s) : i > Len(s) - n => i > Len(s) - Len(y)
  BY <1>1, <1>2
<1>4. ASSUME NEW x, x \in Range(y)
      PROVE  \E i \in 1 .. Len(s) : i > Len(s) - n /\ s[i] = x
  <2>1. PICK j \in 1 .. Len(y) : y[j] = x
    BY <1>1, <1>4, RangeByPosition
  <2>2. /\ Len(s) - Len(y) + j \in 1 .. Len(s)
        /\ Len(s) - Len(y) + j > Len(s) - n
    BY <1>2, <1>3
  <2> QED BY <1>1, <2>1, <2>2
<1>5. ASSUME NEW i \in 1 .. Len(s), i > Len(s) - n PROVE s[i] \in Range(y)
  <2> DEFINE j == i - (Len(s) - Len(y))
  <2>1. j \in 1 .. Len(y) /\ Len(s) - Len(y) + j = i
    BY <1>2, <1>3, <1>5
  <2> QED BY <1>1, <2>1, RangeByPosition
<1> QED BY <1>4, <1>5 DEF y

\* A nonempty sequence holds its head and its tail, and nothing else.
LEMMA HeadAndTail ==
    ASSUME NEW s \in Seq(Nat), s # <<>>
    PROVE  /\ Head(s) \in Range(s) /\ Tail(s) \in Seq(Nat)
           /\ Range(Tail(s)) \subseteq Range(s)
           /\ Range(s) \subseteq {Head(s)} \cup Range(Tail(s))
<1>1. /\ Len(s) \in Nat /\ Len(s) >= 1 /\ Head(s) = s[1]
      /\ Tail(s) \in Seq(Nat) /\ Len(Tail(s)) = Len(s) - 1
      /\ \A i \in 1 .. Len(s) - 1 : Tail(s)[i] = s[i + 1]
  BY HeadTailProperties, LenProperties
<1>2. Head(s) \in Range(s)
  BY <1>1, RangeByPosition
<1>3. ASSUME NEW x \in Range(Tail(s)) PROVE x \in Range(s)
  <2>1. PICK i \in 1 .. Len(Tail(s)) : Tail(s)[i] = x
    BY <1>1, RangeByPosition
  <2>2. i \in 1 .. Len(s) - 1 /\ i + 1 \in 1 .. Len(s)
    BY <1>1
  <2>3. s[i + 1] = x
    BY <1>1, <2>1, <2>2
  <2> QED BY <2>2, <2>3, RangeByPosition
<1>4. ASSUME NEW x \in Range(s), x # Head(s) PROVE x \in Range(Tail(s))
  <2>1. PICK i \in 1 .. Len(s) : s[i] = x
    BY RangeByPosition
  <2>2. i - 1 \in 1 .. Len(s) - 1 /\ (i - 1) + 1 = i
    BY <1>1, <1>4, <2>1
  <2>3. Tail(s)[i - 1] = x
    BY <1>1, <2>1, <2>2
  <2> QED BY <1>1, <2>2, <2>3, RangeByPosition
<1> QED BY <1>1, <1>2, <1>3, <1>4

(***************************************************************************)
(* Type correctness.                                                       *)
(***************************************************************************)

\* Every variable keeps its type in every step of the workload and its caller.
THEOREM TypeCorrect == Spec => []TypeOK
<1>1. Init => TypeOK
  <2> HAVE Init
  <2>1. <<>> \in Seq(Nat)
    OBVIOUS
  <2>2. toDel \in [Procs -> Seq(Nat)] /\ key \in [Procs -> Nat]
    BY <2>1 DEF Init, NoKey
  <2>3. /\ versions \in Seq(Nat) /\ doomed \in Seq(Nat) /\ published \in Seq(Nat)
        /\ pc \in [Procs -> {"off", "select", "upload", "publish", "delete"}]
    BY <2>1 DEF Init
  <2>4. counter \in 0 .. MaxKey /\ runs \in 0 .. MaxRuns
    BY CheckpointAssumption DEF Init, MaxRuns
  <2> QED BY <2>2, <2>3, <2>4 DEF Init, TypeOK, NoKey
<1>2. TypeOK /\ [Next]_vars => TypeOK'
  <2> SUFFICES ASSUME TypeOK, [Next]_vars PROVE TypeOK'
    OBVIOUS
  <2> USE CheckpointAssumption DEF TypeOK, writerVars, readerVars, NoKey, MaxRuns
  <2>1. ASSUME NEW p \in Procs, UploadSucceeded(p) PROVE TypeOK'
    <3>1. store' \subseteq Nat
      <4>1. store' = store \cup {key[p]} /\ key[p] \in Nat
        BY <2>1 DEF UploadSucceeded, UploadOK
      <4> QED BY <4>1
    <3>2. pc' \in [Procs -> {"off", "select", "upload", "publish", "delete"}]
      BY <2>1 DEF UploadSucceeded
    <3> QED BY <2>1, <3>1, <3>2 DEF UploadSucceeded, UploadOK
  <2>2. ASSUME NEW p \in Procs, UploadFailed(p) PROVE TypeOK'
    <3>1. store' \subseteq Nat /\ failed' \subseteq Nat
      BY <2>2 DEF UploadFailed, RecordError, UploadError, Fail
    <3>2. pc' \in [Procs -> {"off", "select", "upload", "publish", "delete"}]
      BY <2>2 DEF UploadFailed, RecordError, Return
    <3>3. key' \in [Procs -> Nat] /\ puts' \in Nat
      BY <2>2 DEF UploadFailed, RecordError
    <3> QED BY <2>2, <3>1, <3>2, <3>3 DEF UploadFailed, RecordError, Return
  <2>3. ASSUME NEW p \in Procs, Publish(p) PROVE TypeOK'
    <3> DEFINE all == Append(versions, key[p])
               n == Excess(Len(all))
    <3>1. all \in Seq(Nat) /\ Len(all) \in Nat /\ n \in 0 .. Len(all)
      BY DEF Excess
    <3>2. Trim(all).keep \in Seq(Nat) /\ Trim(all).cut \in Seq(Nat)
      <4> HIDE DEF all
      <4>1. /\ SubSeq(all, n + 1, Len(all)) \in Seq(Nat)
            /\ SubSeq(all, 1, n) \in Seq(Nat)
        <5> HIDE DEF n
        <5>1. n + 1 \in Nat /\ n \in Nat
          BY <3>1
        <5> QED BY <3>1, <5>1, SubSeqProperties
      <4> QED BY <4>1 DEF Trim, Split
    <3>3. versions' \in Seq(Nat) /\ toDel' \in [Procs -> Seq(Nat)]
      BY <2>3, <3>2 DEF Publish
    <3>4. pc' \in [Procs -> {"off", "select", "upload", "publish", "delete"}]
      BY <2>3 DEF Publish
    <3>5. key' \in [Procs -> Nat] /\ published' \in Seq(Nat) /\ overtaken' \in Nat
      BY <2>3 DEF Publish
    <3> QED BY <2>3, <3>3, <3>4, <3>5 DEF Publish
  <2>4. ASSUME NEW p \in Procs, RetainDelete(p) PROVE TypeOK'
    <3>1. Head(toDel[p]) \in Nat /\ Tail(toDel[p]) \in Seq(Nat)
      BY <2>4 DEF RetainDelete
    <3>2. store' \subseteq Nat /\ failed' \subseteq Nat
      BY <2>4, <3>1 DEF RetainDelete, DeleteOutcome, DeleteOK, DeleteError, Fail
    <3>3. toDel' \in [Procs -> Seq(Nat)]
      BY <2>4, <3>1 DEF RetainDelete
    <3> QED BY <2>4, <3>2, <3>3 DEF RetainDelete
  <2>5. ASSUME NEW p \in Procs, WriteDone(p) PROVE TypeOK'
    BY <2>5 DEF WriteDone, Return
  <2>6. ASSUME NEW w \in Writers, TimerFires(w) PROVE TypeOK'
    BY <2>6 DEF TimerFires, Claim, Bump, Procs
  <2>7. ASSUME NEW w \in Writers, WriterStops(w) PROVE TypeOK'
    BY <2>7 DEF WriterStops, Procs
  <2>8. CASE ReaderLoop
    BY <2>8 DEF ReaderLoop, ReadsOn
  <2>9. CASE PickLatest
    BY <2>9 DEF PickLatest, LatestEntry
  <2>10. CASE GetReturns
    BY <2>10 DEF GetReturns
  <2>11. CASE Prepopulate
    BY <2>11 DEF Prepopulate, Claim, Bump, Procs
  <2>12. CASE StartRun
    BY <2>12 DEF StartRun, RunsAgain
  <2>13. CASE ContextDone
    BY <2>13 DEF ContextDone
  <2>14. CASE RunReturns
    BY <2>14 DEF RunReturns, AllStopped
  <2>15. CASE StartCleanup
    BY <2>15 DEF StartCleanup
  <2>16. CASE CleanupDelete
    <3>1. Head(doomed) \in Nat /\ Tail(doomed) \in Seq(Nat)
      BY <2>16 DEF CleanupDelete
    <3>2. store' \subseteq Nat /\ failed' \subseteq Nat
      BY <2>16, <3>1 DEF CleanupDelete, DeleteOK, DeleteError, Fail
    <3> QED BY <2>16, <3>1, <3>2 DEF CleanupDelete
  <2>17. CASE CleanupReturns
    BY <2>17 DEF CleanupReturns
  <2>18. CASE UNCHANGED vars
    BY <2>18 DEF vars
  <2> QED
    BY <2>1, <2>2, <2>3, <2>4, <2>5, <2>6, <2>7, <2>8, <2>9, <2>10, <2>11,
       <2>12, <2>13, <2>14, <2>15, <2>16, <2>17, <2>18
       DEF Next, WriteStep, ReaderStep, Terminated
<1> QED BY <1>1, <1>2, PTL DEF Spec

(***************************************************************************)
(* The inductive invariant, in four groups.                                *)
(***************************************************************************)

Closing == main \in {"cleanup", "cleaned", "cleanupFailed"}

\* Who can be where, and what the locals of writeOneAt hold there.
Control ==
    /\ pc[Caller] # "select"
    /\ main # "prepopulate" => pc[Caller] = "off"
    /\ main # "running" => rpc = "off" /\ \A w \in Writers : pc[w] = "off"
    /\ \A p \in Procs :
          /\ IF pc[p] \in {"upload", "publish"} THEN key[p] \in 1 .. counter
                                               ELSE key[p] = NoKey
          /\ pc[p] # "delete" => toDel[p] = <<>>

\* A key is claimed, uploaded and published at most once, in that order.
Lifecycle ==
    /\ store \subseteq 1 .. counter
    /\ \A i \in 1 .. Len(published) : published[i] \in 1 .. counter
    /\ \A i, j \in 1 .. Len(published) : published[i] = published[j] => i = j
    /\ \A p, q \in Procs : p # q /\ key[p] = key[q] => key[p] = NoKey
    /\ \A p \in Procs : pc[p] = "upload" => key[p] \notin store
    /\ \A p \in Procs : key[p] # NoKey =>
          \A i \in 1 .. Len(published) : published[i] # key[p]
    /\ WindowIsLatest

\* Only what has left the window is on its way out, so the window is stored.
Window ==
    /\ \A p \in Procs : \A x \in Range(toDel[p]) :
          \E i \in 1 .. Len(published) :
             i <= Len(published) - Retain /\ published[i] = x
    /\ \A p \in Procs : pc[p] = "publish" => key[p] \in store
    /\ ~Closing => \A i \in 1 .. Len(published) :
          i > Len(published) - Retain => published[i] \in store
    /\ rpc = "get" /\ overtaken < Retain =>
          /\ overtaken < Len(published)
          /\ published[Len(published) - overtaken] = rkey

\* Nothing stored is forgotten, before, during and after Cleanup.
Custody ==
    /\ NoSilentLeak
    /\ main = "cleanup" => store \subseteq Range(doomed) \cup failed
    /\ main = "cleaned" => store \subseteq failed

IInv == TypeOK /\ Control /\ Lifecycle /\ Window /\ Custody

\* The control invariant: workers are off outside Run, the caller writes only
\* during Prepopulate, and the locals are empty where the code has none.
THEOREM ControlHolds == Spec => []Control
<1>1. Init => Control
  BY CheckpointAssumption DEF Init, Control, Procs, NoKey
<1>2. TypeOK /\ Control /\ [Next]_vars => Control'
  <2> SUFFICES ASSUME TypeOK, Control, [Next]_vars PROVE Control'
    OBVIOUS
  <2> USE CheckpointAssumption
      DEF TypeOK, Control, Procs, writerVars, readerVars, NoKey
  <2>1. ASSUME NEW p \in Procs, UploadSucceeded(p) PROVE Control'
    BY <2>1 DEF UploadSucceeded
  <2>2. ASSUME NEW p \in Procs, UploadFailed(p) PROVE Control'
    BY <2>2 DEF UploadFailed, RecordError, Return
  <2>3. ASSUME NEW p \in Procs, Publish(p) PROVE Control'
    BY <2>3 DEF Publish
  <2>4. ASSUME NEW p \in Procs, RetainDelete(p) PROVE Control'
    BY <2>4 DEF RetainDelete
  <2>5. ASSUME NEW p \in Procs, WriteDone(p) PROVE Control'
    BY <2>5 DEF WriteDone, Return
  <2>6. ASSUME NEW w \in Writers, TimerFires(w) PROVE Control'
    BY <2>6, SMTT(30) DEF TimerFires, Claim, Bump
  <2>7. ASSUME NEW w \in Writers, WriterStops(w) PROVE Control'
    BY <2>7 DEF WriterStops
  <2>8. CASE ReaderStep
    BY <2>8 DEF ReaderStep, ReaderLoop, ReadsOn, PickLatest, LatestEntry, GetReturns
  <2>9. CASE Prepopulate
    BY <2>9 DEF Prepopulate, Claim, Bump
  <2>10. CASE StartRun
    BY <2>10 DEF StartRun, RunsAgain
  <2>11. CASE ContextDone \/ RunReturns \/ StartCleanup \/ CleanupReturns
    BY <2>11 DEF ContextDone, RunReturns, AllStopped, StartCleanup, CleanupReturns
  <2>12. CASE CleanupDelete
    BY <2>12 DEF CleanupDelete
  <2>13. CASE UNCHANGED vars
    BY <2>13 DEF vars
  <2> QED
    BY <2>1, <2>2, <2>3, <2>4, <2>5, <2>6, <2>7, <2>8, <2>9, <2>10, <2>11,
       <2>12, <2>13 DEF Next, WriteStep, Terminated
<1> QED BY <1>1, <1>2, TypeCorrect, PTL DEF Spec

\* What a publication appends, by position.
LEMMA PublishedByPosition ==
    ASSUME TypeOK, NEW p \in Procs, Publish(p)
    PROVE  /\ published' \in Seq(Nat)
           /\ Len(published) \in Nat /\ Len(published') = Len(published) + 1
           /\ published'[Len(published')] = key[p]
           /\ \A i \in 1 .. Len(published) : published'[i] = published[i]
<1>1. published \in Seq(Nat) /\ key[p] \in Nat /\ published' = Append(published, key[p])
  BY DEF TypeOK, Publish
<1> QED BY <1>1, AppendProperties, LenProperties

\* Keys are claimed once, uploaded once and published once, and the list is
\* the window of the latest publications.
THEOREM LifecycleHolds == Spec => []Lifecycle
<1>1. Init => Lifecycle
  <2> SUFFICES ASSUME Init PROVE Lifecycle
    OBVIOUS
  <2>1. /\ published = <<>> /\ Len(published) = 0 /\ published \in Seq(Nat)
        /\ versions = <<>>
    BY DEF Init
  <2>2. WindowIsLatest
    <3>1. RS!Youngest(published, Retain) = published
      BY <2>1, CheckpointAssumption DEF RS!Youngest
    <3> QED BY <2>1, <3>1 DEF WindowIsLatest
  <2> QED BY <2>1, <2>2 DEF Init, Lifecycle, NoKey
<1>2. TypeOK /\ Control /\ Lifecycle /\ [Next]_vars => Lifecycle'
  <2> SUFFICES ASSUME TypeOK, Control, Lifecycle, [Next]_vars PROVE Lifecycle'
    OBVIOUS
  <2>0. /\ Len(published) \in Nat /\ counter \in Nat /\ NoKey = 0
        /\ \A p \in Procs : key[p] \in 0 .. counter
    BY LenProperties DEF TypeOK, Control, NoKey
  <2>a. WindowIsLatest /\ UNCHANGED <<versions, published>> => WindowIsLatest'
    BY DEF WindowIsLatest
  <2>1. ASSUME NEW p \in Procs, UploadSucceeded(p) PROVE Lifecycle'
    <3>1. /\ store' = store \cup {key[p]} /\ pc' = [pc EXCEPT ![p] = "publish"]
          /\ UNCHANGED <<counter, versions, published, key>>
      BY <2>1 DEF UploadSucceeded, UploadOK
    <3>2. key[p] \in 1 .. counter
      BY <2>1 DEF UploadSucceeded, Control
    <3>3. store' \subseteq 1 .. counter'
      BY <3>1, <3>2 DEF Lifecycle
    <3>4. ASSUME NEW q \in Procs, pc'[q] = "upload" PROVE key'[q] \notin store'
      <4>1. q # p /\ pc[q] = "upload"
        BY <3>1, <3>4 DEF TypeOK
      <4>2. key[q] # key[p] /\ key[q] \notin store
        BY <2>0, <3>2, <4>1 DEF Lifecycle
      <4> QED BY <3>1, <4>2
    <3> QED BY <2>a, <3>1, <3>3, <3>4 DEF Lifecycle
  <2>2. ASSUME NEW p \in Procs, UploadFailed(p) PROVE Lifecycle'
    BY <2>0, <2>2, <2>a
       DEF UploadFailed, RecordError, UploadError, Return, TypeOK, Control, Lifecycle, readerVars
  <2>3. ASSUME NEW p \in Procs, Publish(p) PROVE Lifecycle'
    <3>1. /\ published' \in Seq(Nat) /\ Len(published') = Len(published) + 1
          /\ published'[Len(published')] = key[p]
          /\ \A i \in 1 .. Len(published) : published'[i] = published[i]
      BY <2>3, PublishedByPosition
    <3>2. /\ key[p] \in 1 .. counter
          /\ \A i \in 1 .. Len(published) : published[i] # key[p]
      BY <2>0, <2>3 DEF Publish, Control, Lifecycle
    <3>3. /\ UNCHANGED <<store, counter>>
          /\ key' = [key EXCEPT ![p] = NoKey] /\ pc' = [pc EXCEPT ![p] = "delete"]
      BY <2>3 DEF Publish
    <3>4. \A i \in 1 .. Len(published') : published'[i] \in 1 .. counter'
      BY <2>0, <3>1, <3>2, <3>3, SMTT(30) DEF Lifecycle
    <3>5. \A i, j \in 1 .. Len(published') : published'[i] = published'[j] => i = j
      BY <2>0, <3>1, <3>2 DEF Lifecycle
    <3>6. /\ \A q, r \in Procs : q # r /\ key'[q] = key'[r] => key'[q] = NoKey
          /\ \A q \in Procs : pc'[q] = "upload" => key'[q] \notin store'
      BY <3>3 DEF TypeOK, Lifecycle
    <3>7. \A q \in Procs : key'[q] # NoKey =>
             \A i \in 1 .. Len(published') : published'[i] # key'[q]
      <4> SUFFICES ASSUME NEW q \in Procs, key'[q] # NoKey,
                          NEW i \in 1 .. Len(published')
                   PROVE  published'[i] # key'[q]
        OBVIOUS
      <4>1. q # p /\ key'[q] = key[q] /\ key[q] # NoKey
        BY <3>3 DEF TypeOK
      <4>2. key[q] # key[p]
        BY <4>1 DEF Lifecycle
      <4> QED BY <2>0, <3>1, <4>1, <4>2 DEF Lifecycle
    <3>8. WindowIsLatest'
      <4>1. published' = Append(published, key[p])
        BY <2>3 DEF Publish
      <4>2. versions' = LET all == Append(RS!Youngest(published, Retain), key[p])
                        IN Trim(all).keep
        BY <2>3 DEF Publish, Lifecycle, WindowIsLatest
      <4>3. published \in Seq(Nat) /\ key[p] \in Nat /\ Retain \in Nat
        BY CheckpointAssumption DEF TypeOK
      <4>4. versions' = RS!Youngest(published', Retain)
        BY <4>1, <4>2, <4>3, Slide
      <4> QED BY <4>4 DEF WindowIsLatest
    <3>9. store' \subseteq 1 .. counter'
      BY <3>3 DEF Lifecycle
    <3> QED BY <3>4, <3>5, <3>6, <3>7, <3>8, <3>9 DEF Lifecycle, NoKey
  <2>4. ASSUME NEW p \in Procs, RetainDelete(p) PROVE Lifecycle'
    BY <2>4, <2>a DEF RetainDelete, DeleteOutcome, DeleteOK, DeleteError, Lifecycle
  <2>5. ASSUME NEW p \in Procs, WriteDone(p) PROVE Lifecycle'
    BY <2>5, <2>a DEF WriteDone, Return, TypeOK, Lifecycle
  <2>c. ASSUME NEW p \in Procs, Claim(p), pc[p] # "publish", pc[p] # "upload",
               UNCHANGED <<store, versions, published>>
        PROVE  Lifecycle'
    <3>1. /\ counter' = counter + 1 /\ pc' = [pc EXCEPT ![p] = "upload"]
          /\ key' = [key EXCEPT ![p] = counter + 1]
      BY <2>c DEF Claim, Bump
    <3>2. counter + 1 \notin 1 .. counter /\ 1 .. counter \subseteq 1 .. counter'
      BY <2>0, <3>1
    <3> QED BY <2>0, <2>a, <2>c, <3>1, <3>2, SMTT(30) DEF TypeOK, Lifecycle
  <2>6. ASSUME NEW w \in Writers, TimerFires(w) PROVE Lifecycle'
    BY <2>6, <2>c DEF TimerFires, Procs
  <2>7. ASSUME NEW w \in Writers, WriterStops(w) PROVE Lifecycle'
    BY <2>7, <2>a DEF WriterStops, TypeOK, Lifecycle
  <2>8. CASE ReaderStep
    BY <2>8, <2>a
       DEF ReaderStep, ReaderLoop, ReadsOn, PickLatest, LatestEntry, GetReturns, Lifecycle, writerVars
  <2>9. CASE Prepopulate
    BY <2>9, <2>c DEF Prepopulate, Procs, Control
  <2>10. CASE StartRun
    BY <2>10, <2>a DEF StartRun, RunsAgain, TypeOK, Lifecycle
  <2>11. CASE ContextDone \/ RunReturns \/ StartCleanup \/ CleanupReturns
    BY <2>11, <2>a
       DEF ContextDone, RunReturns, AllStopped, StartCleanup, CleanupReturns, Lifecycle, writerVars
  <2>12. CASE CleanupDelete
    BY <2>12, <2>a DEF CleanupDelete, DeleteOK, DeleteError, Lifecycle, writerVars
  <2>13. CASE UNCHANGED vars
    BY <2>13, <2>a DEF vars, Lifecycle
  <2> QED
    BY <2>1, <2>2, <2>3, <2>4, <2>5, <2>6, <2>7, <2>8, <2>9, <2>10, <2>11,
       <2>12, <2>13 DEF Next, WriteStep, Terminated
<1> QED BY <1>1, <1>2, TypeCorrect, ControlHolds, PTL DEF Spec

\* A write is under way only during Prepopulate or Run.
LEMMA BusyIsOpen ==
    ASSUME Control, NEW p \in Procs, pc[p] # "off"
    PROVE  main \in {"prepopulate", "running"}
BY DEF Control, Procs

\* What a process deletes after a publication is outside the window.
LEMMA DisplacedIsOld ==
    ASSUME TypeOK, Lifecycle, Window, NEW p \in Procs, toDel[p] # <<>>
    PROVE  /\ Head(toDel[p]) \in Nat
           /\ \A i \in 1 .. Len(published) :
                 i > Len(published) - Retain => published[i] # Head(toDel[p])
           /\ \A q \in Procs : key[q] # NoKey => key[q] # Head(toDel[p])
<1>1. /\ toDel[p] \in Seq(Nat) /\ Len(published) \in Nat /\ Retain \in Nat
      /\ Head(toDel[p]) \in Range(toDel[p])
  BY HeadAndTail, CheckpointAssumption, LenProperties DEF TypeOK
<1>2. PICK j \in 1 .. Len(published) :
         j <= Len(published) - Retain /\ published[j] = Head(toDel[p])
  BY <1>1 DEF Window
<1>3. Head(toDel[p]) \in Nat
  BY <1>1, RangeByPosition
<1>4. \A i \in 1 .. Len(published) :
         i > Len(published) - Retain => published[i] # Head(toDel[p])
  BY <1>1, <1>2 DEF Lifecycle
<1>5. \A q \in Procs : key[q] # NoKey => key[q] # Head(toDel[p])
  BY <1>2 DEF Lifecycle
<1> QED BY <1>3, <1>4, <1>5

\* The window stays in the bucket while the workload runs, and what the resume
\* reader has picked leaves the window only by being overtaken.
THEOREM WindowHolds == Spec => []Window
<1>1. Init => Window
  <2> SUFFICES ASSUME Init PROVE Window
    OBVIOUS
  <2>1. Range(<<>>) = {} /\ Len(published) = 0
    BY DEF Init, Range
  <2> QED BY <2>1 DEF Init, Window
<1>2. TypeOK /\ Control /\ Lifecycle /\ Window /\ [Next]_vars => Window'
  <2> SUFFICES ASSUME TypeOK, Control, Lifecycle, Window, [Next]_vars PROVE Window'
    OBVIOUS
  <2>0. Len(published) \in Nat /\ Retain \in Nat /\ overtaken \in Nat
    BY CheckpointAssumption, LenProperties DEF TypeOK
  <2>1. ASSUME NEW p \in Procs, UploadSucceeded(p) PROVE Window'
    BY <2>1 DEF UploadSucceeded, UploadOK, TypeOK, Window, Closing, readerVars
  <2>2. ASSUME NEW p \in Procs, UploadFailed(p) PROVE Window'
    <3>1. /\ store \subseteq store' /\ UNCHANGED <<published, toDel, rpc, rkey, overtaken>>
          /\ \A q \in Procs : pc'[q] = "publish" =>
                pc[q] = "publish" /\ key'[q] = key[q]
      BY <2>2 DEF UploadFailed, RecordError, UploadError, Return, readerVars, TypeOK
    <3>2. ~Closing
      BY <2>2, BusyIsOpen DEF UploadFailed, RecordError, Closing
    <3> QED BY <3>1, <3>2 DEF Window
  <2>3. ASSUME NEW p \in Procs, Publish(p) PROVE Window'
    <3>1. /\ published' \in Seq(Nat) /\ Len(published') = Len(published) + 1
          /\ published'[Len(published')] = key[p]
          /\ \A i \in 1 .. Len(published) : published'[i] = published[i]
      BY <2>3, PublishedByPosition
    <3>2. /\ key[p] \in store /\ ~Closing
          /\ UNCHANGED <<store, rpc, rkey, main>> /\ overtaken' = overtaken + 1
      BY <2>3, BusyIsOpen DEF Publish, Window, Closing
    <3>3. ASSUME NEW q \in Procs, NEW x \in Range(toDel'[q])
          PROVE  \E i \in 1 .. Len(published') :
                    i <= Len(published') - Retain /\ published'[i] = x
      <4>1. CASE q = p
        <5>1. toDel'[p] = LET all == Append(RS!Youngest(published, Retain), key[p])
                          IN Trim(all).cut
          BY <2>3 DEF Publish, Lifecycle, WindowIsLatest, TypeOK
        <5>2. published \in Seq(Nat) /\ key[p] \in Nat
              /\ published' = Append(published, key[p])
          BY <2>3 DEF Publish, TypeOK
        <5>3. \A y \in Range(Trim(Append(RS!Youngest(published, Retain), key[p])).cut) :
                 \E i \in 1 .. Len(published') :
                    i <= Len(published') - Retain /\ published'[i] = y
          BY <2>0, <5>2, Slide, ZenonT(30)
        <5>4. x \in Range(Trim(Append(RS!Youngest(published, Retain), key[p])).cut)
          BY <3>3, <4>1, <5>1
        <5> QED BY <5>3, <5>4
      <4>2. CASE q # p
        <5>1. toDel'[q] = toDel[q]
          BY <2>3, <4>2 DEF Publish, TypeOK
        <5>2. PICK i \in 1 .. Len(published) :
                 i <= Len(published) - Retain /\ published[i] = x
          BY <3>3, <5>1 DEF Window
        <5> QED BY <2>0, <3>1, <5>2
      <4> QED BY <4>1, <4>2
    <3>4. \A q \in Procs : pc'[q] = "publish" => key'[q] \in store'
      BY <2>3, <3>2 DEF Publish, Window, TypeOK
    <3>5. \A i \in 1 .. Len(published') :
             i > Len(published') - Retain => published'[i] \in store'
      BY <2>0, <3>1, <3>2 DEF Window
    <3>6. rpc' = "get" /\ overtaken' < Retain =>
             /\ overtaken' < Len(published')
             /\ published'[Len(published') - overtaken'] = rkey'
      BY <2>0, <3>1, <3>2 DEF Window
    <3> QED BY <3>3, <3>4, <3>5, <3>6 DEF Window
  <2>4. ASSUME NEW p \in Procs, RetainDelete(p) PROVE Window'
    <3>1. /\ toDel[p] # <<>> /\ toDel[p] \in Seq(Nat)
          /\ toDel' = [toDel EXCEPT ![p] = Tail(toDel[p])]
          /\ store \ {Head(toDel[p])} \subseteq store'
          /\ UNCHANGED <<pc, key, published, rpc, rkey, overtaken, main>>
      BY <2>4 DEF RetainDelete, DeleteOutcome, DeleteOK, DeleteError, TypeOK, readerVars
    <3>2. Range(Tail(toDel[p])) \subseteq Range(toDel[p])
      BY <3>1, HeadAndTail
    <3>3. \A q \in Procs : Range(toDel'[q]) \subseteq Range(toDel[q])
      BY <3>1, <3>2 DEF TypeOK
    <3>4. \A q \in Procs : pc'[q] = "publish" => key'[q] \in store'
      <4>1. \A q \in Procs : pc[q] = "publish" => key[q] # NoKey
        BY DEF Control, TypeOK, NoKey
      <4> QED BY <3>1, <4>1, DisplacedIsOld DEF Window
    <3>5. ~Closing' => \A i \in 1 .. Len(published') :
             i > Len(published') - Retain => published'[i] \in store'
      BY <3>1, DisplacedIsOld DEF Window, Closing
    <3> QED BY <3>1, <3>3, <3>4, <3>5 DEF Window
  <2>5. ASSUME NEW p \in Procs, WriteDone(p) PROVE Window'
    <3>1. ~Closing
      BY <2>5, BusyIsOpen DEF WriteDone, Closing
    <3> QED BY <2>5, <3>1 DEF WriteDone, Return, TypeOK, Window, readerVars
  <2>6. ASSUME NEW w \in Writers, TimerFires(w) PROVE Window'
    BY <2>6 DEF TimerFires, Claim, Bump, TypeOK, Window, Closing, readerVars, Procs
  <2>7. ASSUME NEW w \in Writers, WriterStops(w) PROVE Window'
    BY <2>7 DEF WriterStops, TypeOK, Window, Closing, readerVars
  <2>8. CASE ReaderLoop \/ GetReturns
    BY <2>8 DEF ReaderLoop, ReadsOn, GetReturns, Window, Closing, writerVars
  <2>9. CASE PickLatest
    <3>1. /\ UNCHANGED <<store, pc, key, toDel, published, main>>
          /\ rpc' = "get" => /\ versions # <<>> /\ overtaken' = 0
                             /\ rkey' = versions[Len(versions)]
      BY <2>9 DEF PickLatest, LatestEntry, writerVars
    <3>2. ASSUME versions # <<>>
          PROVE  0 < Len(published) /\ published[Len(published)] = versions[Len(versions)]
      <4>1. versions \in Seq(Nat) /\ Len(versions) \in Nat /\ Len(versions) > 0
        BY <3>2, LenProperties, EmptySeq DEF TypeOK
      <4>2. /\ Len(versions) <= Len(published)
            /\ \A i \in 1 .. Len(versions) :
                  versions[i] = published[Len(published) - Len(versions) + i]
        <5>1. versions = RS!Youngest(published, Retain) /\ published \in Seq(Nat)
          BY DEF Lifecycle, WindowIsLatest, TypeOK
        <5>2. /\ Len(versions) = IF Len(published) > Retain THEN Retain
                                                            ELSE Len(published)
              /\ \A i \in 1 .. Len(versions) :
                    versions[i] = published[Len(published) - Len(versions) + i]
          BY <2>0, <5>1, YoungestShape
        <5>3. Len(versions) <= Len(published)
          BY <2>0, <5>2
        <5> QED BY <5>2, <5>3
      <4> QED BY <2>0, <4>1, <4>2
    <3>3. rpc' = "get" /\ overtaken' < Retain =>
             /\ overtaken' < Len(published')
             /\ published'[Len(published') - overtaken'] = rkey'
      BY <2>0, <3>1, <3>2
    <3> QED BY <3>1, <3>3 DEF Window, Closing
  <2>10. CASE Prepopulate
    BY <2>10 DEF Prepopulate, Claim, Bump, TypeOK, Window, Closing, readerVars, Procs
  <2>11. CASE StartRun
    BY <2>11 DEF StartRun, RunsAgain, TypeOK, Window, Closing
  <2>12. CASE ContextDone \/ RunReturns
    BY <2>12 DEF ContextDone, RunReturns, AllStopped, Window, Closing, readerVars, writerVars
  <2>13. CASE StartCleanup \/ CleanupReturns
    BY <2>13 DEF StartCleanup, CleanupReturns, Window, Closing, readerVars, writerVars
  <2>14. CASE CleanupDelete
    <3>1. /\ UNCHANGED <<pc, key, toDel, published, rpc, rkey, overtaken>> /\ Closing'
      BY <2>14 DEF CleanupDelete, Closing, readerVars, writerVars
    <3>2. \A p \in Procs : pc[p] # "publish"
      BY <2>14 DEF CleanupDelete, Control, Procs
    <3> QED BY <3>1, <3>2 DEF Window
  <2>15. CASE UNCHANGED vars
    BY <2>15 DEF vars, Window, Closing
  <2> QED
    BY <2>1, <2>2, <2>3, <2>4, <2>5, <2>6, <2>7, <2>8, <2>9, <2>10, <2>11,
       <2>12, <2>13, <2>14, <2>15 DEF Next, WriteStep, ReaderStep, Terminated
<1> QED BY <1>1, <1>2, TypeCorrect, ControlHolds, LifecycleHolds, PTL DEF Spec

\* Every stored object has an owner, and Cleanup works off all of them.
THEOREM CustodyHolds == Spec => []Custody
<1>1. Init => Custody
  BY DEF Init, Custody, NoSilentLeak
<1>2. TypeOK /\ Control /\ Lifecycle /\ Custody /\ [Next]_vars => Custody'
  <2> SUFFICES ASSUME TypeOK, Control, Lifecycle, Custody, [Next]_vars PROVE Custody'
    OBVIOUS
  <2>a. ASSUME UNCHANGED <<versions, key, toDel, main, doomed>>,
               store' \subseteq store, failed \subseteq failed'
        PROVE  Custody'
    BY <2>a DEF Custody, NoSilentLeak
  <2>b. ASSUME main' \notin {"cleanup", "cleaned"}, NoSilentLeak' PROVE Custody'
    BY <2>b DEF Custody
  <2>1. ASSUME NEW p \in Procs, UploadSucceeded(p) PROVE Custody'
    <3>1. main' \notin {"cleanup", "cleaned"}
      BY <2>1, BusyIsOpen DEF UploadSucceeded
    <3>2. NoSilentLeak'
      BY <2>1 DEF UploadSucceeded, UploadOK, Custody, NoSilentLeak
    <3> QED BY <2>b, <3>1, <3>2
  <2>2. ASSUME NEW p \in Procs, UploadFailed(p) PROVE Custody'
    <3>1. main' \notin {"cleanup", "cleaned"}
      BY <2>2, BusyIsOpen DEF UploadFailed, RecordError, Return
    <3>2. /\ key[p] \notin store /\ store' \subseteq store \cup {key[p]}
          /\ failed' = failed \cup {key[p]} /\ UNCHANGED <<versions, toDel>>
          /\ \A q \in Procs : q # p => key'[q] = key[q]
      BY <2>2 DEF UploadFailed, RecordError, UploadError, Fail, Lifecycle, TypeOK
    <3>3. NoSilentLeak'
      BY <3>2 DEF Custody, NoSilentLeak
    <3> QED BY <2>b, <3>1, <3>3
  <2>3. ASSUME NEW p \in Procs, Publish(p) PROVE Custody'
    <3>1. main' \notin {"cleanup", "cleaned"}
      BY <2>3, BusyIsOpen DEF Publish
    <3>2. Range(Append(versions, key[p])) \subseteq Range(versions') \cup Range(toDel'[p])
      <4>1. /\ published \in Seq(Nat) /\ key[p] \in Nat /\ Retain \in Nat
            /\ versions = RS!Youngest(published, Retain)
        BY CheckpointAssumption DEF TypeOK, Lifecycle, WindowIsLatest
      <4>2. LET all == Append(versions, key[p])
            IN versions' = Trim(all).keep /\ toDel'[p] = Trim(all).cut
        BY <2>3 DEF Publish, TypeOK
      <4> QED BY <4>1, <4>2, Slide
    <3>3. Range(versions) \cup {key[p]} \subseteq Range(Append(versions, key[p]))
      <4>1. versions \in Seq(Nat) /\ key[p] \in Nat
        BY DEF TypeOK
      <4> DEFINE all == Append(versions, key[p])
      <4>2. /\ all \in Seq(Nat) /\ Len(all) = Len(versions) + 1
            /\ all[Len(all)] = key[p]
            /\ \A i \in 1 .. Len(versions) : all[i] = versions[i]
        BY <4>1, AppendProperties
      <4>3. Len(versions) \in Nat
        BY <4>1, LenProperties
      <4> HIDE DEF all
      <4>4. \A x \in Range(versions) : x \in Range(all)
        BY <4>1, <4>2, <4>3, RangeByPosition
      <4>5. key[p] \in Range(all)
        BY <4>2, <4>3, RangeByPosition
      <4> QED BY <4>4, <4>5 DEF all
    <3>4. /\ toDel[p] = <<>> /\ UNCHANGED <<store, failed>>
          /\ \A q \in Procs : q # p => key'[q] = key[q] /\ toDel'[q] = toDel[q]
      BY <2>3 DEF Publish, Control, TypeOK
    <3>5. NoSilentLeak'
      <4>1. Range(toDel[p]) = {}
        BY <3>4 DEF Range
      <4> QED BY <3>2, <3>3, <3>4, <4>1 DEF Custody, NoSilentLeak
    <3> QED BY <2>b, <3>1, <3>5
  <2>4. ASSUME NEW p \in Procs, RetainDelete(p) PROVE Custody'
    <3>1. main' \notin {"cleanup", "cleaned"}
      BY <2>4, BusyIsOpen DEF RetainDelete
    <3>2. /\ toDel[p] \in Seq(Nat) /\ toDel[p] # <<>>
          /\ toDel'[p] = Tail(toDel[p]) /\ UNCHANGED <<versions, key>>
          /\ \A q \in Procs : q # p => toDel'[q] = toDel[q]
          /\ store' \subseteq store /\ failed \subseteq failed'
          /\ Head(toDel[p]) \in store' => Head(toDel[p]) \in failed'
      BY <2>4 DEF RetainDelete, DeleteOutcome, DeleteOK, DeleteError, Fail, TypeOK
    <3>3. \A x \in Range(toDel[p]) : x = Head(toDel[p]) \/ x \in Range(toDel'[p])
      BY <3>2, HeadAndTail
    <3>4. NoSilentLeak'
      BY <3>2, <3>3 DEF Custody, NoSilentLeak
    <3> QED BY <2>b, <3>1, <3>4
  <2>5. ASSUME NEW p \in Procs, WriteDone(p) PROVE Custody'
    <3>1. main' \notin {"cleanup", "cleaned"}
      BY <2>5, BusyIsOpen DEF WriteDone, Return
    <3>2. NoSilentLeak'
      BY <2>5 DEF WriteDone, Custody, NoSilentLeak
    <3> QED BY <2>b, <3>1, <3>2
  <2>c. ASSUME NEW p \in Procs, Claim(p), key[p] = NoKey,
               UNCHANGED <<store, failed, versions, toDel>>
        PROVE  NoSilentLeak'
    <3>1. \A k \in store : k # key[p]
      BY <2>c DEF Lifecycle, NoKey, TypeOK
    <3>2. \A q \in Procs : q # p => key'[q] = key[q]
      BY <2>c DEF Claim, Bump, TypeOK
    <3> QED BY <2>c, <3>1, <3>2 DEF Custody, NoSilentLeak
  <2>6. ASSUME NEW w \in Writers, TimerFires(w) PROVE Custody'
    <3>1. w \in Procs /\ key[w] = NoKey /\ main' \notin {"cleanup", "cleaned"}
      BY <2>6, BusyIsOpen DEF TimerFires, Control, Procs
    <3> QED BY <2>6, <2>b, <2>c, <3>1 DEF TimerFires
  <2>7. ASSUME NEW w \in Writers, WriterStops(w) PROVE Custody'
    BY <2>7, <2>a DEF WriterStops
  <2>8. CASE ReaderStep
    BY <2>8, <2>a DEF ReaderStep, ReaderLoop, ReadsOn, PickLatest, LatestEntry, GetReturns, writerVars
  <2>9. CASE Prepopulate
    <3>1. Caller \in Procs /\ key[Caller] = NoKey
      BY <2>9 DEF Prepopulate, Control, Procs
    <3> QED BY <2>9, <2>b, <2>c, <3>1 DEF Prepopulate
  <2>10. CASE StartRun
    BY <2>10, <2>b DEF StartRun, RunsAgain, Custody, NoSilentLeak
  <2>11. CASE ContextDone
    BY <2>11, <2>a DEF ContextDone, writerVars
  <2>12. CASE RunReturns
    BY <2>12, <2>b DEF RunReturns, AllStopped, writerVars, Custody, NoSilentLeak
  <2>13. CASE StartCleanup
    <3>1. /\ UNCHANGED <<store, failed, versions, key, toDel>>
          /\ main' = "cleanup" /\ doomed' = versions
      BY <2>13 DEF StartCleanup, writerVars
    <3>2. \A p \in Procs : key[p] = NoKey /\ Range(toDel[p]) = {}
      <4>1. \A p \in Procs : key[p] = NoKey /\ toDel[p] = <<>>
        BY <2>13 DEF StartCleanup, Control, Procs
      <4> QED BY <4>1 DEF Range
    <3>3. NoKey \notin store
      BY DEF Lifecycle, NoKey, TypeOK
    <3>4. store \subseteq Range(versions) \cup failed
      BY <3>2, <3>3 DEF Custody, NoSilentLeak
    <3> QED BY <3>1, <3>4 DEF Custody, NoSilentLeak
  <2>14. CASE CleanupDelete
    <3>1. /\ doomed \in Seq(Nat) /\ doomed # <<>> /\ doomed' = Tail(doomed)
          /\ main = "cleanup" /\ main' # "cleaned"
          /\ UNCHANGED <<versions, key, toDel>>
          /\ store' \subseteq store /\ failed \subseteq failed'
          /\ Head(doomed) \in store' => Head(doomed) \in failed'
      BY <2>14 DEF CleanupDelete, DeleteOK, DeleteError, Fail, TypeOK, writerVars
    <3>2. Range(doomed) \subseteq {Head(doomed)} \cup Range(doomed')
      BY <3>1, HeadAndTail
    <3> QED BY <3>1, <3>2 DEF Custody, NoSilentLeak
  <2>15. CASE CleanupReturns
    <3>1. /\ main = "cleanup" /\ main' = "cleaned" /\ doomed = <<>>
          /\ UNCHANGED <<store, failed, versions, key, toDel>>
      BY <2>15 DEF CleanupReturns, writerVars
    <3>2. Range(doomed) = {}
      BY <3>1 DEF Range
    <3> QED BY <3>1, <3>2 DEF Custody, NoSilentLeak
  <2>16. CASE UNCHANGED vars
    BY <2>16, <2>a DEF vars
  <2> QED
    BY <2>1, <2>2, <2>3, <2>4, <2>5, <2>6, <2>7, <2>8, <2>9, <2>10, <2>11,
       <2>12, <2>13, <2>14, <2>15, <2>16 DEF Next, WriteStep, Terminated
<1> QED BY <1>1, <1>2, TypeCorrect, ControlHolds, LifecycleHolds, PTL DEF Spec

(***************************************************************************)
(* The properties the runs check, for every value of the constants.        *)
(***************************************************************************)

\* No object escapes the workload's accounting (checkpoint.go 115-141).
THEOREM LeakFreedom == Spec => []NoSilentLeak
<1>1. Custody => NoSilentLeak
  BY DEF Custody
<1> QED BY <1>1, CustodyHolds, PTL

\* The list is the Retain checkpoints published last (126-134).
THEOREM WindowCorrect == Spec => []WindowIsLatest
<1>1. Lifecycle => WindowIsLatest
  BY DEF Lifecycle
<1> QED BY <1>1, LifecycleHolds, PTL

\* Writers never share a key or overwrite an object (116-117).
THEOREM WriteExclusion == Spec => []WritesExclusive
<1>1. Lifecycle => WritesExclusive
  BY DEF Lifecycle, WritesExclusive
<1> QED BY <1>1, LifecycleHolds, PTL

\* What versions names is in the bucket until Cleanup (126-139).
THEOREM TrackedStored == Spec => []TrackedIsStored
<1>1. TypeOK /\ Lifecycle /\ Window => TrackedIsStored
  <2> SUFFICES ASSUME TypeOK, Lifecycle, Window, ~Closing, NEW x \in Range(versions)
               PROVE  x \in store
    BY DEF TrackedIsStored, Closing
  <2>1. published \in Seq(Nat) /\ Retain \in Nat
        /\ versions = RS!Youngest(published, Retain)
    BY CheckpointAssumption DEF TypeOK, Lifecycle, WindowIsLatest
  <2>2. PICK i \in 1 .. Len(published) : i > Len(published) - Retain /\ published[i] = x
    BY <2>1, YoungestMembers
  <2> QED BY <2>2 DEF Window
<1> QED BY <1>1, TypeCorrect, LifecycleHolds, WindowHolds, PTL

\* A resume read misses only after a full turnover of the window (143-161).
THEOREM MissExplained == Spec => []MissNeedsTurnover
<1>1. TypeOK /\ Control /\ Window => MissNeedsTurnover
  <2> SUFFICES ASSUME TypeOK, Control, Window, rpc = "get", overtaken < Retain
               PROVE  rkey \in store
    BY CheckpointAssumption DEF MissNeedsTurnover, TypeOK
  <2>1. overtaken < Len(published) /\ published[Len(published) - overtaken] = rkey
    BY DEF Window
  <2>2. ~Closing
    BY DEF Control, Closing
  <2>3. /\ Len(published) - overtaken \in 1 .. Len(published)
        /\ Len(published) - overtaken > Len(published) - Retain
    BY <2>1, CheckpointAssumption, LenProperties DEF TypeOK
  <2> QED BY <2>1, <2>2, <2>3 DEF Window
<1> QED BY <1>1, TypeCorrect, ControlHolds, WindowHolds, PTL

\* A Cleanup that succeeds leaves only keys whose requests failed (164-174).
THEOREM CleanupCorrect == Spec => []CleanupComplete
<1>1. Custody => CleanupComplete
  BY DEF Custody, CleanupComplete
<1> QED BY <1>1, CustodyHolds, PTL

(***************************************************************************)
(* The record of every write.                                              *)
(***************************************************************************)

Uploading == {p \in Procs : pc[p] = "upload"}

\* The processes are finitely many, and so are those with an upload in flight.
LEMMA UploadingFinite == IsFiniteSet(Uploading) /\ Cardinality(Uploading) \in Nat
<1>1. IsFiniteSet(Procs)
  BY CheckpointAssumption, FS_AddElement DEF Procs
<1>2. Uploading \in SUBSET Procs
  BY DEF Uploading
<1> QED BY <1>1, <1>2, FS_Subset, FS_CardinalityType

\* Who is uploading changes only when an upload starts or ends.
LEMMA UploadingSteps ==
    ASSUME TypeOK, Control, NEW p \in Procs
    PROVE  /\ UploadSucceeded(p) \/ UploadFailed(p) =>
                 p \in Uploading /\ Uploading' = Uploading \ {p}
           /\ Claim(p) /\ pc[p] # "upload" =>
                 p \notin Uploading /\ Uploading' = Uploading \cup {p}
           /\ Publish(p) \/ RetainDelete(p) \/ WriteDone(p) \/ WriterStops(p)
                 => Uploading' = Uploading
           /\ StartRun => Uploading' = Uploading
<1> USE DEF Uploading, TypeOK
<1>1. UploadSucceeded(p) => p \in Uploading /\ Uploading' = Uploading \ {p}
  BY DEF UploadSucceeded
<1>2. UploadFailed(p) => p \in Uploading /\ Uploading' = Uploading \ {p}
  BY DEF UploadFailed, Return
<1>3. Claim(p) /\ pc[p] # "upload" =>
         p \notin Uploading /\ Uploading' = Uploading \cup {p}
  BY DEF Claim
<1>4. Publish(p) \/ RetainDelete(p) \/ WriterStops(p) => Uploading' = Uploading
  BY DEF Publish, RetainDelete, WriterStops
<1>5. WriteDone(p) => Uploading' = Uploading
  BY DEF WriteDone, Return
<1>6. StartRun => Uploading' = Uploading
  BY DEF StartRun, Control, Procs
<1> QED BY <1>1, <1>2, <1>3, <1>4, <1>5, <1>6

\* Every claimed checkpoint is recorded exactly once, when its upload returns,
\* whichever way it returns (118-124).
THEOREM RecordedHolds == Spec => []EveryWriteRecorded
<1>1. Init => EveryWriteRecorded
  <2> SUFFICES ASSUME Init PROVE EveryWriteRecorded
    OBVIOUS
  <2>1. Uploading = {}
    BY DEF Init, Uploading
  <2> QED BY <2>1, FS_EmptySet DEF Init, EveryWriteRecorded, Uploading
<1>2. TypeOK /\ Control /\ EveryWriteRecorded /\ [Next]_vars => EveryWriteRecorded'
  <2> SUFFICES ASSUME TypeOK, Control, EveryWriteRecorded, [Next]_vars
               PROVE  counter' = puts' + Cardinality(Uploading')
    BY DEF EveryWriteRecorded, Uploading
  <2>0. /\ counter = puts + Cardinality(Uploading) /\ counter \in Nat /\ puts \in Nat
        /\ IsFiniteSet(Uploading) /\ Cardinality(Uploading) \in Nat
    BY UploadingFinite, CheckpointAssumption DEF EveryWriteRecorded, Uploading, TypeOK
  <2>a. ASSUME Uploading' = Uploading, UNCHANGED <<counter, puts>>
        PROVE  counter' = puts' + Cardinality(Uploading')
    BY <2>0, <2>a
  <2>b. ASSUME UNCHANGED pc PROVE Uploading' = Uploading
    BY <2>b DEF Uploading
  <2>1. ASSUME NEW p \in Procs, UploadSucceeded(p) \/ UploadFailed(p)
        PROVE  counter' = puts' + Cardinality(Uploading')
    <3>1. puts' = puts + 1 /\ counter' = counter
      BY <2>1 DEF UploadSucceeded, UploadFailed, RecordError
    <3>2. Cardinality(Uploading') = Cardinality(Uploading) - 1
      BY <2>0, <2>1, UploadingSteps, FS_RemoveElement
    <3> QED BY <2>0, <3>1, <3>2
  <2>2. ASSUME NEW p \in Procs, Claim(p), pc[p] # "upload", UNCHANGED puts
        PROVE  counter' = puts' + Cardinality(Uploading')
    <3>1. Cardinality(Uploading') = Cardinality(Uploading) + 1
      BY <2>0, <2>2, UploadingSteps, FS_AddElement
    <3> QED BY <2>0, <2>2, <3>1 DEF Claim, Bump
  <2>3. ASSUME NEW p \in Procs, Publish(p) \/ RetainDelete(p) \/ WriteDone(p)
        PROVE  counter' = puts' + Cardinality(Uploading')
    BY <2>3, <2>a, UploadingSteps DEF Publish, RetainDelete, WriteDone
  <2>4. ASSUME NEW w \in Writers, TimerFires(w)
        PROVE  counter' = puts' + Cardinality(Uploading')
    BY <2>4, <2>2 DEF TimerFires, Procs
  <2>5. ASSUME NEW w \in Writers, WriterStops(w)
        PROVE  counter' = puts' + Cardinality(Uploading')
    BY <2>5, <2>a, UploadingSteps DEF WriterStops, Procs
  <2>6. CASE ReaderStep
    BY <2>6, <2>a, <2>b DEF ReaderStep, ReaderLoop, PickLatest, GetReturns, writerVars
  <2>7. CASE Prepopulate
    BY <2>7, <2>2 DEF Prepopulate, Procs, Control
  <2>8. CASE StartRun
    BY <2>8, <2>a, UploadingSteps DEF StartRun, Procs
  <2>9. CASE ContextDone \/ RunReturns \/ StartCleanup \/ CleanupDelete \/ CleanupReturns
    BY <2>9, <2>a, <2>b
       DEF ContextDone, RunReturns, StartCleanup, CleanupDelete, CleanupReturns, writerVars
  <2>10. CASE UNCHANGED vars
    BY <2>10, <2>a, <2>b DEF vars
  <2> QED
    BY <2>1, <2>3, <2>4, <2>5, <2>6, <2>7, <2>8, <2>9, <2>10
       DEF Next, WriteStep, Terminated
<1> QED BY <1>1, <1>2, TypeCorrect, ControlHolds, PTL DEF Spec

(***************************************************************************)
(* The refinement of the abstract rolling store.                           *)
(***************************************************************************)

\* The names of the abstract store that a write has been attempted for.
Attempted == (1 .. counter) \ {key[p] : p \in Uploading}

\* A name counts as attempted from the reply to its upload, not from its claim.
LEMMA AttemptedSteps ==
    ASSUME TypeOK, Control, Lifecycle, NEW p \in Procs
    PROVE  /\ UploadSucceeded(p) \/ UploadFailed(p) =>
                 /\ key[p] \in Keys \ Attempted
                 /\ Attempted' = Attempted \cup {key[p]}
           /\ Claim(p) /\ pc[p] # "upload" => Attempted' = Attempted
<1>0. counter \in Nat /\ MaxKey \in Nat /\ counter <= MaxKey /\ NoKey = 0
  BY CheckpointAssumption DEF TypeOK, NoKey
<1>1. ASSUME UploadSucceeded(p) \/ UploadFailed(p)
      PROVE  /\ key[p] \in Keys \ Attempted
             /\ Attempted' = Attempted \cup {key[p]}
  <2>1. pc[p] = "upload" /\ p \in Uploading /\ Uploading' = Uploading \ {p}
    BY <1>1, UploadingSteps DEF UploadSucceeded, UploadFailed
  <2>2. key[p] \in 1 .. counter /\ key[p] # NoKey
    BY <1>0, <2>1 DEF Control
  <2>3. \A q \in Uploading \ {p} : key[q] # key[p]
    BY <2>2 DEF Lifecycle, Uploading
  <2>4. counter' = counter /\ \A q \in Uploading \ {p} : key'[q] = key[q]
    BY <1>1 DEF UploadSucceeded, UploadFailed, TypeOK, Uploading
  <2>5. key[p] \in Keys \ Attempted
    BY <1>0, <2>1, <2>2 DEF Attempted, Keys
  <2>6. Attempted' = Attempted \cup {key[p]}
    BY <2>1, <2>2, <2>3, <2>4 DEF Attempted
  <2> QED BY <2>5, <2>6
<1>2. ASSUME Claim(p), pc[p] # "upload"
      PROVE  Attempted' = Attempted
  <2>1. Uploading' = Uploading \cup {p} /\ p \notin Uploading /\ Uploading \subseteq Procs
    BY <1>2, UploadingSteps DEF Uploading
  <2>2. /\ counter' = counter + 1 /\ key'[p] = counter + 1
        /\ \A q \in Uploading : key'[q] = key[q]
    BY <1>2, <2>1 DEF Claim, Bump, TypeOK
  <2>3. 1 .. counter + 1 = (1 .. counter) \cup {counter + 1} /\ counter + 1 \notin 1 .. counter
    BY <1>0
  <2> QED BY <2>1, <2>2, <2>3 DEF Attempted
<1> QED BY <1>1, <1>2

\* The abstract steps, with the refinement mapping written out.
LEMMA Mapped ==
    /\ RS!Write <=> \E k \in Keys \ Attempted :
          /\ Attempted' = Attempted \cup {k}
          /\ store' \in {store, store \cup {k}}
          /\ published' = published /\ Closing' = Closing
    /\ RS!Publish <=> \E k \in store \ Range(published) :
          /\ ~Closing
          /\ published' = Append(published, k)
          /\ Attempted' = Attempted /\ store' = store /\ Closing' = Closing
    /\ RS!Remove <=> \E k \in store :
          /\ k \notin Range(RS!Youngest(published, Retain)) \/ Closing
          /\ store' = store \ {k}
          /\ Attempted' = Attempted /\ published' = published /\ Closing' = Closing
    /\ RS!Close <=> /\ Closing' = TRUE /\ Attempted' = Attempted
                    /\ store' = store /\ published' = published
    /\ UNCHANGED RS!vars <=> /\ Attempted' = Attempted /\ store' = store
                             /\ published' = published /\ Closing' = Closing
<1>1. \A s : RS!Range(s) = Range(s)
  BY DEF RS!Range, Range
<1> USE DEF Attempted, Uploading, Closing
<1>2. RS!Write <=> \E k \in Keys \ Attempted :
          /\ Attempted' = Attempted \cup {k}
          /\ store' \in {store, store \cup {k}}
          /\ published' = published /\ Closing' = Closing
  BY DEF RS!Write
<1>3. RS!Publish <=> \E k \in store \ Range(published) :
          /\ ~Closing
          /\ published' = Append(published, k)
          /\ Attempted' = Attempted /\ store' = store /\ Closing' = Closing
  BY <1>1 DEF RS!Publish
<1>4. RS!Remove <=> \E k \in store :
          /\ k \notin Range(RS!Youngest(published, Retain)) \/ Closing
          /\ store' = store \ {k}
          /\ Attempted' = Attempted /\ published' = published /\ Closing' = Closing
  BY <1>1 DEF RS!Remove
<1>5. RS!Close <=> /\ Closing' = TRUE /\ Attempted' = Attempted
                    /\ store' = store /\ published' = published
  BY DEF RS!Close
<1>6. UNCHANGED RS!vars <=> /\ Attempted' = Attempted /\ store' = store
                             /\ published' = published /\ Closing' = Closing
  BY DEF RS!vars
<1> QED BY <1>2, <1>3, <1>4, <1>5, <1>6

\* The workload implements the abstract rolling store: an upload's reply is a
\* write, the critical section a publication, a delete that takes effect a
\* removal, and the start of Cleanup the closing; every other step stutters.
THEOREM ImplementsRollingStore == Spec => RollingStoreSpec
<1>1. Init => RS!Init
  <2> SUFFICES ASSUME Init PROVE RS!Init
    OBVIOUS
  <2>1. /\ Attempted = {} /\ store = {} /\ published = <<>> /\ Closing = FALSE
    BY DEF Init, Attempted, Closing
  <2> QED BY <2>1 DEF RS!Init, Attempted, Uploading, Closing
<1>2. TypeOK /\ Control /\ Lifecycle /\ Window /\ [Next]_vars
        => RS!Next \/ UNCHANGED RS!vars
  <2> SUFFICES ASSUME TypeOK, Control, Lifecycle, Window, [Next]_vars
               PROVE  RS!Next \/ UNCHANGED RS!vars
    OBVIOUS
  <2>a. ASSUME UNCHANGED <<counter, key, published, store>>, Uploading' = Uploading,
               Closing' = Closing
        PROVE  UNCHANGED RS!vars
    BY <2>a, Mapped DEF Attempted
  <2>b. ASSUME UNCHANGED pc PROVE Uploading' = Uploading
    BY <2>b DEF Uploading
  <2>1. ASSUME NEW p \in Procs, UploadSucceeded(p) \/ UploadFailed(p) PROVE RS!Write
    <3>1. key[p] \in Keys \ Attempted /\ Attempted' = Attempted \cup {key[p]}
      BY <2>1, AttemptedSteps
    <3>2. store' \in {store, store \cup {key[p]}} /\ published' = published
      BY <2>1 DEF UploadSucceeded, UploadOK, UploadFailed, UploadError
    <3>3. ~Closing /\ Closing' = Closing
      BY <2>1, BusyIsOpen DEF UploadSucceeded, UploadFailed, Return, Closing
    <3> QED BY <3>1, <3>2, <3>3, Mapped
  <2>2. ASSUME NEW p \in Procs, Publish(p) PROVE RS!Publish
    <3>1. key[p] \in store /\ key[p] # NoKey
      BY <2>2 DEF Publish, Window, Control, NoKey, TypeOK
    <3>2. key[p] \notin Range(published)
      <4>1. published \in Seq(Nat)
        BY DEF TypeOK
      <4> QED BY <3>1, <4>1, RangeByPosition DEF Lifecycle
    <3>3. ~Closing /\ Closing' = Closing
      BY <2>2, BusyIsOpen DEF Publish, Closing
    <3>4. Attempted' = Attempted
      <4>1. Uploading' = Uploading /\ counter' = counter
        BY <2>2, UploadingSteps DEF Publish
      <4>2. \A q \in Uploading : key'[q] = key[q]
        BY <2>2 DEF Publish, Uploading, TypeOK
      <4> QED BY <4>1, <4>2 DEF Attempted
    <3> QED BY <2>2, <3>1, <3>2, <3>3, <3>4, Mapped DEF Publish
  <2>3. ASSUME NEW p \in Procs, RetainDelete(p) PROVE RS!Remove \/ UNCHANGED RS!vars
    <3> DEFINE k == Head(toDel[p])
    <3>1. /\ UNCHANGED <<counter, key, published>> /\ Uploading' = Uploading
          /\ Closing' = Closing /\ store' \in {store, store \ {k}}
      BY <2>3, UploadingSteps
         DEF RetainDelete, DeleteOutcome, DeleteOK, DeleteError, Closing
    <3>2. CASE store' = store
      BY <2>a, <3>1, <3>2
    <3>3. CASE store' # store
      <4>1. store' = store \ {k} /\ k \in store
        BY <3>1, <3>3
      <4>2. k \notin Range(RS!Youngest(published, Retain))
        <5>1. \A i \in 1 .. Len(published) :
                 i > Len(published) - Retain => published[i] # k
          BY <2>3, DisplacedIsOld DEF RetainDelete
        <5>2. published \in Seq(Nat) /\ Retain \in Nat
          BY CheckpointAssumption DEF TypeOK
        <5> HIDE DEF k
        <5> QED BY <5>1, <5>2, YoungestMembers
      <4>3. Attempted' = Attempted
        BY <3>1 DEF Attempted
      <4> QED BY <3>1, <4>1, <4>2, <4>3, Mapped
    <3> QED BY <3>2, <3>3
  <2>4. ASSUME NEW p \in Procs, WriteDone(p) PROVE UNCHANGED RS!vars
    <3>1. ~Closing /\ Closing' = Closing
      BY <2>4, BusyIsOpen DEF WriteDone, Return, Closing
    <3> QED BY <2>4, <2>a, <3>1, UploadingSteps DEF WriteDone
  <2>c. ASSUME NEW p \in Procs, Claim(p), pc[p] # "upload",
               UNCHANGED <<published, store>>, Closing' = Closing
        PROVE  UNCHANGED RS!vars
    BY <2>c, AttemptedSteps, Mapped
  <2>5. ASSUME NEW w \in Writers, TimerFires(w) PROVE UNCHANGED RS!vars
    BY <2>5, <2>c DEF TimerFires, Procs, Closing
  <2>6. ASSUME NEW w \in Writers, WriterStops(w) PROVE UNCHANGED RS!vars
    BY <2>6, <2>a, UploadingSteps DEF WriterStops, Procs, Closing
  <2>7. ASSUME ReaderStep PROVE UNCHANGED RS!vars
    BY <2>7, <2>a, <2>b
       DEF ReaderStep, ReaderLoop, PickLatest, GetReturns, writerVars, Closing
  <2>8. ASSUME Prepopulate PROVE UNCHANGED RS!vars
    <3>1. Caller \in Procs /\ pc[Caller] # "upload" /\ ~Closing /\ Closing' = Closing
      BY <2>8 DEF Prepopulate, Control, Procs, Closing
    <3> QED BY <2>8, <2>c, <3>1 DEF Prepopulate
  <2>9. ASSUME StartRun PROVE UNCHANGED RS!vars
    <3>1. Caller \in Procs /\ ~Closing /\ Closing' = Closing
      BY <2>9 DEF StartRun, Procs, Closing
    <3> QED BY <2>9, <2>a, <3>1, UploadingSteps DEF StartRun
  <2>10. ASSUME ContextDone \/ RunReturns \/ CleanupReturns PROVE UNCHANGED RS!vars
    <3>1. Closing' = Closing
      BY <2>10 DEF ContextDone, RunReturns, CleanupReturns, Closing
    <3> QED BY <2>10, <2>a, <2>b, <3>1
            DEF ContextDone, RunReturns, CleanupReturns, writerVars
  <2>11. ASSUME StartCleanup PROVE RS!Close
    <3>1. Closing' = TRUE /\ UNCHANGED <<store, published>>
      BY <2>11 DEF StartCleanup, Closing, writerVars
    <3>2. Attempted' = Attempted
      BY <2>11 DEF StartCleanup, Attempted, Uploading, writerVars
    <3> QED BY <3>1, <3>2, Mapped
  <2>12. ASSUME CleanupDelete PROVE RS!Remove \/ UNCHANGED RS!vars
    <3> DEFINE k == Head(doomed)
    <3>1. /\ UNCHANGED <<counter, key, pc, published>> /\ Closing /\ Closing'
          /\ store' \in {store, store \ {k}}
      BY <2>12 DEF CleanupDelete, DeleteOK, DeleteError, Closing, writerVars
    <3>2. CASE store' = store
      BY <2>a, <2>b, <3>1, <3>2
    <3>3. CASE store' # store
      <4>1. store' = store \ {k} /\ k \in store
        BY <3>1, <3>3
      <4>2. Attempted' = Attempted
        BY <2>b, <3>1 DEF Attempted
      <4> QED BY <3>1, <4>1, <4>2, Mapped
    <3> QED BY <3>2, <3>3
  <2>13. ASSUME UNCHANGED vars PROVE UNCHANGED RS!vars
    BY <2>13, <2>a, <2>b DEF vars, Closing
  <2> QED
    BY <2>1, <2>2, <2>3, <2>4, <2>5, <2>6, <2>7, <2>8, <2>9, <2>10, <2>11,
       <2>12, <2>13 DEF Next, WriteStep, Terminated, RS!Next
<1> QED
  BY <1>1, <1>2, TypeCorrect, ControlHolds, LifecycleHolds, WindowHolds, PTL
     DEF Spec, RollingStoreSpec, RS!Spec
=============================================================================
