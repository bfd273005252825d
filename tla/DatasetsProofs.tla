--------------------------- MODULE DatasetsProofs ---------------------------
(***************************************************************************)
(* Proofs about Datasets.  Frame is its inductive type and phase           *)
(* invariant; on it rest, one after the other, Present (what is tracked is *)
(* in the bucket), Fresh (new keys), Custody (what Cleanup can account     *)
(* for), Dealt (sequential access) and Paging (listings).                  *)
(***************************************************************************)
EXTENDS Datasets, SequenceTheorems, FiniteSetTheorems, TLAPS

(***************************************************************************)
(* Keys.                                                                   *)
(***************************************************************************)

Keys == Nat \X Nat

\* A row of n keys of one directory.
LEMMA RowShape ==
    ASSUME NEW d \in Nat, NEW n \in Nat
    PROVE  /\ Row(d, n) \in Seq(Keys) /\ Len(Row(d, n)) = n
           /\ \A i \in 1 .. n : Row(d, n)[i] = <<d, i - 1>>
BY DEF Row, Keys

\* lancedb's base keys: first the fragments, then the manifests.
LEMMA LancedbShape ==
    /\ LancedbKeys \in Seq(Keys) /\ Len(LancedbKeys) = Fragments + Manifests
    /\ \A i \in 1 .. Fragments : LancedbKeys[i] = <<Base, i - 1>>
    /\ \A i \in Fragments + 1 .. Fragments + Manifests :
          LancedbKeys[i] = <<New, i - 1 - Fragments>>
<1>0. Fragments \in Nat /\ Manifests \in Nat /\ Base \in Nat /\ New \in Nat
  BY DatasetsAssumption DEF Base, New
<1> DEFINE f == Row(Base, Fragments)
           m == Row(New, Manifests)
<1>1. /\ f \in Seq(Keys) /\ Len(f) = Fragments
      /\ \A i \in 1 .. Fragments : f[i] = <<Base, i - 1>>
  BY <1>0, RowShape
<1>2. /\ m \in Seq(Keys) /\ Len(m) = Manifests
      /\ \A i \in 1 .. Manifests : m[i] = <<New, i - 1>>
  BY <1>0, RowShape
<1> HIDE DEF f, m
<1>3. /\ f \o m \in Seq(Keys) /\ Len(f \o m) = Len(f) + Len(m)
      /\ \A i \in 1 .. Len(f) + Len(m) :
            (f \o m)[i] = IF i <= Len(f) THEN f[i] ELSE m[i - Len(f)]
  BY <1>1, <1>2, ConcatProperties
<1>4. ASSUME NEW i \in 1 .. Fragments
      PROVE  (f \o m)[i] = <<Base, i - 1>>
  <2>1. i \in 1 .. Len(f) + Len(m) /\ i <= Len(f)
    BY <1>0, <1>1, <1>2
  <2>2. (f \o m)[i] = f[i]
    BY <1>3, <2>1
  <2> QED BY <1>1, <2>2
<1>5. ASSUME NEW i \in Fragments + 1 .. Fragments + Manifests
      PROVE  (f \o m)[i] = <<New, i - 1 - Fragments>>
  <2> DEFINE j == i - Fragments
  <2>1. /\ i \in 1 .. Len(f) + Len(m) /\ ~(i <= Len(f))
        /\ j \in 1 .. Manifests /\ j - 1 = i - 1 - Fragments
    BY <1>0, <1>1, <1>2
  <2>2. (f \o m)[i] = m[j]
    BY <1>1, <1>3, <2>1
  <2> HIDE DEF j
  <2>3. m[j] = <<New, j - 1>>
    BY <1>2, <2>1
  <2> QED BY <2>1, <2>2, <2>3
<1> QED BY <1>1, <1>2, <1>3, <1>4, <1>5 DEF LancedbKeys, f, m

\* metadata's base keys lie in directories of their own.
LEMMA MetadataShape ==
    /\ MetadataKeys \in Seq(Keys) /\ Len(MetadataKeys) = Fanout * PerPrefix
    /\ Len(MetadataKeys) \in Nat
    /\ \A i \in 1 .. Len(MetadataKeys) : MetadataKeys[i][1] >= Base
<1>0. /\ Fanout \in Nat /\ PerPrefix \in Nat /\ PerPrefix > 0
      /\ Fanout * PerPrefix \in Nat
  BY DatasetsAssumption DEF MetadataAccepts
<1> DEFINE n == Fanout * PerPrefix
           k(i) == <<Base + (i - 1) \div PerPrefix, (i - 1) % PerPrefix>>
<1>1. ASSUME NEW i \in 1 .. n PROVE k(i) \in Keys /\ k(i)[1] >= Base
  <2>1. i - 1 \in Nat
    BY <1>0
  <2>2. (i - 1) \div PerPrefix \in Nat /\ (i - 1) % PerPrefix \in Nat
    BY <1>0, <2>1
  <2> QED BY <2>2 DEF Base, Keys
<1>2. MetadataKeys = [i \in 1 .. n |-> k(i)]
  BY DEF MetadataKeys
<1> HIDE DEF n, k
<1>3. n \in Nat
  BY <1>0 DEF n
<1>4. /\ MetadataKeys \in Seq(Keys) /\ Len(MetadataKeys) = n
      /\ \A i \in 1 .. n : MetadataKeys[i] = k(i)
  BY <1>1, <1>2, <1>3
<1> QED BY <1>1, <1>3, <1>4 DEF n

\* The base keys of the workload at hand.
LEMMA BaseShape ==
    ASSUME kind \in Kinds
    PROVE  /\ BaseKeys \in Seq(Keys) /\ Len(BaseKeys) \in Nat
           /\ \A i \in 1 .. Len(BaseKeys) : BaseKeys[i] \in Keys /\ BaseKeys[i][1] # 0
           /\ kind = "lancedb" => BaseKeys = LancedbKeys
           /\ kind = "metadata" => BaseKeys = MetadataKeys
           /\ kind = "training_data" => BaseKeys = DataloaderKeys /\ Len(BaseKeys) = Objects
           /\ kind # "lancedb" =>
                 \A i \in 1 .. Len(BaseKeys) : BaseKeys[i][1] # New
<1>0. kind \in {"lancedb", "training_data", "metadata"}
  BY DatasetsAssumption
<1>1. CASE kind = "lancedb"
  <2>1. BaseKeys = LancedbKeys
    BY <1>1 DEF BaseKeys
  <2>2. Fragments \in Nat /\ Manifests \in Nat
    BY DatasetsAssumption
  <2>3. /\ BaseKeys \in Seq(Keys) /\ Len(BaseKeys) = Fragments + Manifests
        /\ \A i \in 1 .. Fragments : BaseKeys[i] = <<Base, i - 1>>
        /\ \A i \in Fragments + 1 .. Fragments + Manifests :
              BaseKeys[i] = <<New, i - 1 - Fragments>>
    BY <2>1, LancedbShape
  <2>4. \A i \in 1 .. Fragments : BaseKeys[i] \in Keys /\ BaseKeys[i][1] # 0
    <3> SUFFICES ASSUME NEW i \in 1 .. Fragments
                 PROVE  BaseKeys[i] \in Keys /\ BaseKeys[i][1] # 0
      OBVIOUS
    <3>1. BaseKeys[i] = <<Base, i - 1>> /\ i - 1 \in Nat
      BY <2>2, <2>3
    <3> QED BY <3>1 DEF Base, Keys
  <2>5. \A i \in Fragments + 1 .. Fragments + Manifests :
           BaseKeys[i] \in Keys /\ BaseKeys[i][1] # 0
    BY <2>2, <2>3 DEF New, Keys
  <2>6. \A i \in 1 .. Len(BaseKeys) :
           i \in 1 .. Fragments \/ i \in Fragments + 1 .. Fragments + Manifests
    BY <2>2, <2>3
  <2> QED BY <1>1, <2>1, <2>2, <2>3, <2>4, <2>5, <2>6
<1>2. CASE kind = "training_data"
  <2>1. BaseKeys = DataloaderKeys
    BY <1>2 DEF BaseKeys
  <2>2. Objects \in Nat /\ Base \in Nat /\ Base # 0 /\ Base # New
    BY DatasetsAssumption DEF Base, New
  <2>3. /\ BaseKeys \in Seq(Keys) /\ Len(BaseKeys) = Objects
        /\ \A i \in 1 .. Objects : BaseKeys[i] = <<Base, i - 1>>
    BY <2>1, <2>2, RowShape DEF DataloaderKeys
  <2>4. \A i \in 1 .. Objects : BaseKeys[i] \in Keys /\ BaseKeys[i][1] = Base
    BY <2>2, <2>3 DEF Keys
  <2> QED BY <1>2, <2>1, <2>2, <2>3, <2>4
<1>3. CASE kind = "metadata"
  <2>1. BaseKeys = MetadataKeys
    BY <1>3 DEF BaseKeys
  <2> QED BY <1>3, <2>1, MetadataShape DEF Base, New, Keys
<1> QED BY <1>0, <1>1, <1>2, <1>3

(***************************************************************************)
(* Types and phases.                                                       *)
(***************************************************************************)

\* What a listing remembers between pages.
Listings == [delim : BOOLEAN, token : Keys, counted : Nat, floor : Nat]

\* What TypeOK leaves open.
Shapes ==
    /\ listing \in [Threads -> Listings]
    /\ visits \in [0 .. Objects - 1 -> Nat]
    /\ IsFiniteSet(store)

\* Threads run only inside Run; claims start after Prepopulate, which tracks
\* what it has put, training_data all of it or nothing.
Phases ==
    /\ main # "running" => \A t \in Threads : pc[t] = "off"
    /\ main = "populating" =>
          /\ next <= Len(BaseKeys) /\ claims = 0
          /\ tracked = IF kind = "training_data" THEN 0 ELSE next
    /\ kind = "training_data" => tracked \in {0, Objects}
    /\ main = "running" /\ kind # "lancedb" => tracked # 0

Frame == TypeOK /\ Shapes /\ Phases

\* The entries of a listing are finitely many.
LEMMA EntriesFinite ==
    ASSUME IsFiniteSet(store), NEW delim \in BOOLEAN
    PROVE  IsFiniteSet(Entries(delim)) /\ Cardinality(Entries(delim)) \in Nat
<1>1. IsFiniteSet({<<k[1], 0>> : k \in store})
  <2> DEFINE T == {<<k[1], 0>> : k \in store}
             f == [k \in store |-> <<k[1], 0>>]
  <2>1. f \in Surjection(store, T)
    BY DEF Surjection
  <2> QED BY <2>1, FS_Surjection
<1>2. IsFiniteSet(Entries(delim))
  BY <1>1 DEF Entries
<1> QED BY <1>2, FS_CardinalityType

\* The workload, its pattern and the command do not change, nor do the base keys.
LEMMA StaysFixed ==
    ASSUME [Next]_vars
    PROVE  UNCHANGED fixed /\ BaseKeys' = BaseKeys
<1>1. UNCHANGED fixed
  <2>1. ASSUME NEW t \in Threads, ThreadStep(t) PROVE UNCHANGED fixed
    BY <2>1 DEF ThreadStep, Leave, ReadFragment, HeadReturns, ListManifest, WriteManifest,
       ReadAny, ReadNext, ReadBaseKey, ListPrefix, Copy, ReadReturns, PutReturns,
       ListReturns, ListEnds, Send, Claim
  <2> QED BY <2>1 DEF Next, PopulatePut, PopulateReturns, PopulatePanics, StartRun,
       ContextDone, RunReturns, StartCleanup, CleanupDelete, CleanupReturns, Land,
       Terminated, vars
<1>2. kind' = kind
  BY <1>1 DEF fixed
<1> QED BY <1>1, <1>2 DEF BaseKeys

\* The fragments tracked are a part of what is tracked.
LEMMA FragmentsTracked ==
    ASSUME TypeOK
    PROVE  /\ fragmentCount \in 0 .. tracked /\ fragmentCount <= Fragments
           /\ manifestCount \in Nat /\ fragmentCount + manifestCount = tracked
<1>1. tracked \in Nat /\ Fragments \in Nat
  BY BaseShape, DatasetsAssumption DEF TypeOK
<1> QED BY <1>1 DEF fragmentCount, manifestCount

\* What Cleanup can work out from the counts.
Ceiling == (IF kind = "lancedb" THEN manifestCount ELSE 0) + claims

Counted(k) ==
    \/ \E i \in 1 .. tracked : k = BaseKeys[i]
    \/ kind # "training_data" /\ k[1] = New /\ k[2] < Ceiling

\* A concatenation holds the elements of both its parts.
LEMMA ConcatCovers ==
    ASSUME NEW s \in Seq(Keys), NEW r \in Seq(Keys)
    PROVE  /\ s \o r \in Seq(Keys)
           /\ \A i \in 1 .. Len(s) : \E j \in 1 .. Len(s \o r) : (s \o r)[j] = s[i]
           /\ \A i \in 1 .. Len(r) : \E j \in 1 .. Len(s \o r) : (s \o r)[j] = r[i]
<1>1. /\ s \o r \in Seq(Keys) /\ Len(s \o r) = Len(s) + Len(r)
      /\ \A i \in 1 .. Len(s) + Len(r) :
            (s \o r)[i] = IF i <= Len(s) THEN s[i] ELSE r[i - Len(s)]
  BY ConcatProperties
<1>2. Len(s) \in Nat /\ Len(r) \in Nat
  BY LenProperties
<1>3. ASSUME NEW i \in 1 .. Len(s)
      PROVE  \E j \in 1 .. Len(s \o r) : (s \o r)[j] = s[i]
  BY <1>1, <1>2
<1>4. ASSUME NEW i \in 1 .. Len(r)
      PROVE  \E j \in 1 .. Len(s \o r) : (s \o r)[j] = r[i]
  <2> DEFINE j == Len(s) + i
  <2>1. j \in 1 .. Len(s) + Len(r) /\ ~(j <= Len(s)) /\ j - Len(s) = i
    BY <1>2
  <2> HIDE DEF j
  <2>2. (s \o r)[j] = r[i]
    BY <1>1, <2>1
  <2> QED BY <1>1, <2>1, <2>2
<1> QED BY <1>1, <1>3, <1>4

\* The list Cleanup goes through holds every key it can work out.
LEMMA CleanupShape ==
    ASSUME TypeOK
    PROVE  /\ CleanupKeys \in Seq(Keys) /\ Len(CleanupKeys) \in Nat
           /\ \A k \in Keys : Counted(k) =>
                 \E j \in 1 .. Len(CleanupKeys) : k = CleanupKeys[j]
<1>0. /\ kind \in {"lancedb", "training_data", "metadata"} /\ claims \in Nat
      /\ tracked \in Nat /\ tracked <= Len(BaseKeys) /\ Len(BaseKeys) \in Nat
      /\ BaseKeys \in Seq(Keys) /\ Base \in Nat /\ New \in Nat
  BY DatasetsAssumption, BaseShape DEF TypeOK, Base, New
<1> DEFINE part == SubSeq(BaseKeys, 1, tracked)
<1>1. /\ part \in Seq(Keys) /\ Len(part) = tracked
      /\ \A i \in 1 .. tracked : part[i] = BaseKeys[i]
  BY <1>0, SubSeqProperties, SMTT(30)
<1> HIDE DEF part
<1>2. CASE kind = "lancedb"
  <2> DEFINE f == Row(Base, fragmentCount)
             m == Row(New, ManifestTotal)
  <2>1. /\ fragmentCount \in 0 .. tracked /\ fragmentCount <= Fragments
        /\ manifestCount \in Nat /\ fragmentCount + manifestCount = tracked
        /\ ManifestTotal = manifestCount + claims /\ ManifestTotal \in Nat
        /\ Fragments \in Nat /\ Manifests \in Nat
        /\ (fragmentCount = tracked \/ fragmentCount = Fragments)
    BY <1>0, FragmentsTracked, DatasetsAssumption DEF ManifestTotal, fragmentCount
  <2>2. /\ f \in Seq(Keys) /\ Len(f) = fragmentCount
        /\ \A i \in 1 .. fragmentCount : f[i] = <<Base, i - 1>>
    BY <1>0, <2>1, RowShape
  <2>3. /\ m \in Seq(Keys) /\ Len(m) = ManifestTotal
        /\ \A i \in 1 .. ManifestTotal : m[i] = <<New, i - 1>>
    BY <1>0, <2>1, RowShape
  <2> HIDE DEF f, m
  <2>4. CleanupKeys = f \o m
    BY <1>2 DEF CleanupKeys, LancedbCleanup, f, m
  <2>5. ASSUME NEW k \in Keys, k[1] = New, k[2] < ManifestTotal
        PROVE  \E i \in 1 .. Len(m) : k = m[i]
    <3> DEFINE i == k[2] + 1
    <3>1. k = <<New, k[2]>> /\ k[2] \in Nat
      BY <2>5 DEF Keys
    <3>2. i \in 1 .. ManifestTotal /\ i - 1 = k[2]
      BY <2>1, <2>5, <3>1
    <3> HIDE DEF i
    <3> QED BY <2>3, <3>1, <3>2
  <2>6. ASSUME NEW i \in 1 .. tracked
        PROVE  \/ \E j \in 1 .. Len(f) : BaseKeys[i] = f[j]
               \/ \E j \in 1 .. Len(m) : BaseKeys[i] = m[j]
    <3>1. BaseKeys = LancedbKeys /\ Len(BaseKeys) = Fragments + Manifests
      BY <1>2, BaseShape, LancedbShape DEF TypeOK
    <3>2. CASE i <= Fragments
      <4>1. i \in 1 .. Fragments /\ i \in 1 .. fragmentCount
        BY <1>0, <2>1, <3>2
      <4> QED BY <2>2, <3>1, <4>1, LancedbShape
    <3>3. CASE i > Fragments
      <4>1. /\ i \in Fragments + 1 .. Fragments + Manifests
            /\ i - 1 - Fragments \in Nat /\ i - 1 - Fragments < ManifestTotal
        BY <1>0, <2>1, <3>1, <3>3
      <4>2. BaseKeys[i] = <<New, i - 1 - Fragments>>
        BY <3>1, <4>1, LancedbShape
      <4>3. BaseKeys[i] \in Keys /\ BaseKeys[i][1] = New /\ BaseKeys[i][2] < ManifestTotal
        BY <1>0, <4>1, <4>2 DEF Keys
      <4> QED BY <2>5, <4>3
    <3> QED BY <3>2, <3>3, <2>1
  <2>7. ASSUME NEW k \in Keys, Counted(k)
        PROVE  \/ \E j \in 1 .. Len(f) : k = f[j]
               \/ \E j \in 1 .. Len(m) : k = m[j]
    BY <1>2, <2>1, <2>5, <2>6, <2>7 DEF Counted, Ceiling
  <2>8. /\ f \o m \in Seq(Keys)
        /\ \A i \in 1 .. Len(f) : \E j \in 1 .. Len(f \o m) : (f \o m)[j] = f[i]
        /\ \A i \in 1 .. Len(m) : \E j \in 1 .. Len(f \o m) : (f \o m)[j] = m[i]
    BY <2>2, <2>3, ConcatCovers
  <2>9. CleanupKeys \in Seq(Keys) /\ Len(CleanupKeys) \in Nat
    BY <2>4, <2>8, LenProperties
  <2>10. ASSUME NEW k \in Keys, Counted(k)
         PROVE  \E j \in 1 .. Len(CleanupKeys) : k = CleanupKeys[j]
    BY <2>4, <2>7, <2>8, <2>10, Zenon
  <2> QED BY <2>9, <2>10
<1>3. CASE kind = "training_data"
  <2>1. CleanupKeys = part
    BY <1>3, BaseShape DEF CleanupKeys, DataloaderCleanup, TypeOK, part
  <2> QED BY <1>0, <1>1, <1>3, <2>1 DEF Counted
<1>4. CASE kind = "metadata"
  <2> DEFINE c == [i \in 1 .. claims |-> CopyKey(i - 1)]
  <2>1. /\ c \in Seq(Keys) /\ Len(c) = claims
        /\ \A i \in 1 .. claims : c[i] = <<New, i - 1>>
    BY <1>0 DEF CopyKey, Keys
  <2> HIDE DEF c
  <2>2. CleanupKeys = part \o c
    BY <1>4, BaseShape DEF CleanupKeys, MetadataCleanup, TypeOK, part, c
  <2>3. ASSUME NEW k \in Keys, k[1] = New, k[2] < claims
        PROVE  \E i \in 1 .. Len(c) : k = c[i]
    <3> DEFINE i == k[2] + 1
    <3>1. k = <<New, k[2]>> /\ k[2] \in Nat
      BY <2>3 DEF Keys
    <3>2. i \in 1 .. claims /\ i - 1 = k[2]
      BY <1>0, <2>3, <3>1
    <3> HIDE DEF i
    <3> QED BY <2>1, <3>1, <3>2
  <2>4. ASSUME NEW k \in Keys, Counted(k)
        PROVE  \/ \E j \in 1 .. Len(part) : k = part[j]
               \/ \E j \in 1 .. Len(c) : k = c[j]
    BY <1>0, <1>1, <1>4, <2>3, <2>4 DEF Counted, Ceiling
  <2>5. /\ part \o c \in Seq(Keys)
        /\ \A i \in 1 .. Len(part) : \E j \in 1 .. Len(part \o c) : (part \o c)[j] = part[i]
        /\ \A i \in 1 .. Len(c) : \E j \in 1 .. Len(part \o c) : (part \o c)[j] = c[i]
    BY <1>1, <2>1, ConcatCovers
  <2>6. CleanupKeys \in Seq(Keys) /\ Len(CleanupKeys) \in Nat
    BY <2>2, <2>5, LenProperties
  <2>7. ASSUME NEW k \in Keys, Counted(k)
        PROVE  \E j \in 1 .. Len(CleanupKeys) : k = CleanupKeys[j]
    BY <2>2, <2>4, <2>5, <2>7, Zenon
  <2> QED BY <2>6, <2>7
<1> QED BY <1>0, <1>2, <1>3, <1>4

\* What every step of a thread has in common: it moves that thread alone, and
\* only the reply to a PUT touches the bucket.
LEMMA ThreadFrame ==
    ASSUME Frame, NEW t \in Threads, ThreadStep(t)
    PROVE  /\ main = "running" /\ pc[t] # "off"
           /\ UNCHANGED <<fixed, tracked, callerVars>>
           /\ \E l, k : pc' = [pc EXCEPT ![t] = l] /\ key' = [key EXCEPT ![t] = k]
           /\ \E l : listing' = [listing EXCEPT ![t] = l]
           /\ pc[t] # "put" => UNCHANGED <<store, failed, limbo>>
           /\ store \subseteq store' /\ failed \subseteq failed'
           /\ limbo' \subseteq limbo \cup failed' /\ late' = late
           /\ claims' \in {claims, claims + 1}
<1> DEFINE R == /\ pc[t] # "off" /\ UNCHANGED <<fixed, tracked, callerVars>>
                /\ \E l, k : pc' = [pc EXCEPT ![t] = l] /\ key' = [key EXCEPT ![t] = k]
                /\ \E l : listing' = [listing EXCEPT ![t] = l]
                /\ pc[t] # "put" => UNCHANGED <<store, failed, limbo>>
                /\ store \subseteq store' /\ failed \subseteq failed'
                /\ limbo' \subseteq limbo \cup failed' /\ late' = late
                /\ claims' \in {claims, claims + 1}
<1>0. UNCHANGED listing => \E l : listing' = [listing EXCEPT ![t] = l]
  <2>1. listing = [listing EXCEPT ![t] = listing[t]]
    BY DEF Frame, Shapes
  <2> QED BY <2>1
<1>1. ASSUME NEW l, NEW k, Send(t, l, k), claims' \in {claims, claims + 1} PROVE R
  BY <1>1 DEF Send, Goto, Forget, Iterating, lateVars
<1>2. ASSUME Leave(t) PROVE R
  BY <1>2 DEF Leave, Goto, Forget, Iterating, lateVars
<1>3. ASSUME ReadFragment(t) \/ ReadBaseKey(t) \/ ReadAny(t) \/ ReadNext(t)
           \/ ListManifest(t) \/ WriteManifest(t) \/ Copy(t) PROVE R
  BY <1>3, <1>1 DEF ReadFragment, ReadBaseKey, ReadAny, ReadNext, ListManifest,
     WriteManifest, Copy, Claim, Add
<1>4. ASSUME HeadReturns(t) \/ ReadReturns(t) PROVE R
  BY <1>4, <1>0 DEF HeadReturns, ReadReturns, Goto, lateVars
<1>5. ASSUME PutReturns(t) PROVE R
  BY <1>5, <1>0 DEF PutReturns, Goto, PutOK, PutError, Fail, lateVars
<1>6. ASSUME ListPrefix(t) PROVE R
  BY <1>6 DEF ListPrefix, Goto, Iterating, Opened, lateVars
<1>7. ASSUME ListReturns(t) PROVE R
  <2>1. \E l : listing' = [listing EXCEPT ![t] = l]
    BY <1>7 DEF ListReturns
  <2>2. \E l : Goto(t, l, NoKey)
    BY <1>7 DEF ListReturns
  <2> QED BY <1>7, <2>1, <2>2 DEF ListReturns, Goto, lateVars
<1>8. ASSUME ListEnds(t) PROVE R
  BY <1>8 DEF ListEnds, Goto, Forget, lateVars
<1>9. R
  BY <1>2, <1>3, <1>4, <1>5, <1>6, <1>7, <1>8 DEF ThreadStep
<1> QED BY <1>9 DEF Frame, Phases

(***************************************************************************)
(* The order of a listing.                                                 *)
(***************************************************************************)

\* Keys are totally ordered.
LEMMA BeforeOrder ==
    ASSUME NEW a \in Keys, NEW b \in Keys, NEW c \in Keys
    PROVE  /\ ~Before(a, a)
           /\ Before(a, b) /\ Before(b, c) => Before(a, c)
           /\ a = b \/ Before(a, b) \/ Before(b, a)
<1>1. /\ a[1] \in Nat /\ a[2] \in Nat /\ b[1] \in Nat /\ b[2] \in Nat
      /\ c[1] \in Nat /\ c[2] \in Nat
      /\ a[1] = b[1] /\ a[2] = b[2] => a = b
  BY DEF Keys
<1> QED BY <1>1 DEF Before

\* A finite nonempty set of keys has a last and a first element.
LEMMA Extremes ==
    ASSUME NEW es \in SUBSET Keys, es # {}, IsFiniteSet(es)
    PROVE  /\ \E e \in es : \A d \in es : ~Before(e, d)
           /\ \E e \in es : \A d \in es : ~Before(d, e)
<1> DEFINE Has(T) == /\ \E e \in T : \A d \in T : ~Before(e, d)
                     /\ \E e \in T : \A d \in T : ~Before(d, e)
           Lacking == {T \in SUBSET es : T # {} /\ ~Has(T)}
           R == StrictSubsetOrdering(es)
           F == FiniteSubsetsOf(es)
<1>1. IsWellFoundedOn(R, F) /\ F = SUBSET es
  BY FS_StrictSubsetOrderingWellFounded, FS_FiniteSubsetsOfFinite
<1>2. ASSUME Lacking # {} PROVE FALSE
  <2>1. PICK T \in Lacking : \A U \in Lacking : ~(<<U, T>> \in R)
    <3> HIDE DEF Lacking, R, F
    <3>1. Lacking \subseteq F
      BY <1>1 DEF Lacking
    <3> QED BY <1>1, <1>2, <3>1, WFMin
  <2>2. PICK x \in T : TRUE
    BY <2>1
  <2> DEFINE U == T \ {x}
  <2>3. <<U, T>> \in R
    BY <2>1, <2>2 DEF StrictSubsetOrdering
  <2>4. U \in SUBSET es /\ U \notin Lacking
    BY <2>1, <2>3
  <2>5. CASE U = {}
    <3>1. T = {x} /\ x \in Keys
      BY <2>1, <2>2, <2>5
    <3>2. Has(T)
      BY <3>1, BeforeOrder
    <3> QED BY <2>1, <3>2
  <2>6. CASE U # {}
    <3>1. Has(U)
      BY <2>4, <2>6
    <3>2. PICK hi \in U : \A d \in U : ~Before(hi, d)
      BY <3>1
    <3>3. PICK lo \in U : \A d \in U : ~Before(d, lo)
      BY <3>1
    <3> HIDE DEF Has
    <3>4. T = U \cup {x} /\ U \in SUBSET Keys /\ x \in Keys /\ hi \in Keys /\ lo \in Keys
      BY <2>1, <2>2
    <3> HIDE DEF U
    <3>5. \E e \in T : \A d \in T : ~Before(e, d)
      <4>1. CASE Before(hi, x)
        <5>1. \A d \in U : ~Before(x, d)
          BY <3>2, <3>4, <4>1, BeforeOrder
        <5> QED BY <3>4, <5>1, BeforeOrder
      <4>2. CASE ~Before(hi, x)
        BY <3>2, <3>4, <4>2
      <4> QED BY <4>1, <4>2
    <3>6. \E e \in T : \A d \in T : ~Before(d, e)
      <4>1. CASE Before(x, lo)
        <5>1. \A d \in U : ~Before(d, x)
          BY <3>3, <3>4, <4>1, BeforeOrder
        <5> QED BY <3>4, <5>1, BeforeOrder
      <4>2. CASE ~Before(x, lo)
        BY <3>3, <3>4, <4>2
      <4> QED BY <4>1, <4>2
    <3>7. Has(T)
      BY <3>5, <3>6 DEF Has
    <3> QED BY <2>1, <3>7
  <2> QED BY <2>5, <2>6
<1> QED BY <1>2

\* A page that is not all that is left ends with its last entry, and what comes
\* after that entry is what the page leaves.
LEMMA PageSplit ==
    ASSUME NEW rest \in SUBSET Keys, IsFiniteSet(rest), FirstPage(rest) # rest
    PROVE  LET page == FirstPage(rest)
           IN /\ LastOf(page) \in page
              /\ \A e \in rest : Before(LastOf(page), e) <=> e \notin page
<1> DEFINE page == FirstPage(rest)
           Pred(e) == {d \in rest : Before(d, e)}
<1>0. PageSize \in Nat /\ PageSize # 0
  BY DatasetsAssumption
<1>1. /\ page \subseteq rest /\ page # rest
      /\ \A e \in rest : e \in page <=> Cardinality(Pred(e)) < PageSize
  BY DEF FirstPage
<1> HIDE DEF page
<1>2. page # {}
  <2>1. rest # {}
    BY <1>1
  <2>2. PICK e \in rest : \A d \in rest : ~Before(d, e)
    BY <2>1, Extremes
  <2>3. Pred(e) = {}
    BY <2>2
  <2>4. Cardinality(Pred(e)) = 0
    BY <2>3, FS_EmptySet
  <2> HIDE DEF Pred
  <2>5. e \in page
    BY <1>0, <1>1, <2>2, <2>4
  <2> QED BY <2>5
<1>3. IsFiniteSet(page) /\ page \in SUBSET Keys
  BY <1>1, FS_Subset
<1>4. \E e \in page : \A d \in page : ~Before(e, d)
  BY <1>2, <1>3, Extremes
<1> DEFINE last == LastOf(page)
<1>5. last \in page /\ \A d \in page : ~Before(last, d)
  BY <1>4 DEF LastOf
<1> HIDE DEF last
<1>6. ASSUME NEW e \in rest, e \notin page PROVE Before(last, e)
  <2>1. last # e /\ last \in rest /\ last \in Keys /\ e \in Keys
    BY <1>1, <1>5, <1>6
  <2>2. ASSUME Before(e, last) PROVE FALSE
    <3>1. Pred(e) \in SUBSET Pred(last)
      BY <2>1, <2>2, BeforeOrder
    <3>2. Pred(last) \in SUBSET rest /\ Pred(e) \in SUBSET rest
      OBVIOUS
    <3> HIDE DEF Pred
    <3>3. IsFiniteSet(Pred(last)) /\ IsFiniteSet(Pred(e))
      BY <3>2, FS_Subset
    <3>4. /\ Cardinality(Pred(e)) <= Cardinality(Pred(last))
          /\ Cardinality(Pred(e)) \in Nat /\ Cardinality(Pred(last)) \in Nat
      BY <3>1, <3>3, FS_Subset, FS_CardinalityType
    <3>5. Cardinality(Pred(last)) < PageSize
      BY <1>1, <1>5, <2>1
    <3> QED BY <1>0, <1>1, <1>6, <3>4, <3>5
  <2> QED BY <2>1, <2>2, BeforeOrder
<1> QED BY <1>5, <1>6 DEF page, last

\* The entries of a listing are keys, or directories in the guise of keys.
LEMMA EntriesAreKeys ==
    ASSUME store \subseteq Keys, NEW delim
    PROVE  Entries(delim) \in SUBSET Keys
BY DEF Entries, Keys

Places == {"off", "loop", "head", "get", "put", "list", "listed"}

\* A request for a key of the right type leaves everything of its type.
LEMMA SendTypes ==
    ASSUME Frame, NEW t \in Threads, NEW l \in Places, NEW k \in Keys, Send(t, l, k)
    PROVE  /\ pc' \in [Threads -> Places] /\ key' \in [Threads -> Keys]
           /\ listing' \in [Threads -> Listings] /\ UNCHANGED <<store, failed>>
<1>1. NoListing \in Listings
  BY DEF NoListing, Listings, NoKey, Keys
<1> QED BY <1>1 DEF Send, Goto, Forget, Frame, TypeOK, Shapes, Places, Keys

\* Every step of a thread keeps the types.
LEMMA ThreadTypes ==
    ASSUME Frame, NEW t \in Threads, ThreadStep(t)
    PROVE  /\ pc' \in [Threads -> Places] /\ key' \in [Threads -> Keys]
           /\ listing' \in [Threads -> Listings]
           /\ visits' \in [0 .. Objects - 1 -> Nat]
           /\ store' \subseteq Keys /\ failed' \subseteq Keys
           /\ IsFiniteSet(store')
<1> DEFINE R == /\ pc' \in [Threads -> Places] /\ key' \in [Threads -> Keys]
                /\ listing' \in [Threads -> Listings]
                /\ visits' \in [0 .. Objects - 1 -> Nat]
                /\ store' \subseteq Keys /\ failed' \subseteq Keys
                /\ IsFiniteSet(store')
<1>0. /\ pc \in [Threads -> Places] /\ key \in [Threads -> Keys]
      /\ listing \in [Threads -> Listings] /\ visits \in [0 .. Objects - 1 -> Nat]
      /\ store \subseteq Keys /\ failed \subseteq Keys /\ IsFiniteSet(store)
      /\ claims \in Nat /\ tracked \in 0 .. Len(BaseKeys) /\ kind \in Kinds
      /\ NoKey \in Keys /\ Objects \in Nat /\ NoListing \in Listings
  BY DatasetsAssumption DEF Frame, TypeOK, Shapes, Places, Keys, NoKey, NoListing, Listings
<1>a. /\ BaseKeys \in Seq(Keys) /\ Len(BaseKeys) \in Nat
      /\ \A i \in 1 .. tracked : BaseKeys[i] \in Keys
  BY <1>0, BaseShape
<1>b. ASSUME NEW l \in Places, NEW k \in Keys, Send(t, l, k), UNCHANGED visits PROVE R
  BY <1>b, <1>0, SendTypes
<1>1. ASSUME Leave(t) PROVE R
  BY <1>1, <1>0 DEF Leave, Goto, Forget, Places
<1>2. ASSUME ReadFragment(t) PROVE R
  <2>1. kind = "lancedb" /\ UNCHANGED visits
    BY <1>2 DEF ReadFragment
  <2>2. PICK i \in 1 .. fragmentCount : Send(t, "head", LancedbKeys[i])
    BY <1>2 DEF ReadFragment
  <2>3. i \in 1 .. tracked
    BY <1>0, <1>a, FragmentsTracked DEF Frame
  <2>4. LancedbKeys[i] \in Keys
    BY <1>0, <1>a, <2>1, <2>3, BaseShape
  <2> QED BY <1>b, <2>1, <2>2, <2>4 DEF Places
<1>3. ASSUME ReadBaseKey(t) PROVE R
  <2>1. PICK i \in 1 .. tracked : Send(t, "get", MetadataKeys[i])
    BY <1>3 DEF ReadBaseKey
  <2>2. MetadataKeys[i] \in Keys
    BY <1>3, <1>0, <1>a, BaseShape DEF ReadBaseKey
  <2> QED BY <1>3, <1>b, <2>1, <2>2 DEF ReadBaseKey, Places
<1>4. ASSUME ReadAny(t) PROVE R
  <2>1. PICK i \in 1 .. tracked : Send(t, "get", DataloaderKeys[i])
    BY <1>4 DEF ReadAny
  <2>2. DataloaderKeys[i] \in Keys
    BY <1>4, <1>0, <1>a, BaseShape DEF ReadAny
  <2> QED BY <1>4, <1>b, <2>1, <2>2 DEF ReadAny, Places
<1>5. ASSUME ReadNext(t) PROVE R
  <2> DEFINE i == claims % tracked
  <2>1. /\ Send(t, "get", DataloaderKeys[i + 1]) /\ kind = "training_data"
        /\ visits' = [visits EXCEPT ![i] = visits[i] + 1]
    BY <1>5 DEF ReadNext
  <2>2. tracked \in Nat \ {0}
    BY <1>5, <1>0, <1>a, ThreadFrame, <2>1 DEF Frame, Phases
  <2>3. i + 1 \in 1 .. tracked
    BY <1>0, <2>2
  <2>4. DataloaderKeys[i + 1] \in Keys
    BY <1>0, <1>a, <2>1, <2>3, BaseShape
  <2> HIDE DEF i
  <2>5. visits' \in [0 .. Objects - 1 -> Nat]
    <3> DEFINE D == 0 .. Objects - 1
    <3>1. visits \in [D -> Nat]
      BY <1>0
    <3> HIDE DEF D
    <3>2. visits' = [j \in D |-> IF j = i THEN visits[i] + 1 ELSE visits[j]]
      BY <2>1, <3>1
    <3>3. \A j \in D : (IF j = i THEN visits[i] + 1 ELSE visits[j]) \in Nat
      BY <3>1
    <3> QED BY <3>2, <3>3 DEF D
  <2>6. "get" \in Places
    BY DEF Places
  <2> QED BY <1>0, <2>1, <2>4, <2>5, <2>6, SendTypes
<1>6. ASSUME HeadReturns(t) \/ ReadReturns(t) PROVE R
  BY <1>6, <1>0 DEF HeadReturns, ReadReturns, Goto, Places
<1>7. ASSUME WriteManifest(t) \/ Copy(t) PROVE R
  <2>1. PICK k \in {ManifestKey(claims), CopyKey(claims)} : Claim(t, k)
    BY <1>7 DEF WriteManifest, Copy
  <2>2. k \in Keys
    BY <1>0, FragmentsTracked DEF ManifestKey, CopyKey, New, Keys, Frame
  <2> QED BY <1>b, <2>1, <2>2 DEF Claim, Places
<1>8. ASSUME PutReturns(t) PROVE R
  <2>1. /\ key[t] \in Keys /\ store' \in {store, store \cup {key[t]}}
        /\ failed' \in {failed, failed \cup {key[t]}}
    BY <1>8, <1>0 DEF PutReturns, PutOK, PutError, Fail
  <2>2. IsFiniteSet(store') /\ store' \subseteq Keys /\ failed' \subseteq Keys
    BY <1>0, <2>1, FS_AddElement
  <2> QED BY <1>8, <1>0, <2>2 DEF PutReturns, Goto, Places
<1>9. ASSUME ListPrefix(t) PROVE R
  <2>1. PICK d \in BOOLEAN : listing' = [listing EXCEPT ![t] = Opened(d)]
    BY <1>9 DEF ListPrefix
  <2>2. Opened(d) \in Listings
    BY <1>0, EntriesFinite DEF Opened, Listings
  <2> QED BY <1>9, <1>0, <2>1, <2>2 DEF ListPrefix, Goto, Places
<1>10. ASSUME ListManifest(t) PROVE R
  BY <1>10, <1>b, <1>0 DEF ListManifest, Places
<1>11. ASSUME ListReturns(t) PROVE R
  <2> DEFINE l == listing[t]
             rest == {e \in Entries(l.delim) : Before(l.token, e)}
             page == FirstPage(rest)
  <2>1. l \in Listings
    BY <1>0
  <2>2. page \subseteq Entries(l.delim) /\ IsFiniteSet(page) /\ Cardinality(page) \in Nat
    <3>1. l.delim \in BOOLEAN
      BY <2>1 DEF Listings
    <3>2. page \subseteq Entries(l.delim)
      BY DEF FirstPage
    <3> HIDE DEF page
    <3> QED BY <1>0, <3>1, <3>2, EntriesFinite, FS_Subset, FS_CardinalityType
  <2>3. \A token \in Keys : Paged(l, page, token) \in Listings
    BY <2>1, <2>2 DEF Paged, Listings
  <2>4. page # rest => TokenOf(page) \in Keys
    <3>1. l.delim \in BOOLEAN /\ Entries(l.delim) \in SUBSET Keys
      BY <1>0, <2>1, EntriesAreKeys DEF Listings
    <3>2. rest \in SUBSET Keys /\ IsFiniteSet(rest)
      BY <1>0, <3>1, EntriesFinite, FS_Subset
    <3> HIDE DEF rest
    <3>3. page # rest => LastOf(page) \in page
      BY <3>2, PageSplit
    <3>4. page \subseteq rest
      BY DEF FirstPage
    <3> QED BY <3>2, <3>3, <3>4 DEF TokenOf
  <2>5. \E token \in Keys : listing' = [listing EXCEPT ![t] = Paged(l, page, token)]
    <3>1. CASE page = rest
      BY <1>11, <2>1, <3>1 DEF ListReturns, Listings
    <3>2. CASE page # rest
      BY <1>11, <2>4, <3>2 DEF ListReturns
    <3> QED BY <3>1, <3>2
  <2>6. listing' \in [Threads -> Listings]
    <3> HIDE DEF page, l
    <3> QED BY <1>0, <2>3, <2>5
  <2> QED BY <1>11, <1>0, <2>6 DEF ListReturns, Goto, Places
<1>12. ASSUME ListEnds(t) PROVE R
  BY <1>12, <1>0 DEF ListEnds, Goto, Forget, AfterListError, Places
<1> QED
  BY <1>1, <1>2, <1>3, <1>4, <1>5, <1>6, <1>7, <1>8, <1>9, <1>10, <1>11, <1>12
     DEF ThreadStep

\* The phases: the caller's steps.
THEOREM FrameHolds == Spec => []Frame
<1>1. Init => Frame
  <2> SUFFICES ASSUME Init PROVE Frame
    OBVIOUS
  <2>0. /\ kind \in Kinds /\ BaseKeys \in Seq(Keys) /\ Len(BaseKeys) \in Nat
        /\ Objects \in Nat /\ NoKey \in Keys /\ NoListing \in Listings
    BY BaseShape, DatasetsAssumption DEF Init, NoKey, NoListing, Keys, Listings
  <2>1. Shapes
    BY <2>0, FS_EmptySet DEF Init, Shapes
  <2>2. Phases
    BY <2>0 DEF Init, Phases
  <2>3. TypeOK
    <3>1. \A t \in Threads : listing[t].delim \in BOOLEAN /\ listing[t].counted \in Nat
      BY <2>1 DEF Shapes, Listings
    <3>2. pattern \in {"sequential", "random"} /\ main \in {"populating", "idle"}
      BY DEF Init
    <3>3. /\ pc \in [Threads -> {"off"}] /\ key \in [Threads -> Keys]
          /\ tracked \in 0 .. Len(BaseKeys) /\ runs \in 0 .. MaxRuns
      BY <2>0 DEF Init, MaxRuns
    <3>4. /\ store = {} /\ failed = {} /\ claims = 0 /\ ctxDone = FALSE /\ next = 0
          /\ limbo = {} /\ late = {} /\ command \in Commands
      BY DEF Init
    <3> QED BY <2>0, <3>1, <3>2, <3>3, <3>4 DEF TypeOK, Keys
  <2> QED BY <2>1, <2>2, <2>3 DEF Frame
<1>2. Frame /\ [Next]_vars => Frame'
  <2> SUFFICES ASSUME Frame, [Next]_vars PROVE Frame'
    OBVIOUS
  <2>0. /\ UNCHANGED fixed /\ BaseKeys' = BaseKeys
        /\ BaseKeys \in Seq(Keys) /\ Len(BaseKeys) \in Nat
        /\ \A i \in 1 .. Len(BaseKeys) : BaseKeys[i] \in Keys
        /\ kind = "training_data" => Len(BaseKeys) = Objects
    BY StaysFixed, BaseShape DEF Frame, TypeOK
  <2>a. ASSUME listing' \in [Threads -> Listings]
        PROVE  \A t \in Threads :
                  listing'[t].delim \in BOOLEAN /\ listing'[t].counted \in Nat
    BY <2>a DEF Listings
  <2>f. /\ TypeOK /\ Shapes /\ Phases /\ store \subseteq Keys /\ failed \subseteq Keys
        /\ IsFiniteSet(store) /\ claims \in Nat
        /\ limbo \subseteq failed /\ late \subseteq failed
    BY DEF Frame, TypeOK, Shapes, Keys
  <2>1. ASSUME NEW t \in Threads, ThreadStep(t) PROVE Frame'
    <3>1. /\ main = "running" /\ UNCHANGED <<fixed, tracked, callerVars>>
          /\ claims' \in Nat /\ limbo' \subseteq failed' /\ late' \subseteq failed'
      BY <2>1, <2>f, ThreadFrame
    <3>2. Shapes'
      BY <2>1, ThreadTypes DEF Shapes
    <3>3. TypeOK'
      BY <2>0, <2>1, <2>a, <2>f, <3>1, ThreadTypes DEF TypeOK, fixed, callerVars, Places, Keys
    <3>4. Phases'
      BY <2>0, <2>f, <3>1 DEF Phases, fixed, callerVars
    <3> QED BY <3>2, <3>3, <3>4 DEF Frame
  <2>2. CASE PopulatePut
    <3> DEFINE k == BaseKeys[next + 1]
    <3>1. /\ next < Len(BaseKeys) /\ next \in Nat /\ k \in Keys
          /\ main = "populating" /\ claims = 0
          /\ UNCHANGED <<claims, pc, key, listing, runs, ctxDone, visits>>
      BY <2>2, <2>0, <2>f DEF PopulatePut, TypeOK, Phases
    <3>2. /\ store' \in {store, store \cup {k}} /\ failed' \in {failed, failed \cup {k}}
          /\ \/ /\ main' = "populating" /\ next' = next + 1
                /\ tracked' = IF kind = "training_data" THEN tracked ELSE next + 1
             \/ main' = "idle" /\ next' = next /\ tracked' = tracked
      BY <2>2, <3>1 DEF PopulatePut, PutOK, PutError, Fail, TrackedOnError
    <3>8. /\ failed \subseteq failed' /\ limbo' \subseteq limbo \cup failed' /\ late' = late
      BY <2>2 DEF PopulatePut, PutOK, PutError, Fail, lateVars
    <3> HIDE DEF k
    <3>3. IsFiniteSet(store') /\ store' \subseteq Keys /\ failed' \subseteq Keys
      BY <2>f, <3>1, <3>2, FS_AddElement
    <3>4. Phases' /\ tracked' \in 0 .. Len(BaseKeys)
      BY <2>0, <2>f, <3>1, <3>2 DEF Phases, TypeOK, fixed
    <3>5. Shapes'
      BY <2>f, <3>1, <3>3 DEF Shapes
    <3>6. main' \in {"populating", "idle"} /\ next' \in Nat
      BY <3>1, <3>2
    <3>7. TypeOK'
      BY <2>0, <2>f, <3>1, <3>3, <3>4, <3>6, <3>8 DEF TypeOK, Keys, fixed
    <3> QED BY <3>4, <3>5, <3>7 DEF Frame
  <2>3. CASE PopulateReturns
    BY <2>0, <2>f, <2>3 DEF Frame, PopulateReturns, TypeOK, Shapes, Phases, fixed,
       lateVars
  <2>4. CASE PopulatePanics
    BY <2>0, <2>f, <2>4 DEF Frame, PopulatePanics, TypeOK, Shapes, Phases, fixed,
       lateVars
  <2>5. CASE StartRun
    <3>1. /\ main = "idle" /\ runs' = runs + 1 /\ runs < MaxRuns
          /\ UNCHANGED <<store, failed, limbo, late, tracked, claims, key, listing, next,
                         visits>>
          /\ \/ UNCHANGED <<main, ctxDone, pc>>
             \/ /\ main' = "running" /\ ctxDone' \in BOOLEAN
                /\ pc' = [t \in Threads |-> "loop"]
                /\ ~(tracked = 0 /\ kind # "lancedb")
      BY <2>5 DEF StartRun, RunsAgain, lateVars
    <3>2. TypeOK'
      BY <2>0, <2>f, <3>1 DEF TypeOK, fixed, MaxRuns
    <3>3. Shapes' /\ Phases'
      BY <2>0, <2>f, <3>1 DEF Shapes, Phases, fixed
    <3> QED BY <3>2, <3>3 DEF Frame
  <2>6. CASE ContextDone
    BY <2>0, <2>f, <2>6 DEF Frame, ContextDone, TypeOK, Shapes, Phases, fixed,
       lateVars
  <2>7. CASE RunReturns
    BY <2>0, <2>f, <2>7 DEF Frame, RunReturns, AllStopped, TypeOK, Shapes, Phases, fixed,
       lateVars
  <2>8. CASE StartCleanup
    BY <2>0, <2>f, <2>8 DEF Frame, StartCleanup, TypeOK, Shapes, Phases, fixed,
       lateVars
  <2>9. CASE CleanupDelete
    <3> DEFINE k == CleanupKeys[next + 1]
    <3>1. /\ next < Len(CleanupKeys) /\ next \in Nat /\ main = "cleanup"
          /\ UNCHANGED <<tracked, claims, pc, key, listing, runs, ctxDone, visits>>
      BY <2>9, <2>f DEF CleanupDelete, TypeOK
    <3>2. k \in Keys
      BY <2>f, <3>1, CleanupShape
    <3>3. /\ store' \in {store, store \ {k}} /\ failed' \in {failed, failed \cup {k}}
          /\ main' \in {"cleanup", "cleanupFailed"} /\ next' \in {next, next + 1}
          /\ UNCHANGED <<limbo, late>>
      BY <2>9, <3>1 DEF CleanupDelete, DeleteOK, DeleteError, Fail, lateVars
    <3> HIDE DEF k
    <3>4. IsFiniteSet(store') /\ store' \subseteq Keys /\ failed' \subseteq Keys
      BY <2>f, <3>2, <3>3, FS_RemoveElement
    <3>5. Shapes'
      BY <2>f, <3>1, <3>4 DEF Shapes
    <3>6. TypeOK'
      BY <2>0, <2>f, <3>1, <3>3, <3>4 DEF TypeOK, Keys, fixed
    <3>7. Phases'
      BY <2>0, <2>f, <3>1, <3>3 DEF Phases, fixed
    <3> QED BY <3>5, <3>6, <3>7 DEF Frame
  <2>10. CASE CleanupReturns
    BY <2>0, <2>f, <2>10 DEF Frame, CleanupReturns, TypeOK, Shapes, Phases, fixed,
       lateVars
  <2>11. CASE UNCHANGED vars
    BY <2>0, <2>f, <2>11 DEF Frame, vars, callerVars, TypeOK, Shapes, Phases, fixed,
       lateVars
  <2>12. ASSUME NEW k \in limbo, Land(k) PROVE Frame'
    <3>1. /\ k \in Keys /\ store' = store \cup {k} /\ failed' = failed
          /\ limbo' \subseteq failed /\ late' \subseteq failed
          /\ UNCHANGED <<tracked, claims, pc, key, listing, main, runs, ctxDone, next, visits>>
      BY <2>f, <2>12 DEF Land, callerVars
    <3>2. IsFiniteSet(store') /\ store' \subseteq Keys
      BY <2>f, <3>1, FS_AddElement
    <3>3. Shapes'
      BY <2>f, <3>1, <3>2 DEF Shapes
    <3>4. TypeOK'
      BY <2>0, <2>f, <3>1, <3>2 DEF TypeOK, Keys, fixed
    <3>5. Phases'
      BY <2>0, <2>f, <3>1 DEF Phases, fixed
    <3> QED BY <3>3, <3>4, <3>5 DEF Frame
  <2> QED
    BY <2>1, <2>2, <2>3, <2>4, <2>5, <2>6, <2>7, <2>8, <2>9, <2>10, <2>11, <2>12
       DEF Next, Terminated
<1> QED BY <1>1, <1>2, PTL DEF Spec

\* What a step of Prepopulate does, successful or not.
LEMMA PopulateStep ==
    ASSUME Frame, PopulatePut
    PROVE  LET k == BaseKeys[next + 1]
           IN /\ next \in Nat /\ next < Len(BaseKeys) /\ k \in Keys
              /\ main = "populating" /\ claims = 0
              /\ UNCHANGED <<fixed, claims, pc, key, listing, visits>>
              /\ \/ /\ main' = "populating" /\ next' = next + 1
                    /\ tracked' = IF kind = "training_data" THEN tracked ELSE next + 1
                    /\ store' = store \cup {k} /\ UNCHANGED <<failed, limbo>>
                 \/ /\ main' = "idle" /\ next' = next /\ tracked' = tracked
                    /\ store' \in {store, store \cup {k}} /\ failed' = failed \cup {k}
                    /\ limbo' \in {limbo, limbo \cup {k}}
<1>1. /\ BaseKeys \in Seq(Keys) /\ Len(BaseKeys) \in Nat /\ next \in Nat
      /\ \A i \in 1 .. Len(BaseKeys) : BaseKeys[i] \in Keys
  BY BaseShape DEF Frame, TypeOK
<1>2. main = "populating" /\ next < Len(BaseKeys) /\ next + 1 \in 1 .. Len(BaseKeys)
  BY <1>1 DEF PopulatePut
<1>3. claims = 0
  BY <1>2 DEF Frame, Phases
<1> QED BY <1>1, <1>2, <1>3 DEF PopulatePut, PutOK, PutError, Fail, TrackedOnError, lateVars

\* What a step of Cleanup does, successful or not.
LEMMA DeleteStep ==
    ASSUME Frame, CleanupDelete
    PROVE  LET k == CleanupKeys[next + 1]
           IN /\ next \in Nat /\ next < Len(CleanupKeys) /\ main = "cleanup"
              /\ UNCHANGED <<fixed, tracked, claims, pc, key, listing, visits, limbo, late>>
              /\ CleanupKeys' = CleanupKeys
              /\ \/ /\ main' = "cleanup" /\ next' = next + 1
                    /\ store' = store \ {k} /\ failed' = failed
                 \/ /\ main' = "cleanupFailed" /\ next' = next
                    /\ store' \in {store, store \ {k}} /\ failed' = failed \cup {k}
<1>1. UNCHANGED <<kind, tracked, claims>>
  BY DEF CleanupDelete, fixed
<1>2. CleanupKeys' = CleanupKeys
  BY <1>1 DEF CleanupKeys, LancedbCleanup, DataloaderCleanup, MetadataCleanup,
     ManifestTotal, manifestCount, fragmentCount
<1> HIDE DEF CleanupKeys
<1> QED BY <1>2 DEF CleanupDelete, DeleteOK, DeleteError, Fail, lateVars, Frame, TypeOK

(***************************************************************************)
(* What is tracked is in the bucket.                                       *)
(***************************************************************************)

\* Until Cleanup the tracked part of the dataset is in the bucket, and reads in
\* flight are for keys of that part.
Present ==
    /\ main \in {"populating", "idle", "running"} =>
          \A i \in 1 .. tracked : BaseKeys[i] \in store
    /\ main = "populating" => \A i \in 1 .. next : BaseKeys[i] \in store
    /\ \A t \in Threads : pc[t] \in {"head", "get"} =>
          \E i \in 1 .. tracked : key[t] = BaseKeys[i]

\* A thread reads a tracked base key.
LEMMA ThreadReads ==
    ASSUME Frame, Present, NEW t \in Threads, ThreadStep(t), pc'[t] \in {"head", "get"}
    PROVE  \E i \in 1 .. tracked : key'[t] = BaseKeys[i]
<1>0. /\ tracked \in Nat /\ claims \in Nat /\ pc \in [Threads -> Places]
      /\ key \in [Threads -> Keys] /\ kind \in Kinds
      /\ \A l, k : Send(t, l, k) => key'[t] = k /\ pc'[t] = l
  BY BaseShape DEF Frame, TypeOK, Places, Keys, Send, Goto
<1>1. CASE ReadFragment(t)
  <2>1. PICK i \in 1 .. fragmentCount : key'[t] = LancedbKeys[i]
    BY <1>0, <1>1 DEF ReadFragment
  <2>2. i \in 1 .. tracked /\ BaseKeys = LancedbKeys
    BY <1>0, <1>1, FragmentsTracked, BaseShape DEF ReadFragment, Frame
  <2> QED BY <2>1, <2>2
<1>2. CASE ReadBaseKey(t)
  <2>1. PICK i \in 1 .. tracked : key'[t] = MetadataKeys[i]
    BY <1>0, <1>2 DEF ReadBaseKey
  <2> QED BY <1>0, <1>2, <2>1, BaseShape DEF ReadBaseKey
<1>3. CASE ReadAny(t)
  <2>1. PICK i \in 1 .. tracked : key'[t] = DataloaderKeys[i]
    BY <1>0, <1>3 DEF ReadAny
  <2> QED BY <1>0, <1>3, <2>1, BaseShape DEF ReadAny
<1>4. CASE ReadNext(t)
  <2> DEFINE i == claims % tracked
  <2>1. key'[t] = DataloaderKeys[i + 1] /\ kind = "training_data"
    BY <1>0, <1>4 DEF ReadNext
  <2>2. tracked # 0
    BY <1>4, ThreadFrame, <2>1 DEF Frame, Phases
  <2>3. i + 1 \in 1 .. tracked
    BY <1>0, <2>2
  <2> QED BY <1>0, <2>1, <2>3, BaseShape
<1>5. CASE HeadReturns(t)
  <2>1. pc[t] = "head" /\ (key'[t] = key[t] \/ pc'[t] = "loop")
    BY <1>0, <1>5 DEF HeadReturns, Goto
  <2> QED BY <2>1 DEF Present
<1>6. CASE ~(ReadFragment(t) \/ ReadBaseKey(t) \/ ReadAny(t) \/ ReadNext(t) \/ HeadReturns(t))
  <2>1. pc'[t] \notin {"head", "get"}
    BY <1>0, <1>6 DEF ThreadStep, Leave, ListManifest, WriteManifest, ListPrefix, Copy,
       ReadReturns, PutReturns, ListReturns, ListEnds, Claim, Goto, AfterListError
  <2> QED BY <2>1
<1> QED BY <1>1, <1>2, <1>3, <1>4, <1>5, <1>6

\* The tracked part of the dataset is in the bucket until Cleanup.
THEOREM PresentHolds == Spec => []Present
<1>1. Init => Present
  BY DEF Init, Present
<1>2. Frame /\ Present /\ [Next]_vars => Present'
  <2> SUFFICES ASSUME Frame, Present, [Next]_vars PROVE Present'
    OBVIOUS
  <2>0. /\ BaseKeys' = BaseKeys /\ tracked \in Nat /\ next \in Nat
        /\ main # "running" => \A t \in Threads : pc[t] = "off"
    BY StaysFixed, BaseShape DEF Frame, TypeOK, Phases
  <2>1. ASSUME NEW t \in Threads, ThreadStep(t) PROVE Present'
    <3>1. /\ main' = main /\ main = "running" /\ tracked' = tracked /\ store \subseteq store'
          /\ \A u \in Threads : u # t => pc'[u] = pc[u] /\ key'[u] = key[u]
      <4>1. PICK l, k : pc' = [pc EXCEPT ![t] = l] /\ key' = [key EXCEPT ![t] = k]
        BY <2>1, ThreadFrame
      <4>2. \A u \in Threads : u # t => pc'[u] = pc[u] /\ key'[u] = key[u]
        BY <4>1 DEF Frame, TypeOK
      <4> QED BY <2>1, <4>2, ThreadFrame DEF callerVars
    <3>2. pc'[t] \in {"head", "get"} => \E i \in 1 .. tracked : key'[t] = BaseKeys[i]
      BY <2>1, ThreadReads
    <3> QED BY <2>0, <3>1, <3>2 DEF Present
  <2>2. CASE PopulatePut
    <3>1. \A i \in 1 .. next + 1 : i = next + 1 \/ i \in 1 .. next
      BY <2>0
    <3> QED BY <2>0, <2>2, <3>1, PopulateStep DEF Present, Frame, Phases
  <2>3. CASE PopulateReturns
    BY <2>0, <2>3 DEF PopulateReturns, Present
  <2>4. CASE PopulatePanics
    BY <2>0, <2>4 DEF PopulatePanics, Present
  <2>5. CASE StartRun
    BY <2>0, <2>5 DEF StartRun, RunsAgain, Present
  <2>6. CASE ContextDone \/ RunReturns \/ StartCleanup \/ CleanupReturns
    BY <2>0, <2>6 DEF ContextDone, RunReturns, AllStopped, StartCleanup, CleanupReturns, Present
  <2>7. CASE CleanupDelete
    <3>1. /\ main' \in {"cleanup", "cleanupFailed"} /\ main # "running" /\ pc' = pc
      BY <2>7, DeleteStep
    <3> QED BY <2>0, <3>1 DEF Present
  <2>8. CASE UNCHANGED vars
    BY <2>0, <2>8 DEF vars, callerVars, Present
  <2>9. ASSUME NEW k \in limbo, Land(k) PROVE Present'
    <3>1. store \subseteq store' /\ UNCHANGED <<main, tracked, next, pc, key>>
      BY <2>9 DEF Land, callerVars
    <3> QED BY <2>0, <3>1 DEF Present
  <2> QED
    BY <2>1, <2>2, <2>3, <2>4, <2>5, <2>6, <2>7, <2>8, <2>9 DEF Next, Terminated
<1> QED BY <1>1, <1>2, FrameHolds, PTL DEF Spec

\* A read in flight finds its object, whatever part of the dataset a failed
\* Prepopulate left (lancedb.go 79-81, metadata.go 57, dataloader.go 105-108).
THEOREM ReadsFind == Spec => []ReadsExist
<1>1. Frame /\ Present => ReadsExist
  <2> SUFFICES ASSUME Frame, Present, NEW t \in Threads, pc[t] \in {"head", "get"}
               PROVE  key[t] \in store
    BY DEF ReadsExist
  <2>1. main = "running"
    BY DEF Frame, Phases
  <2> QED BY <2>1 DEF Present
<1> QED BY <1>1, FrameHolds, PresentHolds, PTL

\* The types of the whole model.
THEOREM TypesHold == Spec => []TypeOK
BY FrameHolds, PTL DEF Frame

(***************************************************************************)
(* New keys.                                                               *)
(***************************************************************************)

\* The numbers below Ceiling are given away: a new key in the bucket has one of
\* them, unless its request failed, and so has a PUT in flight.
Fresh ==
    /\ \A k \in store : k[1] = New => k[2] < Ceiling \/ k \in failed
    /\ \A t \in Threads : pc[t] = "put" =>
          kind # "training_data" /\ key[t][1] = New /\ key[t][2] < Ceiling
    /\ NewKeysFresh

\* A PUT takes the next number.
LEMMA ClaimStep ==
    ASSUME Frame, NEW t \in Threads, ThreadStep(t), pc'[t] = "put"
    PROVE  /\ key'[t] = <<New, Ceiling>> /\ claims' = claims + 1 /\ Ceiling \in Nat
           /\ kind # "training_data" /\ pc[t] # "put" /\ UNCHANGED <<store, failed>>
<1>0. /\ pc \in [Threads -> Places] /\ key \in [Threads -> Keys] /\ claims \in Nat
      /\ manifestCount \in Nat
      /\ \A l, k : Send(t, l, k) => key'[t] = k /\ pc'[t] = l
  BY FragmentsTracked DEF Frame, TypeOK, Places, Keys, Send, Goto
<1>1. ASSUME NEW k, Claim(t, k)
      PROVE  /\ key'[t] = k /\ claims' = claims + 1 /\ pc[t] # "put"
             /\ UNCHANGED <<store, failed>>
  BY <1>0, <1>1 DEF Claim, Send, Iterating, Add
<1>2. CASE WriteManifest(t)
  BY <1>0, <1>1, <1>2 DEF WriteManifest, ManifestKey, Ceiling
<1>3. CASE Copy(t)
  BY <1>0, <1>1, <1>3 DEF Copy, CopyKey, Ceiling
<1>4. CASE ~WriteManifest(t) /\ ~Copy(t)
  <2>1. pc'[t] # "put"
    BY <1>0, <1>4 DEF ThreadStep, Leave, ReadFragment, HeadReturns, ListManifest, ReadAny,
       ReadNext, ReadBaseKey, ListPrefix, ReadReturns, PutReturns, ListReturns, ListEnds,
       Goto, AfterListError
  <2> QED BY <2>1
<1> QED BY <1>2, <1>3, <1>4

\* What the reply to a PUT does.
LEMMA PutReply ==
    ASSUME Frame, NEW t \in Threads, ThreadStep(t), pc[t] = "put"
    PROVE  /\ pc'[t] = "loop" /\ UNCHANGED claims
           /\ limbo' \in {limbo, limbo \cup {key[t]}}
           /\ \/ store' = store \cup {key[t]} /\ failed' = failed
              \/ failed' = failed \cup {key[t]} /\ store' \in {store, store \cup {key[t]}}
<1>1. PutReturns(t)
  BY DEF ThreadStep, Leave, ReadFragment, HeadReturns, ListManifest, WriteManifest, ReadAny,
     ReadNext, ReadBaseKey, ListPrefix, Copy, ReadReturns, ListReturns, ListEnds, Send,
     Claim, Iterating
<1> QED BY <1>1 DEF PutReturns, PutOK, PutError, Fail, lateVars, Goto, Frame, TypeOK

\* A step of a thread keeps the counts, or hands out one more number.
LEMMA CeilingSteps ==
    ASSUME Frame, [Next]_vars
    PROVE  /\ Ceiling \in Nat /\ Ceiling' \in Nat
           /\ main # "populating" => Ceiling' >= Ceiling
<1>0. /\ tracked \in Nat /\ claims \in Nat /\ manifestCount \in Nat /\ Fragments \in Nat
      /\ kind' = kind /\ main \in {"populating", "idle", "running", "cleanup", "cleaned",
                                   "cleanupFailed", "panicked"}
  BY FragmentsTracked, StaysFixed, BaseShape, DatasetsAssumption DEF Frame, TypeOK, fixed
<1>1. /\ tracked' \in Nat /\ claims' \in Nat
      /\ main # "populating" => tracked' = tracked /\ claims' \in {claims, claims + 1}
  <2>1. ASSUME NEW t \in Threads, ThreadStep(t)
        PROVE  tracked' = tracked /\ claims' \in {claims, claims + 1}
    BY <2>1, ThreadFrame
  <2>2. CASE PopulatePut
    BY <1>0, <2>2, PopulateStep
  <2>3. CASE PopulateReturns
    BY <1>0, <2>3 DEF PopulateReturns, Frame, TypeOK
  <2>4. CASE ~PopulatePut /\ ~PopulateReturns /\ ~\E t \in Threads : ThreadStep(t)
    BY <1>0, <2>4 DEF Next, PopulatePanics, StartRun, ContextDone, RunReturns,
       StartCleanup, CleanupDelete, CleanupReturns, Land, Terminated, vars
  <2> QED BY <1>0, <2>1, <2>2, <2>3, <2>4
<1>2. manifestCount' \in Nat
  <2>1. PICK n \in Nat : n = tracked'
    BY <1>1
  <2>2. fragmentCount' = IF n < Fragments THEN n ELSE Fragments
    BY <2>1 DEF fragmentCount
  <2>3. manifestCount' = n - fragmentCount'
    BY <2>1 DEF manifestCount
  <2> QED BY <1>0, <2>2, <2>3
<1>3. tracked' = tracked => manifestCount' = manifestCount
  BY DEF manifestCount, fragmentCount
<1>4. PICK n \in Nat, c \in Nat : n = manifestCount' /\ c = claims'
  BY <1>1, <1>2
<1>5. Ceiling' = (IF kind = "lancedb" THEN n ELSE 0) + c
  BY <1>0, <1>4 DEF Ceiling
<1>6. main # "populating" => n = manifestCount /\ c >= claims
  BY <1>0, <1>1, <1>3, <1>4
<1> HIDE DEF manifestCount
<1>7. Ceiling \in Nat /\ (main # "populating" => Ceiling' >= Ceiling)
  BY <1>0, <1>5, <1>6 DEF Ceiling
<1>8. Ceiling' \in Nat
  BY <1>5
<1> QED BY <1>7, <1>8

\* The invariant on new keys.
THEOREM FreshHolds == Spec => []Fresh
<1>1. Init => Fresh
  BY DEF Init, Fresh, NewKeysFresh
<1>2. Frame /\ Fresh /\ [Next]_vars => Fresh'
  <2> SUFFICES ASSUME Frame, Fresh, [Next]_vars PROVE Fresh'
    OBVIOUS
  <2>0. /\ BaseKeys' = BaseKeys /\ tracked \in Nat /\ next \in Nat /\ kind' = kind
        /\ claims \in Nat /\ store \subseteq Keys
        /\ main # "running" => \A t \in Threads : pc[t] = "off"
        /\ key \in [Threads -> Keys]
    BY StaysFixed, BaseShape DEF Frame, TypeOK, Phases, fixed, Keys
  <2>c. /\ Ceiling \in Nat /\ Ceiling' \in Nat
        /\ main # "populating" => Ceiling' >= Ceiling
    BY CeilingSteps
  <2>1. ASSUME NEW t \in Threads, ThreadStep(t) PROVE Fresh'
    <3>1. /\ main = "running" /\ tracked' = tracked /\ Ceiling' >= Ceiling
          /\ failed \subseteq failed'
          /\ \A u \in Threads : u # t => pc'[u] = pc[u] /\ key'[u] = key[u]
      <4>1. PICK l, k : pc' = [pc EXCEPT ![t] = l] /\ key' = [key EXCEPT ![t] = k]
        BY <2>1, ThreadFrame
      <4>2. \A u \in Threads : u # t => pc'[u] = pc[u] /\ key'[u] = key[u]
        BY <4>1 DEF Frame, TypeOK
      <4> QED BY <2>c, <2>1, <4>2, ThreadFrame
    <3>2. \A u \in Threads : key[u] \in Keys
      BY <2>0
    <3>3. CASE pc[t] = "put"
      <4>1. /\ pc'[t] = "loop" /\ store' \subseteq store \cup {key[t]}
            /\ key[t][2] < Ceiling' /\ kind # "training_data" /\ key[t][1] = New
        BY <2>0, <2>c, <2>1, <3>1, <3>2, <3>3, PutReply DEF Fresh, Keys
      <4>2. \A k \in store' : k[1] = New => k[2] < Ceiling' \/ k \in failed'
        <5> SUFFICES ASSUME NEW k \in store', k[1] = New
                     PROVE  k[2] < Ceiling' \/ k \in failed'
          OBVIOUS
        <5>1. CASE k = key[t]
          BY <4>1, <5>1
        <5>2. CASE k # key[t]
          <6>1. k \in store /\ k[2] \in Nat
            BY <2>0, <4>1, <5>2 DEF Keys
          <6> QED BY <2>c, <3>1, <6>1 DEF Fresh
        <5> QED BY <5>1, <5>2
      <4>3. \A u \in Threads : pc'[u] = "put" =>
               /\ u # t /\ pc[u] = "put" /\ key'[u] = key[u] /\ key[u] # key[t]
               /\ key[u] \in store => key[u] \in failed
        BY <3>1, <3>3, <4>1 DEF Fresh, NewKeysFresh
      <4>4. \A u \in Threads : pc'[u] = "put" =>
               kind' # "training_data" /\ key'[u][1] = New /\ key'[u][2] < Ceiling'
        <5> SUFFICES ASSUME NEW u \in Threads, pc'[u] = "put"
                     PROVE  /\ kind' # "training_data" /\ key'[u][1] = New
                            /\ key'[u][2] < Ceiling'
          OBVIOUS
        <5>1. key[u][2] \in Nat /\ key[u][2] < Ceiling /\ key[u][1] = New
          BY <3>2, <4>3 DEF Fresh, Keys
        <5> QED BY <2>0, <2>c, <3>1, <4>1, <4>3, <5>1
      <4>5. NewKeysFresh'
        <5>1. \A u \in Threads : pc'[u] = "put" => (key'[u] \in store' => key'[u] \in failed')
          BY <3>1, <4>1, <4>3
        <5>2. \A u, v \in Threads : v # u /\ pc'[u] = "put" /\ pc'[v] = "put" => key'[v] # key'[u]
          BY <4>3 DEF Fresh, NewKeysFresh
        <5> QED BY <5>1, <5>2 DEF NewKeysFresh
      <4> QED BY <4>2, <4>4, <4>5 DEF Fresh
    <3>4. CASE pc[t] # "put"
      <4>1. store' = store /\ failed' = failed
        BY <2>1, <3>4, ThreadFrame
      <4>2. \A k \in store' : k[1] = New => k[2] < Ceiling' \/ k \in failed'
        <5>1. \A k \in store : k[2] \in Nat
          BY <2>0 DEF Keys
        <5> QED BY <2>c, <3>1, <4>1, <5>1 DEF Fresh
      <4>3. pc'[t] = "put" =>
               /\ key'[t][1] = New /\ key'[t][2] = Ceiling /\ Ceiling < Ceiling'
               /\ kind # "training_data"
        <5> SUFFICES ASSUME pc'[t] = "put"
                     PROVE  /\ key'[t][1] = New /\ key'[t][2] = Ceiling /\ Ceiling < Ceiling'
                            /\ kind # "training_data"
          OBVIOUS
        <5>1. /\ key'[t] = <<New, Ceiling>> /\ claims' = claims + 1 /\ kind # "training_data"
          BY <2>1, ClaimStep
        <5>2. manifestCount' = manifestCount
          BY <3>1 DEF manifestCount, fragmentCount
        <5>3. manifestCount \in Nat
          BY FragmentsTracked DEF Frame
        <5>4. Ceiling < Ceiling'
          BY <2>0, <5>1, <5>2, <5>3 DEF Ceiling
        <5> QED BY <5>1, <5>4
      <4>4. \A u \in Threads : u # t /\ pc'[u] = "put" =>
               /\ kind # "training_data" /\ key'[u][1] = New /\ key'[u][2] < Ceiling
               /\ key'[u][2] \in Nat /\ key'[u] = key[u] /\ pc[u] = "put"
        BY <3>1, <3>2 DEF Fresh, Keys
      <4>5. \A u \in Threads : pc'[u] = "put" =>
               kind' # "training_data" /\ key'[u][1] = New /\ key'[u][2] < Ceiling'
        BY <2>0, <2>c, <3>1, <4>3, <4>4
      <4>6. NewKeysFresh'
        <5>1. \A u \in Threads : pc'[u] = "put" => (key'[u] \in store' => key'[u] \in failed')
          <6>1. ASSUME pc'[t] = "put", key'[t] \in store PROVE key'[t] \in failed
            BY <2>c, <4>3, <6>1 DEF Fresh
          <6> QED BY <4>1, <4>4, <6>1 DEF Fresh, NewKeysFresh
        <5>2. \A u, v \in Threads : v # u /\ pc'[u] = "put" /\ pc'[v] = "put" => key'[v] # key'[u]
          <6> SUFFICES ASSUME NEW u \in Threads, NEW v \in Threads, v # u,
                              pc'[u] = "put", pc'[v] = "put"
                       PROVE  key'[v] # key'[u]
            OBVIOUS
          <6>1. CASE u # t /\ v # t
            BY <4>4, <6>1 DEF Fresh, NewKeysFresh
          <6>2. CASE u = t
            BY <2>c, <4>3, <4>4, <6>2
          <6>3. CASE v = t
            BY <2>c, <4>3, <4>4, <6>3
          <6> QED BY <6>1, <6>2, <6>3
        <5> QED BY <5>1, <5>2 DEF NewKeysFresh
      <4> QED BY <4>2, <4>5, <4>6 DEF Fresh
    <3> QED BY <3>3, <3>4
  <2>2. CASE PopulatePut
    <3> DEFINE k == BaseKeys[next + 1]
    <3>1. /\ next < Len(BaseKeys) /\ main = "populating" /\ claims = 0 /\ claims' = claims
          /\ pc' = pc /\ store' \subseteq store \cup {k}
          /\ \/ tracked' = tracked /\ k \in failed'
             \/ tracked' = IF kind = "training_data" THEN tracked ELSE next + 1
          /\ failed \subseteq failed'
      BY <2>2, PopulateStep
    <3>2. kind \in Kinds /\ Len(BaseKeys) \in Nat /\ next + 1 \in 1 .. Len(BaseKeys)
      BY <2>0, <3>1, BaseShape DEF Frame, TypeOK
    <3>3. tracked = IF kind = "training_data" THEN 0 ELSE next
      BY <3>1 DEF Frame, Phases
    <3>4. Ceiling' >= Ceiling
      <4>1. tracked' >= tracked
        BY <2>0, <3>1, <3>3
      <4> QED BY <2>0, <2>c, <3>1, <4>1, DatasetsAssumption
              DEF Ceiling, manifestCount, fragmentCount
    <3>5. k[1] = New => k[2] < Ceiling' \/ k \in failed'
      <4> SUFFICES ASSUME k[1] = New, k \notin failed' PROVE k[2] < Ceiling'
        OBVIOUS
      <4>1. kind = "lancedb" /\ BaseKeys = LancedbKeys
        BY <3>2, BaseShape
      <4>2. tracked' = next + 1
        BY <3>1, <4>1
      <4>3. Fragments \in Nat /\ Manifests \in Nat /\ Base # New
        BY DatasetsAssumption DEF Base, New
      <4>4. k = <<Base, next>> \/ (next >= Fragments /\ k = <<New, next - Fragments>>)
        <5> DEFINE i == next + 1
        <5>1. i \in 1 .. Fragments \/ i \in Fragments + 1 .. Fragments + Manifests
          BY <2>0, <3>2, <4>1, <4>3, LancedbShape
        <5>2. i - 1 = next /\ i - 1 - Fragments = next - Fragments
          BY <2>0, <4>3
        <5> HIDE DEF i
        <5>3. CASE i \in 1 .. Fragments
          <6>1. k = <<Base, i - 1>>
            BY <4>1, <5>3, LancedbShape DEF i
          <6> QED BY <5>2, <6>1
        <5>4. CASE i \in Fragments + 1 .. Fragments + Manifests
          <6>1. k = <<New, i - 1 - Fragments>>
            BY <4>1, <5>4, LancedbShape DEF i
          <6> QED BY <2>0, <4>3, <5>2, <5>4, <6>1
        <5> QED BY <5>1, <5>3, <5>4
      <4>5. next >= Fragments /\ k[2] = next - Fragments
        BY <4>3, <4>4
      <4>6. Ceiling' = next + 1 - Fragments
        BY <2>0, <3>1, <4>1, <4>2, <4>3, <4>5 DEF Ceiling, manifestCount, fragmentCount
      <4> QED BY <2>0, <4>3, <4>5, <4>6
    <3> HIDE DEF k
    <3>6. \A j \in store' : j[1] = New => j[2] < Ceiling' \/ j \in failed'
      <4> SUFFICES ASSUME NEW j \in store', j[1] = New, j # k
                   PROVE  j[2] < Ceiling' \/ j \in failed'
        BY <3>5
      <4>1. j \in store /\ j[2] \in Nat
        BY <2>0, <3>1 DEF Keys
      <4> QED BY <2>c, <3>1, <3>4, <4>1 DEF Fresh
    <3>7. \A t \in Threads : pc'[t] = "off"
      BY <2>0, <3>1
    <3> QED BY <3>6, <3>7 DEF Fresh, NewKeysFresh
  <2>3. CASE PopulateReturns
    <3>1. /\ UNCHANGED <<store, failed, claims, pc>> /\ main = "populating" /\ tracked' = next
          /\ next <= Len(BaseKeys)
      BY <2>3 DEF PopulateReturns, Frame, Phases
    <3>2. Ceiling' >= Ceiling
      <4>1. kind = "lancedb" => tracked' = tracked
        BY <3>1 DEF Frame, Phases
      <4> QED BY <2>0, <2>c, <3>1, <4>1 DEF Ceiling, manifestCount, fragmentCount
    <3>3. \A j \in store : j[2] \in Nat
      BY <2>0 DEF Keys
    <3>4. \A t \in Threads : pc'[t] = "off"
      BY <2>0, <3>1
    <3> QED BY <2>c, <3>1, <3>2, <3>3, <3>4 DEF Fresh, NewKeysFresh
  <2>4. ASSUME UNCHANGED <<kind, store, failed, tracked, claims, key>>,
               pc' = pc \/ \A t \in Threads : pc'[t] # "put"
        PROVE  Fresh'
    <3>1. Ceiling' = Ceiling
      BY <2>4 DEF Ceiling, manifestCount, fragmentCount
    <3> QED BY <2>4, <3>1 DEF Fresh, NewKeysFresh
  <2>5. CASE PopulatePanics \/ ContextDone \/ RunReturns \/ StartCleanup \/ CleanupReturns
    BY <2>0, <2>4, <2>5 DEF PopulatePanics, ContextDone, RunReturns, StartCleanup, CleanupReturns
  <2>6. CASE StartRun
    BY <2>0, <2>4, <2>6 DEF StartRun
  <2>7. CASE CleanupDelete
    <3>1. /\ store' \subseteq store /\ failed \subseteq failed' /\ pc' = pc
          /\ UNCHANGED <<tracked, claims>> /\ main # "running"
      BY <2>7, DeleteStep
    <3>2. Ceiling' = Ceiling
      BY <2>0, <3>1 DEF Ceiling, manifestCount, fragmentCount
    <3>3. \A t \in Threads : pc'[t] = "off"
      BY <2>0, <3>1
    <3> QED BY <3>1, <3>2, <3>3 DEF Fresh, NewKeysFresh
  <2>8. CASE UNCHANGED vars
    BY <2>0, <2>4, <2>8 DEF vars
  <2>9. ASSUME NEW k \in limbo, Land(k) PROVE Fresh'
    <3>1. /\ store' = store \cup {k} /\ k \in failed
          /\ UNCHANGED <<failed, tracked, claims, pc, key>>
      BY <2>9 DEF Land, Frame, TypeOK
    <3>2. Ceiling' = Ceiling
      BY <2>0, <3>1 DEF Ceiling, manifestCount, fragmentCount
    <3> QED BY <2>0, <3>1, <3>2 DEF Fresh, NewKeysFresh
  <2> QED
    BY <2>1, <2>2, <2>3, <2>5, <2>6, <2>7, <2>8, <2>9 DEF Next, Terminated
<1> QED BY <1>1, <1>2, FrameHolds, PTL DEF Spec

\* A new manifest or copy never overwrites: no two requests in flight share a
\* key, and none has the key of an object whose request succeeded (the counters
\* of lancedb.go and metadata.go).
THEOREM ClaimsFresh == Spec => []NewKeysFresh
BY FreshHolds, PTL DEF Fresh

(***************************************************************************)
(* What Cleanup leaves.                                                    *)
(***************************************************************************)

\* The objects no count stands for.
Unknown(k) ==
    \/ kind = "training_data" /\ tracked = 0 /\ failed # {}
    \/ tracked < Len(BaseKeys) /\ k = BaseKeys[tracked + 1] /\ k \in failed

\* Cleanup has the key on its list.
Listed(k) == \E i \in 1 .. Len(CleanupKeys) : k = CleanupKeys[i]

\* Every object, in the bucket or yet to land, is put by Prepopulate, stood for
\* by a count, on Cleanup's list, or unknown; those Cleanup is past are late.
Custody ==
    /\ main = "populating" =>
          limbo = {} /\ \A k \in store : \E i \in 1 .. next : k = BaseKeys[i]
    /\ main \in {"idle", "running"} => \A k \in store \cup limbo : Counted(k) \/ Unknown(k)
    /\ main \in {"cleanup", "cleaned"} => \A k \in limbo : Listed(k) \/ Unknown(k)
    /\ main = "cleanup" => \A k \in store :
          \/ \E i \in next + 1 .. Len(CleanupKeys) : k = CleanupKeys[i]
          \/ Unknown(k) \/ k \in late
    /\ main = "cleaned" => next >= Len(CleanupKeys)
    /\ CleanupExplained

\* Custody does not look at what a step outside these variables changes.
LEMMA CustodyKept ==
    ASSUME Frame, Custody, [Next]_vars,
           UNCHANGED <<tracked, claims, store, failed, limbo, late>>,
           \/ main' = main /\ next' = next
           \/ main' \in {"idle", "running"} /\ main \in {"idle", "running"}
    PROVE  Custody'
<1>1. kind' = kind /\ BaseKeys' = BaseKeys
  BY StaysFixed DEF fixed
<1>2. \A k : Unknown(k)' = Unknown(k)
  BY <1>1 DEF Unknown
<1>3. Ceiling' = Ceiling
  BY <1>1 DEF Ceiling, manifestCount, fragmentCount
<1>4. \A k : Counted(k)' = Counted(k)
  BY <1>1, <1>3 DEF Counted
<1>5. CleanupKeys' = CleanupKeys
  BY <1>1 DEF CleanupKeys, LancedbCleanup, DataloaderCleanup, MetadataCleanup,
     ManifestTotal, manifestCount, fragmentCount
<1>6. Custody => CleanupExplained
  BY DEF Custody
<1>7. CleanupExplained'
  BY <1>1, <1>6 DEF CleanupExplained
<1>8. main' = "populating" =>
         limbo' = {} /\ \A k \in store' : \E i \in 1 .. next' : k = BaseKeys'[i]
  BY <1>1 DEF Custody
<1>9. main' \in {"idle", "running"} =>
         \A k \in store' \cup limbo' : Counted(k)' \/ Unknown(k)'
  BY <1>2, <1>4 DEF Custody
<1>10. main' = "cleanup" => \A k \in store' :
          \/ \E i \in next' + 1 .. Len(CleanupKeys') : k = CleanupKeys'[i]
          \/ Unknown(k)' \/ k \in late'
  BY <1>2, <1>5 DEF Custody
<1>11. \A k : Listed(k)' = Listed(k)
  BY <1>5 DEF Listed
<1>12. main' \in {"cleanup", "cleaned"} => \A k \in limbo' : Listed(k)' \/ Unknown(k)'
  BY <1>2, <1>11 DEF Custody
<1>13. main' = "cleaned" => next' >= Len(CleanupKeys')
  BY <1>5 DEF Custody
<1> QED BY <1>7, <1>8, <1>9, <1>10, <1>12, <1>13 DEF Custody

\* The invariant on what Cleanup is responsible for.
THEOREM CustodyHolds == Spec => []Custody
<1>1. Init => Custody
  BY DEF Init, Custody, CleanupExplained
<1>2. Frame /\ Fresh /\ Custody /\ [Next]_vars => Custody'
  <2> SUFFICES ASSUME Frame, Fresh, Custody, [Next]_vars PROVE Custody'
    OBVIOUS
  <2>0. /\ BaseKeys' = BaseKeys /\ kind' = kind /\ tracked \in Nat /\ next \in Nat
        /\ Len(BaseKeys) \in Nat /\ store \cup limbo \subseteq Keys
        /\ key \in [Threads -> Keys]
    BY StaysFixed, BaseShape DEF Frame, TypeOK, fixed, Keys
  <2>1. ASSUME NEW t \in Threads, ThreadStep(t) PROVE Custody'
    <3>1. /\ main = "running" /\ main' = main /\ tracked' = tracked
          /\ failed \subseteq failed'
          /\ store' \cup limbo' \subseteq store \cup limbo \cup {key[t]}
          /\ pc[t] # "put" => store' \cup limbo' = store \cup limbo
      BY <2>1, ThreadFrame, PutReply DEF callerVars
    <3>2. Ceiling \in Nat /\ Ceiling' \in Nat /\ Ceiling' >= Ceiling
      BY <3>1, CeilingSteps
    <3>3. ASSUME NEW k \in Keys, Counted(k) PROVE Counted(k)'
      <4>1. k[2] \in Nat
        BY DEF Keys
      <4> QED BY <2>0, <3>1, <3>2, <3>3, <4>1 DEF Counted
    <3>4. ASSUME NEW k, Unknown(k) PROVE Unknown(k)'
      BY <2>0, <3>1, <3>4 DEF Unknown
    <3>5. ASSUME pc[t] = "put" PROVE Counted(key[t])
      BY <3>5 DEF Fresh, Counted
    <3>6. \A k \in store' \cup limbo' : Counted(k)' \/ Unknown(k)'
      <4> SUFFICES ASSUME NEW k \in store' \cup limbo' PROVE Counted(k)' \/ Unknown(k)'
        OBVIOUS
      <4>1. CASE k \in store \cup limbo
        <5>1. Counted(k) \/ Unknown(k)
          BY <3>1, <4>1 DEF Custody
        <5>2. k \in Keys
          BY <2>0, <4>1
        <5> QED BY <3>3, <3>4, <5>1, <5>2
      <4>2. CASE k \notin store \cup limbo
        <5>1. k = key[t] /\ pc[t] = "put" /\ key[t] \in Keys
          BY <2>0, <3>1, <4>2
        <5> QED BY <3>3, <3>5, <5>1
      <4> QED BY <4>1, <4>2
    <3>7. main' = "running"
      BY <3>1
    <3> QED BY <3>6, <3>7 DEF Custody, CleanupExplained
  <2>2. CASE PopulatePut
    <3> DEFINE k == BaseKeys[next + 1]
    <3>1. /\ next < Len(BaseKeys) /\ main = "populating"
          /\ \/ /\ main' = "populating" /\ next' = next + 1 /\ store' = store \cup {k}
                /\ limbo' = limbo
             \/ /\ main' = "idle" /\ tracked' = tracked /\ k \in failed'
                /\ store' \cup limbo' \subseteq store \cup limbo \cup {k}
      BY <2>2, PopulateStep
    <3>2. /\ kind = "training_data" => tracked = 0
          /\ kind # "training_data" => tracked = next
          /\ limbo = {} /\ \A j \in store : \E i \in 1 .. next : j = BaseKeys[i]
      BY <3>1 DEF Frame, Phases, Custody
    <3>3. CASE main' = "populating"
      <4>1. next' = next + 1 /\ store' = store \cup {k} /\ limbo' = {}
        BY <3>1, <3>2, <3>3
      <4>2. \A j \in store' : \E i \in 1 .. next' : j = BaseKeys'[i]
        <5> SUFFICES ASSUME NEW j \in store' PROVE \E i \in 1 .. next' : j = BaseKeys'[i]
          OBVIOUS
        <5>1. CASE j = k
          <6>1. next + 1 \in 1 .. next'
            BY <2>0, <4>1
          <6> QED BY <2>0, <5>1, <6>1
        <5>2. CASE j # k
          <6>1. PICK i \in 1 .. next : j = BaseKeys[i]
            BY <3>2, <4>1, <5>2
          <6>2. i \in 1 .. next'
            BY <2>0, <4>1
          <6> QED BY <2>0, <6>1, <6>2
        <5> QED BY <5>1, <5>2
      <4> QED BY <3>3, <4>1, <4>2 DEF Custody, CleanupExplained
    <3>4. CASE main' # "populating"
      <4>1. /\ main' = "idle" /\ tracked' = tracked /\ k \in failed'
            /\ store' \cup limbo' \subseteq store \cup {k}
        BY <3>1, <3>2, <3>4
      <4>2. \A j \in store' \cup limbo' : Counted(j)' \/ Unknown(j)'
        <5> SUFFICES ASSUME NEW j \in store' \cup limbo' PROVE Counted(j)' \/ Unknown(j)'
          OBVIOUS
        <5>1. CASE kind = "training_data"
          <6>1. Unknown(j)'
            BY <2>0, <3>2, <4>1, <5>1 DEF Unknown
          <6> QED BY <6>1
        <5>2. CASE kind # "training_data" /\ j = k
          <6>1. Unknown(j)'
            BY <2>0, <3>1, <3>2, <4>1, <5>2 DEF Unknown
          <6> QED BY <6>1
        <5>3. CASE kind # "training_data" /\ j # k
          <6>1. \E i \in 1 .. tracked' : j = BaseKeys'[i]
            BY <2>0, <3>2, <4>1, <5>3
          <6> QED BY <6>1 DEF Counted
        <5> QED BY <5>1, <5>2, <5>3
      <4> QED BY <4>1, <4>2 DEF Custody, CleanupExplained
    <3> QED BY <3>3, <3>4
  <2>3. CASE PopulateReturns
    <3>1. /\ main = "populating" /\ main' = "idle" /\ tracked' = next /\ store' = store
          /\ limbo' = {}
      BY <2>3 DEF PopulateReturns, Custody, lateVars
    <3>2. \A k \in store' : \E i \in 1 .. tracked' : k = BaseKeys'[i]
      BY <2>0, <3>1 DEF Custody
    <3>3. \A k \in store' : Counted(k)'
      BY <3>2 DEF Counted
    <3> QED BY <3>1, <3>3 DEF Custody, CleanupExplained
  <2>4. CASE PopulatePanics
    BY <2>4 DEF PopulatePanics, Custody, CleanupExplained
  <2>5. CASE StartRun \/ RunReturns
    BY <2>5, CustodyKept DEF StartRun, RunReturns, lateVars
  <2>6. CASE ContextDone \/ UNCHANGED vars
    BY <2>6, CustodyKept DEF ContextDone, vars, callerVars, lateVars
  <2>7. CASE StartCleanup
    <3>1. /\ main = "idle" /\ main' = "cleanup" /\ next' = 0
          /\ UNCHANGED <<store, failed, limbo, late, tracked, claims>>
      BY <2>7 DEF StartCleanup, lateVars
    <3>2. CleanupKeys' = CleanupKeys /\ \A k : Unknown(k)' = Unknown(k)
      BY <2>0, <3>1 DEF CleanupKeys, LancedbCleanup, DataloaderCleanup, MetadataCleanup,
         ManifestTotal, manifestCount, fragmentCount, Unknown
    <3>3. \A k \in store \cup limbo : Listed(k) \/ Unknown(k)
      <4>1. \A k \in Keys : Counted(k) => \E j \in 1 .. Len(CleanupKeys) : k = CleanupKeys[j]
        BY CleanupShape DEF Frame
      <4>2. \A k \in store \cup limbo : Counted(k) \/ Unknown(k)
        BY <3>1 DEF Custody
      <4> QED BY <2>0, <3>1, <4>1, <4>2 DEF Listed
    <3> HIDE DEF CleanupKeys, Unknown
    <3>4. \A k \in store' :
             \/ \E i \in next' + 1 .. Len(CleanupKeys') : k = CleanupKeys'[i]
             \/ Unknown(k)'
      BY <3>1, <3>2, <3>3 DEF Listed
    <3>5. \A k \in limbo' : Listed(k)' \/ Unknown(k)'
      BY <3>1, <3>2, <3>3 DEF Listed
    <3> QED BY <3>1, <3>4, <3>5 DEF Custody, CleanupExplained
  <2>8. CASE CleanupDelete
    <3> DEFINE k == CleanupKeys[next + 1]
    <3>1. /\ main = "cleanup" /\ CleanupKeys' = CleanupKeys /\ tracked' = tracked
          /\ \/ main' = "cleanup" /\ next' = next + 1 /\ store' = store \ {k} /\ failed' = failed
             \/ main' = "cleanupFailed"
          /\ UNCHANGED <<limbo, late>>
      BY <2>8, DeleteStep
    <3>2. CASE main' = "cleanup"
      <4>1. next' = next + 1 /\ store' = store \ {k} /\ failed' = failed
        BY <3>1, <3>2
      <4>2. ASSUME NEW j \in store'
            PROVE  \/ \E i \in next' + 1 .. Len(CleanupKeys') : j = CleanupKeys'[i]
                   \/ Unknown(j)' \/ j \in late'
        <5>1. CASE Unknown(j) \/ j \in late
          <6>1. Unknown(j) => Unknown(j)'
            BY <2>0, <3>1, <4>1 DEF Unknown
          <6> QED BY <3>1, <5>1, <6>1
        <5>2. CASE ~Unknown(j) /\ j \notin late
          <6>1. PICK i \in next + 1 .. Len(CleanupKeys) : j = CleanupKeys[i]
            BY <3>1, <4>1, <5>2 DEF Custody
          <6>2. i # next + 1 /\ Len(CleanupKeys) \in Nat
            BY <4>1, <6>1, CleanupShape DEF Frame
          <6>3. i \in next' + 1 .. Len(CleanupKeys)
            BY <2>0, <4>1, <6>2
          <6> QED BY <3>1, <6>1, <6>3
        <5> QED BY <5>1, <5>2
      <4>3. ASSUME NEW j \in limbo' PROVE Listed(j)' \/ Unknown(j)'
        <5>1. Listed(j) \/ Unknown(j)
          BY <3>1, <4>3 DEF Custody
        <5>2. Listed(j) => Listed(j)'
          BY <3>1 DEF Listed
        <5>3. Unknown(j) => Unknown(j)'
          BY <2>0, <3>1, <4>1 DEF Unknown
        <5> QED BY <5>1, <5>2, <5>3
      <4> QED BY <3>2, <4>2, <4>3 DEF Custody, CleanupExplained
    <3>3. CASE main' = "cleanupFailed"
      BY <3>3 DEF Custody, CleanupExplained
    <3> QED BY <3>1, <3>2, <3>3
  <2>9. CASE CleanupReturns
    <3>1. /\ main = "cleanup" /\ main' = "cleaned" /\ next >= Len(CleanupKeys)
          /\ UNCHANGED <<store, failed, limbo, late, tracked, claims, next>>
      BY <2>9 DEF CleanupReturns, lateVars
    <3>2. \A i \in next + 1 .. Len(CleanupKeys) : FALSE
      BY <2>0, <3>1, CleanupShape DEF Frame
    <3>3. \A k \in store : Unknown(k) \/ k \in late
      BY <3>1, <3>2 DEF Custody
    <3>4. CleanupExplained'
      BY <2>0, <3>1, <3>3 DEF Unknown, CleanupExplained
    <3>5. CleanupKeys' = CleanupKeys /\ \A k : Unknown(k)' = Unknown(k)
      BY <2>0, <3>1 DEF CleanupKeys, LancedbCleanup, DataloaderCleanup, MetadataCleanup,
         ManifestTotal, manifestCount, fragmentCount, Unknown
    <3>6. \A k \in limbo' : Listed(k)' \/ Unknown(k)'
      BY <3>1, <3>5 DEF Custody, Listed
    <3>7. next' >= Len(CleanupKeys')
      BY <3>1, <3>5
    <3> QED BY <3>1, <3>4, <3>6, <3>7 DEF Custody
  <2>10. ASSUME NEW k \in limbo, Land(k) PROVE Custody'
    <3>1. /\ store' = store \cup {k} /\ limbo' = limbo \ {k} /\ late \subseteq late'
          /\ Deleted(k) => k \in late'
          /\ UNCHANGED <<failed, tracked, claims, main, next>>
      BY <2>10 DEF Land, callerVars
    <3>2. CleanupKeys' = CleanupKeys /\ \A j : Unknown(j)' = Unknown(j)
      BY <2>0, <3>1 DEF CleanupKeys, LancedbCleanup, DataloaderCleanup, MetadataCleanup,
         ManifestTotal, manifestCount, fragmentCount, Unknown
    <3>3. \A j : Counted(j)' = Counted(j)
      <4>1. Ceiling' = Ceiling
        BY <2>0, <3>1 DEF Ceiling, manifestCount, fragmentCount
      <4> QED BY <2>0, <3>1, <4>1 DEF Counted
    <3>4. main # "populating"
      BY DEF Custody
    <3>5. CASE main \in {"idle", "running"}
      <4>1. \A j \in store' \cup limbo' : Counted(j)' \/ Unknown(j)'
        BY <3>1, <3>2, <3>3, <3>5 DEF Custody
      <4> QED BY <3>1, <3>5, <4>1 DEF Custody, CleanupExplained
    <3>6. CASE main \in {"cleanup", "cleaned"}
      <4>0. Len(CleanupKeys) \in Nat
        BY CleanupShape DEF Frame
      <4>1. \A j \in limbo' : Listed(j)' \/ Unknown(j)'
        BY <3>1, <3>2, <3>6 DEF Custody, Listed
      <4>2. \/ \E i \in next + 1 .. Len(CleanupKeys) : k = CleanupKeys[i]
            \/ Unknown(k) \/ k \in late'
        <5>1. CASE Unknown(k)
          BY <5>1
        <5>2. CASE ~Unknown(k)
          <6>1. PICK i \in 1 .. Len(CleanupKeys) : k = CleanupKeys[i]
            BY <3>6, <5>2 DEF Custody, Listed
          <6>2. i <= next => Deleted(k)
            BY <2>0, <3>6, <6>1 DEF Deleted
          <6> QED BY <2>0, <3>1, <4>0, <6>1, <6>2
        <5> QED BY <5>1, <5>2
      <4>3. CASE main = "cleanup"
        <5>1. \A j \in store' :
                 \/ \E i \in next' + 1 .. Len(CleanupKeys') : j = CleanupKeys'[i]
                 \/ Unknown(j)' \/ j \in late'
          BY <3>1, <3>2, <4>2, <4>3 DEF Custody
        <5> QED BY <3>1, <4>1, <4>3, <5>1 DEF Custody, CleanupExplained
      <4>4. CASE main = "cleaned"
        <5>1. next >= Len(CleanupKeys) /\ next' >= Len(CleanupKeys')
          BY <3>1, <3>2, <4>4 DEF Custody
        <5>2. Unknown(k) \/ k \in late'
          BY <2>0, <4>0, <4>2, <5>1
        <5>3. \A j \in store' : Unknown(j) \/ j \in late'
          BY <3>1, <4>4, <5>2 DEF Custody, CleanupExplained, Unknown
        <5>4. CleanupExplained'
          BY <2>0, <3>1, <5>3 DEF CleanupExplained, Unknown
        <5> QED BY <3>1, <4>1, <4>4, <5>1, <5>4 DEF Custody
      <4> QED BY <3>6, <4>3, <4>4
    <3>7. CASE main \notin {"populating", "idle", "running", "cleanup", "cleaned"}
      BY <3>1, <3>7 DEF Custody, CleanupExplained
    <3> QED BY <3>4, <3>5, <3>6, <3>7
  <2> QED
    BY <2>1, <2>2, <2>3, <2>4, <2>5, <2>6, <2>7, <2>8, <2>9, <2>10 DEF Next, Terminated
<1> QED BY <1>1, <1>2, FrameHolds, FreshHolds, PTL DEF Spec

\* A Cleanup that succeeds leaves only keys whose PUT was given up and took
\* effect after their delete, the base key at which Prepopulate failed and, of
\* training_data, what such a Prepopulate had put (Cleanup of the three
\* workloads).
THEOREM CleanupLeaves == Spec => []CleanupExplained
BY CustodyHolds, PTL DEF Custody

(***************************************************************************)
(* Sequential access.                                                      *)
(***************************************************************************)

\* The numbers claimed go round the keys: after q rounds the keys before
\* claims % Objects have been picked once more than the others.
Dealt ==
    kind = "training_data" => \E q \in Nat : \A i \in 0 .. Objects - 1 :
        /\ i < claims % Objects => visits[i] = q + 1
        /\ i >= claims % Objects => visits[i] = q

\* Quotient and remainder are determined by what they divide.
LEMMA OneQuotient ==
    ASSUME NEW n \in Nat \ {0}, NEW p \in Int, NEW q \in Int,
           NEW r \in 0 .. n - 1, NEW s \in 0 .. n - 1, (n * p) + r = (n * q) + s
    PROVE  p = q /\ r = s
<1>1. p = q
  OBVIOUS
<1> QED BY <1>1

\* Counting on goes round.
LEMMA RoundRobin ==
    ASSUME NEW n \in Nat \ {0}, NEW c \in Nat
    PROVE  /\ (c % n) \in 0 .. n - 1
           /\ (c % n) < n - 1 => (c + 1) % n = (c % n) + 1
           /\ (c % n) = n - 1 => (c + 1) % n = 0
<1>1. PICK p \in Int, r \in 0 .. n - 1 : c = (n * p) + r /\ r = c % n
  <2>1. (c % n) \in 0 .. n - 1 /\ c = (n * (c \div n)) + (c % n) /\ c \div n \in Int
    OBVIOUS
  <2> QED BY <2>1
<1>2. PICK q \in Int, s \in 0 .. n - 1 : c + 1 = (n * q) + s /\ s = (c + 1) % n
  <2>1. PICK d \in Nat : d = c + 1
    OBVIOUS
  <2>2. (d % n) \in 0 .. n - 1 /\ d = (n * (d \div n)) + (d % n) /\ d \div n \in Int
    OBVIOUS
  <2> QED BY <2>1, <2>2
<1>3. ASSUME r < n - 1 PROVE s = r + 1
  <2>1. (n * p) + (r + 1) = (n * q) + s /\ r + 1 \in 0 .. n - 1
    BY <1>1, <1>2, <1>3
  <2> QED BY <2>1, OneQuotient
<1>4. ASSUME r = n - 1 PROVE s = 0
  <2>1. (n * (p + 1)) + 0 = (n * q) + s /\ p + 1 \in Int /\ 0 \in 0 .. n - 1
    BY <1>1, <1>2, <1>4
  <2> QED BY <2>1, OneQuotient
<1> QED BY <1>1, <1>2, <1>3, <1>4

\* The claims go round the objects.
THEOREM DealtHolds == Spec => []Dealt
<1>0. Objects \in Nat \ {0}
  BY DatasetsAssumption DEF DataloaderAccepts
<1>1. Init => Dealt
  BY <1>0 DEF Init, Dealt
<1>2. Frame /\ Dealt /\ [Next]_vars => Dealt'
  <2> SUFFICES ASSUME Frame, Dealt, [Next]_vars, kind = "training_data"
               PROVE  \E q \in Nat : \A i \in 0 .. Objects - 1 :
                         /\ i < claims' % Objects => visits'[i] = q + 1
                         /\ i >= claims' % Objects => visits'[i] = q
    BY StaysFixed DEF Dealt, fixed
  <2>0. claims \in Nat /\ visits \in [0 .. Objects - 1 -> Nat]
    BY DEF Frame, TypeOK, Shapes
  <2>1. CASE UNCHANGED <<claims, visits>>
    BY <2>1 DEF Dealt
  <2>2. ASSUME NEW t \in Threads, ReadNext(t)
        PROVE  \E q \in Nat : \A i \in 0 .. Objects - 1 :
                  /\ i < claims' % Objects => visits'[i] = q + 1
                  /\ i >= claims' % Objects => visits'[i] = q
    <3>1. tracked = Objects
      <4>1. ThreadStep(t)
        BY <2>2 DEF ThreadStep
      <4>2. main = "running"
        BY <4>1, ThreadFrame
      <4> QED BY <4>2 DEF Frame, Phases
    <3> DEFINE j == claims % Objects
    <3>2. claims' = claims + 1 /\ visits' = [visits EXCEPT ![j] = visits[j] + 1]
      BY <2>2, <3>1 DEF ReadNext, Add
    <3>3. /\ j \in 0 .. Objects - 1
          /\ j < Objects - 1 => claims' % Objects = j + 1
          /\ j = Objects - 1 => claims' % Objects = 0
      BY <1>0, <2>0, <3>2, RoundRobin
    <3>4. PICK q \in Nat : \A i \in 0 .. Objects - 1 :
             /\ i < j => visits[i] = q + 1
             /\ i >= j => visits[i] = q
      BY DEF Dealt
    <3> HIDE DEF j
    <3>5. \A i \in 0 .. Objects - 1 :
             /\ i <= j => visits'[i] = q + 1
             /\ i > j => visits'[i] = q
      <4> SUFFICES ASSUME NEW i \in 0 .. Objects - 1
                   PROVE  /\ i <= j => visits'[i] = q + 1
                          /\ i > j => visits'[i] = q
        OBVIOUS
      <4>1. visits'[i] = IF i = j THEN visits[j] + 1 ELSE visits[i]
        BY <2>0, <3>2
      <4> QED BY <1>0, <3>3, <3>4, <4>1
    <3>6. PICK m : m = claims' % Objects
      OBVIOUS
    <3>7. CASE j < Objects - 1
      <4>1. m = j + 1
        BY <3>3, <3>6, <3>7
      <4>2. \A i \in 0 .. Objects - 1 :
               /\ i < m => visits'[i] = q + 1
               /\ i >= m => visits'[i] = q
        BY <1>0, <3>3, <3>5, <4>1
      <4> QED BY <3>6, <4>2
    <3>8. CASE j = Objects - 1
      <4>1. m = 0
        BY <3>3, <3>6, <3>8
      <4>2. \A i \in 0 .. Objects - 1 :
               /\ i < m => visits'[i] = q + 2
               /\ i >= m => visits'[i] = q + 1
        BY <1>0, <3>3, <3>5, <3>8, <4>1
      <4>3. q + 1 \in Nat /\ (q + 1) + 1 = q + 2
        OBVIOUS
      <4> QED BY <3>6, <4>2, <4>3
    <3> QED BY <1>0, <3>3, <3>7, <3>8
  <2>3. CASE ~UNCHANGED <<claims, visits>> /\ ~\E t \in Threads : ReadNext(t)
    BY <2>3 DEF Next, ThreadStep, Leave, ReadFragment, HeadReturns, ListManifest,
       WriteManifest, ReadAny, ReadBaseKey, ListPrefix, Copy, ReadReturns, PutReturns,
       ListReturns, ListEnds, Claim, PopulatePut, PopulateReturns, PopulatePanics, StartRun,
       ContextDone, RunReturns, StartCleanup, CleanupDelete, CleanupReturns, Land,
       Terminated, vars
  <2> QED BY <2>1, <2>2, <2>3
<1> QED BY <1>1, <1>2, FrameHolds, PTL DEF Spec

\* Of the other workloads nothing is visited.
Unvisited == kind # "training_data" => \A i \in DOMAIN visits : visits[i] = 0

\* Sequential access visits all keys equally often, whichever threads claim the
\* positions, across warmup and measurement (dataloader.go).
THEOREM Balanced == Spec => []SequentialBalanced
<1>0. Objects \in Nat \ {0}
  BY DatasetsAssumption DEF DataloaderAccepts
<1>1. Init => Unvisited
  BY DEF Init, Unvisited
<1>2. Unvisited /\ [Next]_vars => Unvisited'
  <2> SUFFICES ASSUME Unvisited, [Next]_vars, kind # "training_data" PROVE UNCHANGED visits
    BY StaysFixed DEF Unvisited, fixed
  <2> QED
    BY DEF Next, ThreadStep, Leave, ReadFragment, HeadReturns, ListManifest,
       WriteManifest, ReadAny, ReadNext, ReadBaseKey, ListPrefix, Copy, ReadReturns,
       PutReturns, ListReturns, ListEnds, Claim, PopulatePut, PopulateReturns,
       PopulatePanics, StartRun, ContextDone, RunReturns, StartCleanup, CleanupDelete,
       CleanupReturns, Land,
       Terminated, vars
<1>3. Frame /\ Dealt /\ Unvisited => SequentialBalanced
  <2> SUFFICES ASSUME Frame, Dealt, Unvisited,
                      NEW i \in 0 .. Objects - 1, NEW j \in 0 .. Objects - 1
               PROVE  visits[i] <= visits[j] + 1
    BY DEF SequentialBalanced, Frame, Shapes
  <2>0. visits \in [0 .. Objects - 1 -> Nat] /\ claims \in Nat
    BY DEF Frame, TypeOK, Shapes
  <2>1. CASE kind # "training_data"
    BY <2>0, <2>1 DEF Unvisited
  <2>2. CASE kind = "training_data"
    <3>1. claims % Objects \in 0 .. Objects - 1
      BY <1>0, <2>0, RoundRobin
    <3>2. PICK m \in 0 .. Objects - 1 : m = claims % Objects
      BY <3>1
    <3>3. PICK q \in Nat : \A l \in 0 .. Objects - 1 :
             (l < m => visits[l] = q + 1) /\ (l >= m => visits[l] = q)
      BY <2>2, <3>2 DEF Dealt
    <3>4. visits[i] \in {q, q + 1} /\ visits[j] \in {q, q + 1}
      BY <1>0, <3>3
    <3> QED BY <3>4
  <2> QED BY <2>1, <2>2
<1> QED BY <1>1, <1>2, <1>3, FrameHolds, DealtHolds, PTL DEF Spec

(***************************************************************************)
(* Listings.                                                               *)
(***************************************************************************)

\* The entries up to a listing's token, and those after it.
Behind(delim, token) == {e \in Entries(delim) : ~Before(token, e)}
Ahead(delim, token) == {e \in Entries(delim) : Before(token, e)}

\* The cardinality of a part.
LEMMA PartCardinality ==
    ASSUME NEW S, IsFiniteSet(S), NEW T \in SUBSET S
    PROVE  /\ IsFiniteSet(T) /\ Cardinality(T) \in Nat /\ Cardinality(S) \in Nat
           /\ Cardinality(T) <= Cardinality(S)
BY FS_Subset, FS_CardinalityType

\* The cardinalities of two parts with nothing in common.
LEMMA SplitCardinality ==
    ASSUME NEW S, IsFiniteSet(S), NEW A \in SUBSET S, NEW B \in SUBSET S, A \cap B = {}
    PROVE  /\ Cardinality(A) \in Nat /\ Cardinality(B) \in Nat /\ Cardinality(S) \in Nat
           /\ Cardinality(A) + Cardinality(B) <= Cardinality(S)
           /\ A \cup B = S => Cardinality(A) + Cardinality(B) = Cardinality(S)
<1>1. IsFiniteSet(A) /\ IsFiniteSet(B) /\ A \cup B \in SUBSET S
  BY FS_Subset
<1>2. /\ IsFiniteSet(A \cup B)
      /\ Cardinality(A \cup B) = Cardinality(A) + Cardinality(B) - Cardinality(A \cap B)
  BY <1>1, FS_Union
<1>3. Cardinality(A \cap B) = 0
  BY FS_EmptySet
<1>4. /\ Cardinality(A) \in Nat /\ Cardinality(B) \in Nat /\ Cardinality(S) \in Nat
      /\ Cardinality(A \cup B) \in Nat /\ Cardinality(A \cup B) <= Cardinality(S)
  BY <1>1, <1>2, FS_CardinalityType, PartCardinality
<1>5. Cardinality(A \cup B) = Cardinality(A) + Cardinality(B)
  BY <1>2, <1>3, <1>4
<1>6. A \cup B = S => Cardinality(A \cup B) = Cardinality(S)
  OBVIOUS
<1> HIDE DEF Cardinality
<1> QED BY <1>4, <1>5, <1>6

\* What a listing in progress has counted lies behind its token, and what was
\* there when it began is counted or still ahead.
Bracketed(l) ==
    /\ l.counted <= Cardinality(Behind(l.delim, l.token))
    /\ l.floor <= l.counted + Cardinality(Ahead(l.delim, l.token))

Complete(l) == l.counted <= Cardinality(Entries(l.delim)) /\ l.floor <= l.counted

Paging ==
    \A t \in Threads :
        /\ pc[t] \notin {"list", "listed"} => listing[t] = NoListing
        /\ kind # "metadata" => listing[t] = NoListing
        /\ pc[t] = "list" => Bracketed(listing[t])
        /\ pc[t] = "listed" => Complete(listing[t])

\* The parts of a listing are finite.
LEMMA PartsFinite ==
    ASSUME IsFiniteSet(store), NEW delim \in BOOLEAN, NEW token
    PROVE  /\ Cardinality(Behind(delim, token)) \in Nat
           /\ Cardinality(Ahead(delim, token)) \in Nat
           /\ Cardinality(Entries(delim)) \in Nat
           /\ Cardinality(Behind(delim, token)) <= Cardinality(Entries(delim))
<1>1. Behind(delim, token) \in SUBSET Entries(delim) /\ Ahead(delim, token) \in SUBSET Entries(delim)
  BY DEF Behind, Ahead
<1> QED BY <1>1, EntriesFinite, PartCardinality

\* More objects never spoil a listing.
LEMMA GrowthKeeps ==
    ASSUME NEW l \in Listings, IsFiniteSet(store), IsFiniteSet(store'), store \subseteq store'
    PROVE  /\ Bracketed(l) => Bracketed(l)'
           /\ Complete(l) => Complete(l)'
<1>0. l.delim \in BOOLEAN /\ l.counted \in Nat /\ l.floor \in Nat
  BY DEF Listings
<1> DEFINE E == Entries(l.delim)
           B == Behind(l.delim, l.token)
           A == Ahead(l.delim, l.token)
<1>1. E \subseteq E' /\ B \subseteq B' /\ A \subseteq A' /\ B' \subseteq E' /\ A' \subseteq E'
  BY DEF Entries, Behind, Ahead
<1>2. IsFiniteSet(E) /\ IsFiniteSet(E')
  <2>1. IsFiniteSet(E)
    BY <1>0, EntriesFinite
  <2>2. IsFiniteSet({<<k[1], 0>> : k \in store'})
    <3> DEFINE T == {<<k[1], 0>> : k \in store'}
               f == [k \in store' |-> <<k[1], 0>>]
    <3>1. f \in Surjection(store', T)
      BY DEF Surjection
    <3> QED BY <3>1, FS_Surjection
  <2> QED BY <2>1, <2>2 DEF Entries
<1> HIDE DEF E, B, A
<1>3. IsFiniteSet(B') /\ IsFiniteSet(A')
  BY <1>1, <1>2, FS_Subset
<1>4. /\ Cardinality(E) \in Nat /\ Cardinality(E') \in Nat /\ Cardinality(E) <= Cardinality(E')
      /\ Cardinality(B) \in Nat /\ Cardinality(B') \in Nat /\ Cardinality(B) <= Cardinality(B')
      /\ Cardinality(A) \in Nat /\ Cardinality(A') \in Nat /\ Cardinality(A) <= Cardinality(A')
  BY <1>1, <1>2, <1>3, PartCardinality
<1>5. /\ Bracketed(l) = (l.counted <= Cardinality(B) /\ l.floor <= l.counted + Cardinality(A))
      /\ Bracketed(l)' = (l.counted <= Cardinality(B') /\ l.floor <= l.counted + Cardinality(A'))
      /\ Complete(l) = (l.counted <= Cardinality(E) /\ l.floor <= l.counted)
      /\ Complete(l)' = (l.counted <= Cardinality(E') /\ l.floor <= l.counted)
  BY DEF Bracketed, Complete, E, B, A
<1>6. PICK e, e1, b, b1, a, a1 \in Nat :
         /\ e = Cardinality(E) /\ e1 = Cardinality(E')
         /\ b = Cardinality(B) /\ b1 = Cardinality(B')
         /\ a = Cardinality(A) /\ a1 = Cardinality(A')
  BY <1>4
<1>7. e <= e1 /\ b <= b1 /\ a <= a1
  BY <1>4, <1>6
<1> QED BY <1>0, <1>5, <1>6, <1>7

\* Before its first page everything is ahead of a listing.
LEMMA OpenedBracketed ==
    ASSUME Frame, \A k \in store : k[1] # 0, NEW d \in BOOLEAN
    PROVE  Opened(d) \in Listings /\ Bracketed(Opened(d))
<1>0. IsFiniteSet(store) /\ store \subseteq Keys
  BY DEF Frame, Shapes, TypeOK, Keys
<1>1. Entries(d) = Ahead(d, NoKey)
  <2> SUFFICES ASSUME NEW e \in Entries(d) PROVE Before(NoKey, e)
    BY DEF Ahead
  <2>1. PICK k \in store : e = <<k[1], 0>> \/ e = k
    BY DEF Entries
  <2>2. e[1] = k[1] /\ k[1] \in Nat
    BY <1>0, <2>1 DEF Keys
  <2> QED BY <2>2 DEF Before, NoKey
<1>2. /\ Cardinality(Entries(d)) \in Nat /\ Cardinality(Behind(d, NoKey)) \in Nat
  BY <1>0, PartsFinite
<1>3. /\ Opened(d).delim = d /\ Opened(d).token = NoKey /\ Opened(d).counted = 0
      /\ Opened(d).floor = Cardinality(Entries(d)) /\ Opened(d) \in Listings
  BY <1>2 DEF Opened, Listings, NoKey, Keys
<1> QED BY <1>1, <1>2, <1>3 DEF Bracketed

\* A page moves what it holds from ahead of the listing to behind it, and the
\* last page leaves nothing ahead.
LEMMA PagedBracketed ==
    ASSUME Frame, NEW l \in Listings, Bracketed(l)
    PROVE  LET page == FirstPage(Ahead(l.delim, l.token))
           IN /\ page # Ahead(l.delim, l.token) => Bracketed(Paged(l, page, TokenOf(page)))
              /\ page = Ahead(l.delim, l.token) => Complete(Paged(l, page, l.token))
<1> DEFINE E == Entries(l.delim)
           B == Behind(l.delim, l.token)
           rest == Ahead(l.delim, l.token)
           page == FirstPage(rest)
<1>0. /\ l.delim \in BOOLEAN /\ l.counted \in Nat /\ l.floor \in Nat /\ l.token \in Keys
      /\ IsFiniteSet(E) /\ E \in SUBSET Keys
  BY EntriesFinite, EntriesAreKeys DEF Listings, Frame, Shapes, TypeOK, Keys
<1>1. /\ B \in SUBSET E /\ rest \in SUBSET E /\ page \in SUBSET rest /\ B \cap rest = {}
      /\ B \cup rest = E
  BY DEF Behind, Ahead, FirstPage
<1>2. l.counted <= Cardinality(B) /\ l.floor <= l.counted + Cardinality(rest)
  BY DEF Bracketed
<1>3. \A token : /\ Paged(l, page, token).delim = l.delim
                 /\ Paged(l, page, token).token = token
                 /\ Paged(l, page, token).counted = l.counted + Cardinality(page)
                 /\ Paged(l, page, token).floor = l.floor
  BY DEF Paged
<1>4. ASSUME page # rest PROVE Bracketed(Paged(l, page, TokenOf(page)))
  <2> DEFINE last == LastOf(page)
             B1 == Behind(l.delim, last)
             A1 == Ahead(l.delim, last)
  <2>1. IsFiniteSet(rest) /\ rest \in SUBSET Keys
    BY <1>0, <1>1, FS_Subset
  <2>2. last \in page /\ \A e \in rest : Before(last, e) <=> e \notin page
    <3> HIDE DEF rest
    <3> QED BY <1>4, <2>1, PageSplit
  <2>3. Before(l.token, last) /\ last \in Keys
    <3>1. last \in rest
      BY <1>1, <2>2
    <3> HIDE DEF last
    <3> QED BY <2>1, <3>1 DEF Ahead
  <2> HIDE DEF page, last
  <2>4. B \cup page \subseteq B1
    <3>1. ASSUME NEW e \in page PROVE e \in B1
      BY <1>1, <2>2, <3>1 DEF Behind
    <3>2. ASSUME NEW e \in B PROVE e \in B1
      <4>1. e \in E /\ e \in Keys /\ ~Before(l.token, e)
        BY <1>0, <1>1 DEF Behind
      <4>2. ~Before(last, e)
        BY <1>0, <2>3, <4>1, BeforeOrder
      <4> QED BY <4>1, <4>2 DEF Behind
    <3> QED BY <3>1, <3>2
  <2>5. rest \ page \subseteq A1
    BY <2>2 DEF Ahead
  <2>6. B1 \in SUBSET E /\ A1 \in SUBSET E
    BY DEF Behind, Ahead
  <2> HIDE DEF E, B, rest, B1, A1
  <2>7. /\ Cardinality(B) + Cardinality(page) <= Cardinality(B1)
        /\ Cardinality(B) \in Nat /\ Cardinality(page) \in Nat /\ Cardinality(B1) \in Nat
    <3>1. IsFiniteSet(B1) /\ B \in SUBSET B1 /\ page \in SUBSET B1 /\ B \cap page = {}
      BY <1>0, <1>1, <2>4, <2>6, FS_Subset
    <3> QED BY <3>1, SplitCardinality
  <2>8. /\ Cardinality(page) + Cardinality(rest \ page) = Cardinality(rest)
        /\ Cardinality(rest \ page) \in Nat /\ Cardinality(rest) \in Nat
    <3>1. /\ page \in SUBSET rest /\ rest \ page \in SUBSET rest
          /\ page \cap (rest \ page) = {} /\ page \cup (rest \ page) = rest
      BY <1>1
    <3> QED BY <2>1, <3>1, SplitCardinality
  <2>9. Cardinality(rest \ page) <= Cardinality(A1) /\ Cardinality(A1) \in Nat
    <3>1. IsFiniteSet(A1) /\ rest \ page \in SUBSET A1
      BY <1>0, <2>5, <2>6, FS_Subset
    <3> QED BY <3>1, PartCardinality
  <2>10. /\ l.counted + Cardinality(page) <= Cardinality(B1)
         /\ l.floor <= (l.counted + Cardinality(page)) + Cardinality(A1)
    BY <1>0, <1>2, <2>7, <2>8, <2>9
  <2> QED BY <1>3, <2>10 DEF Bracketed, TokenOf, B1, A1, last
<1>5. ASSUME page = rest PROVE Complete(Paged(l, page, l.token))
  <2> HIDE DEF E, B, rest, page
  <2>1. /\ Cardinality(B) + Cardinality(rest) = Cardinality(E)
        /\ Cardinality(B) \in Nat /\ Cardinality(rest) \in Nat /\ Cardinality(E) \in Nat
    BY <1>0, <1>1, SplitCardinality
  <2>2. /\ l.counted + Cardinality(page) <= Cardinality(E)
        /\ l.floor <= l.counted + Cardinality(page)
    BY <1>0, <1>2, <1>5, <2>1
  <2> QED BY <1>3, <2>2 DEF Complete, E
<1> QED BY <1>4, <1>5

\* metadata's keys come after the token a listing begins with.
LEMMA KeysAfterNone ==
    ASSUME Frame, Custody, main = "running", kind = "metadata"
    PROVE  \A k \in store : k[1] # 0
<1> SUFFICES ASSUME NEW k \in store PROVE k[1] # 0
  OBVIOUS
<1>0. /\ Len(BaseKeys) \in Nat /\ tracked \in 0 .. Len(BaseKeys)
      /\ \A i \in 1 .. Len(BaseKeys) : BaseKeys[i][1] # 0
  BY BaseShape DEF Frame, TypeOK
<1>1. CASE Unknown(k)
  <2>1. k = BaseKeys[tracked + 1] /\ tracked + 1 \in 1 .. Len(BaseKeys)
    BY <1>0, <1>1 DEF Unknown
  <2> QED BY <1>0, <2>1
<1>2. CASE Counted(k)
  BY <1>0, <1>2 DEF Counted, New
<1> QED BY <1>1, <1>2 DEF Custody

\* What a step of a thread does to its listing.
LEMMA ThreadListing ==
    ASSUME Frame, Paging, NEW t \in Threads, ThreadStep(t)
    PROVE  \/ listing'[t] = NoListing /\ pc'[t] # "listed"
           \/ ListPrefix(t) \/ ListReturns(t)
<1>0. /\ pc \in [Threads -> Places] /\ listing \in [Threads -> Listings]
      /\ \A l, k : Send(t, l, k) => listing'[t] = NoListing /\ pc'[t] = l
  BY DEF Frame, TypeOK, Shapes, Places, Send, Goto, Forget
<1>1. CASE Leave(t) \/ ListEnds(t)
  BY <1>0, <1>1 DEF Leave, ListEnds, Goto, Forget, AfterListError
<1>2. CASE ReadFragment(t) \/ ReadBaseKey(t) \/ ReadAny(t) \/ ReadNext(t)
           \/ ListManifest(t) \/ WriteManifest(t) \/ Copy(t)
  BY <1>0, <1>2 DEF ReadFragment, ReadBaseKey, ReadAny, ReadNext, ListManifest,
     WriteManifest, Copy, Claim
<1>3. CASE HeadReturns(t) \/ ReadReturns(t) \/ PutReturns(t)
  BY <1>0, <1>3 DEF HeadReturns, ReadReturns, PutReturns, Goto, Paging
<1> QED BY <1>1, <1>2, <1>3 DEF ThreadStep

\* The invariant on listings.
THEOREM PagingHolds == Spec => []Paging
<1>1. Init => Paging
  BY DEF Init, Paging
<1>2. Frame /\ Frame' /\ Custody /\ Paging /\ [Next]_vars => Paging'
  <2> SUFFICES ASSUME Frame, Frame', Custody, Paging, [Next]_vars PROVE Paging'
    OBVIOUS
  <2>0. /\ kind' = kind /\ IsFiniteSet(store) /\ IsFiniteSet(store')
        /\ pc \in [Threads -> Places] /\ listing \in [Threads -> Listings]
        /\ main # "running" => \A t \in Threads : pc[t] = "off"
    BY StaysFixed DEF Frame, Shapes, TypeOK, Phases, Places, fixed
  <2>n. NoListing \in Listings /\ NoListing.counted = 0 /\ NoListing.floor = 0
    BY DEF NoListing, Listings, NoKey, Keys
  <2>g. ASSUME NEW u \in Threads, store \subseteq store', pc'[u] = pc[u],
               listing'[u] = listing[u]
        PROVE  /\ pc'[u] \notin {"list", "listed"} => listing'[u] = NoListing
               /\ kind' # "metadata" => listing'[u] = NoListing
               /\ pc'[u] = "list" => Bracketed(listing[u])'
               /\ pc'[u] = "listed" => Complete(listing[u])'
    <3>1. PICK l \in Listings : l = listing[u]
      BY <2>0
    <3>2. (Bracketed(l) => Bracketed(l)') /\ (Complete(l) => Complete(l)')
      BY <2>0, <2>g, GrowthKeeps
    <3>3. l = listing'[u] /\ pc'[u] = pc[u]
      BY <2>g, <3>1
    <3>4. /\ Bracketed(listing[u]) => Bracketed(listing[u])'
          /\ Complete(listing[u]) => Complete(listing[u])'
      <4>1. Bracketed(listing[u]) = Bracketed(l) /\ Complete(listing[u]) = Complete(l)
        BY <3>1
      <4>2. Bracketed(listing[u])' = Bracketed(l)' /\ Complete(listing[u])' = Complete(l)'
        BY <3>3 DEF Bracketed, Complete, Behind, Ahead, Entries
      <4> QED BY <3>2, <4>1, <4>2
    <3> QED BY <2>0, <3>1, <3>3, <3>4 DEF Paging
  <2>1. ASSUME NEW t \in Threads, ThreadStep(t) PROVE Paging'
    <3>1. /\ main = "running" /\ store \subseteq store'
          /\ pc[t] # "put" => store' = store
      BY <2>1, ThreadFrame
    <3>2. ASSUME NEW u \in Threads, u # t
          PROVE  pc'[u] = pc[u] /\ listing'[u] = listing[u]
      <4>1. PICK l, k : pc' = [pc EXCEPT ![t] = l] /\ key' = [key EXCEPT ![t] = k]
        BY <2>1, ThreadFrame
      <4>2. PICK l2 : listing' = [listing EXCEPT ![t] = l2]
        BY <2>1, ThreadFrame
      <4> QED BY <2>0, <3>2, <4>1, <4>2
    <3>3. ASSUME NEW u \in Threads, u # t
          PROVE  /\ pc'[u] \notin {"list", "listed"} => listing'[u] = NoListing
                 /\ kind' # "metadata" => listing'[u] = NoListing
                 /\ pc'[u] = "list" => Bracketed(listing[u])'
                 /\ pc'[u] = "listed" => Complete(listing[u])'
      BY <2>g, <3>1, <3>2, <3>3
    <3>4. /\ pc'[t] \notin {"list", "listed"} => listing'[t] = NoListing
          /\ kind' # "metadata" => listing'[t] = NoListing
          /\ pc'[t] = "list" => Bracketed(listing[t])'
          /\ pc'[t] = "listed" => Complete(listing[t])'
      <4>1. CASE listing'[t] = NoListing /\ pc'[t] # "listed"
        <5>1. Bracketed(NoListing)
          <6>1. NoListing.delim \in BOOLEAN
            BY <2>n DEF Listings
          <6>2. /\ Cardinality(Behind(NoListing.delim, NoListing.token)) \in Nat
                /\ Cardinality(Ahead(NoListing.delim, NoListing.token)) \in Nat
            BY <2>0, <6>1, PartsFinite
          <6> QED BY <2>n, <6>2 DEF Bracketed
        <5>2. Bracketed(NoListing)'
          BY <2>0, <2>n, <3>1, <5>1, GrowthKeeps
        <5>3. pc'[t] = "list" => Bracketed(listing[t])'
          BY <4>1, <5>2 DEF Bracketed, Behind, Ahead, Entries
        <5> QED BY <4>1, <5>3
      <4>2. CASE ListPrefix(t)
        <5>1. PICK d \in BOOLEAN : listing'[t] = Opened(d)
          BY <2>0, <4>2 DEF ListPrefix
        <5>2. /\ pc'[t] = "list" /\ kind = "metadata" /\ store' = store
          BY <2>0, <4>2 DEF ListPrefix, Goto
        <5>3. Bracketed(Opened(d))
          BY <3>1, <5>2, KeysAfterNone, OpenedBracketed
        <5> QED BY <2>0, <5>1, <5>2, <5>3 DEF Bracketed, Behind, Ahead, Entries
      <4>3. CASE ListReturns(t)
        <5> DEFINE l == listing[t]
                   page == FirstPage(Ahead(l.delim, l.token))
        <5>1. /\ pc[t] = "list" /\ kind = "metadata" /\ store' = store /\ l \in Listings
          BY <2>0, <4>3 DEF ListReturns
        <5>2. Bracketed(l)
          BY <5>1 DEF Paging
        <5>3. \/ /\ page # Ahead(l.delim, l.token) /\ pc'[t] = "list"
                 /\ listing'[t] = Paged(l, page, TokenOf(page))
              \/ /\ page = Ahead(l.delim, l.token) /\ pc'[t] = "listed"
                 /\ listing'[t] = Paged(l, page, l.token)
          BY <2>0, <4>3 DEF ListReturns, Goto, Ahead
        <5> HIDE DEF l, page
        <5>4. CASE pc'[t] = "list"
          <6>1. Bracketed(Paged(l, page, TokenOf(page))) /\ listing'[t] = Paged(l, page, TokenOf(page))
            BY <5>1, <5>2, <5>3, <5>4, PagedBracketed DEF page
          <6>2. PICK l2 : l2 = Paged(l, page, TokenOf(page))
            OBVIOUS
          <6>3. Bracketed(l2) /\ listing'[t] = l2
            BY <6>1, <6>2
          <6>4. Bracketed(listing[t])'
            BY <5>1, <6>3 DEF Bracketed, Behind, Ahead, Entries
          <6> QED BY <2>0, <5>1, <5>4, <6>4
        <5>5. CASE pc'[t] = "listed"
          <6>1. Complete(Paged(l, page, l.token)) /\ listing'[t] = Paged(l, page, l.token)
            BY <5>1, <5>2, <5>3, <5>5, PagedBracketed DEF page
          <6>2. PICK l2 : l2 = Paged(l, page, l.token)
            OBVIOUS
          <6>3. Complete(l2) /\ listing'[t] = l2
            BY <6>1, <6>2
          <6>4. Complete(listing[t])'
            BY <5>1, <6>3 DEF Complete, Entries
          <6> QED BY <2>0, <5>1, <5>5, <6>4
        <5> QED BY <5>3, <5>4, <5>5
      <4>4. kind' # "metadata" => listing'[t] = NoListing
        BY <2>0, <2>1, ThreadListing DEF ListPrefix, ListReturns
      <4> QED BY <2>1, <4>1, <4>2, <4>3, <4>4, ThreadListing
    <3>5. ASSUME NEW u \in Threads
          PROVE  /\ pc'[u] \notin {"list", "listed"} => listing'[u] = NoListing
                 /\ kind' # "metadata" => listing'[u] = NoListing
                 /\ pc'[u] = "list" => Bracketed(listing[u])'
                 /\ pc'[u] = "listed" => Complete(listing[u])'
      BY <3>3, <3>4
    <3> QED BY <3>5 DEF Paging
  <2>2. ASSUME UNCHANGED listing, \A t \in Threads : pc[t] = "off",
               \A t \in Threads : pc'[t] \in {"off", "loop"}
        PROVE  Paging'
    BY <2>2 DEF Paging
  <2>3. CASE PopulatePut
    <3>1. main # "running" /\ UNCHANGED <<pc, listing>>
      BY <2>3 DEF PopulatePut
    <3> QED BY <2>0, <2>2, <3>1
  <2>4. CASE CleanupDelete
    <3>1. main # "running" /\ UNCHANGED <<pc, listing>>
      BY <2>4 DEF CleanupDelete
    <3> QED BY <2>0, <2>2, <3>1
  <2>5. CASE StartRun
    <3>1. /\ main # "running" /\ UNCHANGED listing
          /\ \A t \in Threads : pc'[t] \in {pc[t], "loop"}
      BY <2>0, <2>5 DEF StartRun
    <3> QED BY <2>0, <2>2, <3>1
  <2>6. ASSUME UNCHANGED <<store, pc, listing>> PROVE Paging'
    <3>1. \A t \in Threads : /\ Bracketed(listing[t])' = Bracketed(listing[t])
                             /\ Complete(listing[t])' = Complete(listing[t])
      BY <2>6 DEF Bracketed, Complete, Behind, Ahead, Entries
    <3> QED BY <2>0, <2>6, <3>1 DEF Paging
  <2>7. CASE PopulateReturns \/ PopulatePanics \/ ContextDone \/ RunReturns \/ StartCleanup
             \/ CleanupReturns \/ UNCHANGED vars
    BY <2>6, <2>7 DEF PopulateReturns, PopulatePanics, ContextDone, RunReturns, StartCleanup,
       CleanupReturns, vars
  <2>8. ASSUME NEW k \in limbo, Land(k) PROVE Paging'
    <3>1. store \subseteq store' /\ UNCHANGED <<pc, listing>>
      BY <2>8 DEF Land
    <3> QED BY <2>g, <3>1 DEF Paging
  <2> QED BY <2>1, <2>3, <2>4, <2>5, <2>7, <2>8 DEF Next, Terminated
<1> QED BY <1>1, <1>2, FrameHolds, CustodyHolds, PTL DEF Spec

\* A listing that goes through its pages counts every entry once, although
\* copies are added around its position: at least what was there when it began
\* and at no time more than is there now (metadata.go 146-147).
THEOREM ListingsExact == Spec => []ListingBracketed
<1>1. Frame /\ Paging => ListingBracketed
  <2> SUFFICES ASSUME Frame, Paging, NEW t \in Threads
               PROVE  /\ listing[t].counted <= Cardinality(Entries(listing[t].delim))
                      /\ pc[t] = "listed" => listing[t].counted >= listing[t].floor
    BY DEF ListingBracketed
  <2> DEFINE l == listing[t]
  <2>1. /\ l \in Listings /\ IsFiniteSet(store) /\ pc[t] \in Places
    BY DEF Frame, Shapes, TypeOK, Places
  <2>2. /\ l.delim \in BOOLEAN /\ l.counted \in Nat /\ l.floor \in Nat
    BY <2>1 DEF Listings
  <2>3. /\ Cardinality(Behind(l.delim, l.token)) \in Nat
        /\ Cardinality(Entries(l.delim)) \in Nat
        /\ Cardinality(Behind(l.delim, l.token)) <= Cardinality(Entries(l.delim))
    BY <2>1, <2>2, PartsFinite
  <2>4. CASE pc[t] \notin {"list", "listed"}
    BY <2>2, <2>3, <2>4 DEF Paging, NoListing
  <2>5. CASE pc[t] = "list"
    BY <2>2, <2>3, <2>5 DEF Paging, Bracketed
  <2>6. CASE pc[t] = "listed"
    BY <2>2, <2>3, <2>6 DEF Paging, Complete
  <2> QED BY <2>4, <2>5, <2>6
<1> QED BY <1>1, FrameHolds, PagingHolds, PTL
=============================================================================
