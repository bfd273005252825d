---------------------------- MODULE RunnerProofs ----------------------------
(***************************************************************************)
(* Proofs about Runner.  The first half is about its constants: the order  *)
(* of Prepopulate (Flat), the sum of the weights and the share of a child. *)
(* The inductive invariant is TypeOK with three parts: Queue, what the     *)
(* loop of Prepopulate leaves out; Phased, who may run in which phase; and *)
(* Shared, where the threads of a leaf come from.                          *)
(***************************************************************************)
EXTENDS Runner, SequenceTheorems, WellFoundedInduction, FiniteSetTheorems, TLAPS

(***************************************************************************)
(* The order of Prepopulate.                                               *)
(***************************************************************************)

\* The mix has a place among the workloads.
LEMMA MixShape ==
    /\ Len(Workloads) \in Nat /\ Len(Children) \in Nat /\ Len(Children) > 0
    /\ MixPlace \in 1 .. Len(Workloads) /\ Workloads[MixPlace] = Mix
<1>1. Workloads \in Seq(Range(Workloads)) /\ Children \in Seq(Kids) /\ Children # <<>>
  BY RunnerAssumption
<1>2. \E i \in DOMAIN Workloads : Workloads[i] = Mix
  BY RunnerAssumption DEF Range
<1>3. MixPlace \in DOMAIN Workloads /\ Workloads[MixPlace] = Mix
  BY <1>2 DEF MixPlace
<1> QED BY <1>1, <1>3

\* Flat is the plan with the children in the place of the mix.
LEMMA FlatShape ==
    /\ Flat \in Seq(Leaves) /\ Len(Flat) = Len(Workloads) - 1 + Len(Children)
    /\ \A i \in 1 .. MixPlace - 1 : Flat[i] = Workloads[i]
    /\ \A i \in MixPlace .. AfterMix - 1 : Flat[i] = Children[i - MixPlace + 1]
    /\ \A i \in AfterMix .. Len(Flat) : Flat[i] = Workloads[i - Len(Children) + 1]
<1> DEFINE m == MixPlace
           N == Len(Workloads)
           C == Len(Children)
           a == SubSeq(Workloads, 1, m - 1)
           b == SubSeq(Workloads, m + 1, N)
<1>1. /\ N \in Nat /\ C \in Nat /\ C > 0 /\ m \in 1 .. N /\ Workloads[m] = Mix
      /\ Workloads \in Seq(Range(Workloads)) /\ Children \in Seq(Kids)
  BY MixShape, RunnerAssumption
<1> HIDE DEF m, N, C
<1>2. /\ Workloads \in [1 .. N -> Range(Workloads)] /\ DOMAIN Workloads = 1 .. N
      /\ Children \in [1 .. C -> Kids]
      /\ \A i, j \in 1 .. N : Workloads[i] = Workloads[j] => i = j
  BY <1>1, RunnerAssumption DEF N, C, IsInjective
<1>3. \A i \in 1 .. N : i # m => Workloads[i] \in Leaves
  <2> SUFFICES ASSUME NEW i \in 1 .. N, i # m PROVE Workloads[i] \in Leaves
    OBVIOUS
  <2>1. Workloads[i] # Mix
    BY <1>1, <1>2
  <2> QED BY <1>2, <2>1 DEF Leaves
<1>4. /\ a \in Seq(Leaves) /\ Len(a) = m - 1 /\ \A i \in 1 .. m - 1 : a[i] = Workloads[i]
  <2>1. a = [i \in 1 .. m - 1 |-> Workloads[i]]
    <3>1. (m - 1) - 1 + 1 = m - 1
      BY <1>1
    <3> QED BY <1>1, <1>2, <3>1, SMTT(30)
  <2>2. \A i \in 1 .. m - 1 : Workloads[i] \in Leaves
    BY <1>1, <1>3
  <2>3. m - 1 \in Nat
    BY <1>1
  <2> HIDE DEF a
  <2> QED BY <2>1, <2>2, <2>3
<1>5. /\ b \in Seq(Leaves) /\ Len(b) = N - m
      /\ \A i \in 1 .. N - m : b[i] = Workloads[m + i]
  <2>1. b = [i \in 1 .. N - m |-> Workloads[m + i]]
    <3>1. /\ N - (m + 1) + 1 = N - m /\ \A i \in 1 .. N - m : (m + 1) + i - 1 = m + i
      BY <1>1
    <3> QED BY <1>1, <1>2, <3>1, SMTT(30)
  <2>2. \A i \in 1 .. N - m : Workloads[m + i] \in Leaves
    BY <1>1, <1>3
  <2>3. N - m \in Nat
    BY <1>1
  <2> HIDE DEF b
  <2> QED BY <2>1, <2>2, <2>3
<1>6. Children \in Seq(Leaves) /\ Len(Children) = C
  BY <1>1, <1>2 DEF Leaves, C
<1> HIDE DEF a, b
<1> DEFINE ac == a \o Children
<1>7. /\ ac \in Seq(Leaves) /\ Len(ac) = Len(a) + Len(Children)
      /\ \A i \in 1 .. Len(a) + Len(Children) :
            ac[i] = IF i <= Len(a) THEN a[i] ELSE Children[i - Len(a)]
  BY <1>4, <1>6, ConcatProperties
<1> HIDE DEF ac
<1>8. /\ ac \o b \in Seq(Leaves) /\ Len(ac \o b) = Len(ac) + Len(b)
      /\ \A i \in 1 .. Len(ac) + Len(b) :
            (ac \o b)[i] = IF i <= Len(ac) THEN ac[i] ELSE b[i - Len(ac)]
  <2>1. ac \in Seq(Leaves) /\ b \in Seq(Leaves)
    BY <1>5, <1>7
  <2> QED BY <2>1, ConcatProperties
<1>9. Flat = ac \o b
  BY DEF Flat, ac, a, b, m, N
<1>10. Len(a) = m - 1 /\ Len(ac) = (m - 1) + C /\ Len(b) = N - m /\ Len(Flat) = (N - 1) + C
  <2>1. Len(a) = m - 1 /\ Len(ac) = (m - 1) + C /\ Len(b) = N - m
    BY <1>4, <1>5, <1>6, <1>7
  <2>2. Len(Flat) = Len(ac) + Len(b)
    BY <1>8, <1>9
  <2>3. ((m - 1) + C) + (N - m) = (N - 1) + C
    BY <1>1
  <2> QED BY <2>1, <2>2, <2>3
<1>11. ASSUME NEW i \in 1 .. m - 1 PROVE Flat[i] = Workloads[i]
  <2>1. /\ i \in 1 .. Len(ac) + Len(b) /\ i <= Len(ac)
        /\ i \in 1 .. Len(a) + Len(Children) /\ i <= Len(a)
    BY <1>1, <1>6, <1>10
  <2>2. Flat[i] = ac[i]
    BY <1>8, <1>9, <2>1
  <2>3. ac[i] = a[i]
    BY <1>7, <2>1
  <2> QED BY <1>4, <2>2, <2>3
<1>12. ASSUME NEW i \in m .. (m + C) - 1 PROVE Flat[i] = Children[i - m + 1]
  <2>1. /\ i \in 1 .. Len(ac) + Len(b) /\ i <= Len(ac)
        /\ i \in 1 .. Len(a) + Len(Children) /\ ~(i <= Len(a)) /\ i - Len(a) = i - m + 1
    BY <1>1, <1>6, <1>10
  <2>2. Flat[i] = ac[i]
    BY <1>8, <1>9, <2>1
  <2>3. ac[i] = Children[i - Len(a)]
    BY <1>7, <2>1
  <2> QED BY <2>1, <2>2, <2>3
<1>13. ASSUME NEW i \in m + C .. Len(Flat) PROVE Flat[i] = Workloads[i - C + 1]
  <2> DEFINE j == i - Len(ac)
  <2>1. /\ i \in 1 .. Len(ac) + Len(b) /\ ~(i <= Len(ac)) /\ j \in 1 .. N - m
        /\ m + j = i - C + 1
    BY <1>1, <1>10
  <2>2. Flat[i] = b[j]
    BY <1>8, <1>9, <2>1
  <2> HIDE DEF j
  <2>3. b[j] = Workloads[m + j]
    BY <1>5, <2>1
  <2> QED BY <2>1, <2>2, <2>3
<1> QED BY <1>1, <1>8, <1>9, <1>10, <1>11, <1>12, <1>13 DEF AfterMix, m, N, C

\* Every leaf has one place in Flat, and those of the children are together.
LEMMA FlatOrder ==
    /\ Flat \in Seq(Leaves) /\ Len(Flat) \in Nat
    /\ \A i \in 1 .. Len(Flat) : Flat[i] \in Leaves
    /\ \A i, j \in 1 .. Len(Flat) : Flat[i] = Flat[j] => i = j
    /\ \A l \in Leaves : \E i \in 1 .. Len(Flat) : Flat[i] = l
    /\ AfterMix \in 1 .. Len(Flat) + 1
    /\ \A i \in 1 .. Len(Flat) : Flat[i] \in Kids =>
          i < AfterMix /\ \A j \in i .. AfterMix - 1 : Flat[j] \in Kids
<1> DEFINE m == MixPlace
           N == Len(Workloads)
           C == Len(Children)
           F == Len(Flat)
<1>1. /\ N \in Nat /\ C \in Nat /\ C > 0 /\ m \in 1 .. N /\ Workloads[m] = Mix
      /\ AfterMix = m + C /\ F = N - 1 + C /\ Flat \in Seq(Leaves)
      /\ \A i \in 1 .. m - 1 : Flat[i] = Workloads[i]
      /\ \A i \in m .. (m + C) - 1 : Flat[i] = Children[i - m + 1]
      /\ \A i \in m + C .. F : Flat[i] = Workloads[i - C + 1]
  BY MixShape, FlatShape DEF AfterMix
<1>2. /\ DOMAIN Workloads = 1 .. N /\ DOMAIN Children = 1 .. C
      /\ \A i, j \in 1 .. N : Workloads[i] = Workloads[j] => i = j
      /\ \A i, j \in 1 .. C : Children[i] = Children[j] => i = j
  BY RunnerAssumption DEF IsInjective
<1>3. /\ \A i \in 1 .. N : Workloads[i] \in Range(Workloads)
      /\ \A i \in 1 .. C : Children[i] \in Kids
      /\ \A i \in 1 .. N : Workloads[i] \notin Kids
      /\ \A l \in Range(Workloads) : \E i \in 1 .. N : Workloads[i] = l
      /\ \A l \in Kids : \E i \in 1 .. C : Children[i] = l
  <2>1. Range(Workloads) = {Workloads[i] : i \in 1 .. N}
    BY <1>2 DEF Range
  <2>2. Kids = {Children[i] : i \in 1 .. C}
    BY <1>2 DEF Kids, Range
  <2>3. Kids \cap Range(Workloads) = {}
    BY RunnerAssumption
  <2> HIDE DEF N, C
  <2> QED BY <2>1, <2>2, <2>3
<1> HIDE DEF m, N, C, F
<1>4. ASSUME NEW i \in 1 .. F
      PROVE  \/ i \in 1 .. m - 1 /\ i \in 1 .. N /\ Flat[i] = Workloads[i]
             \/ i \in m .. (m + C) - 1 /\ i - m + 1 \in 1 .. C /\ Flat[i] = Children[i - m + 1]
             \/ i \in m + C .. F /\ i - C + 1 \in m + 1 .. N /\ Flat[i] = Workloads[i - C + 1]
  <2>1. i \in Int /\ m \in Int /\ N \in Int /\ C \in Int /\ F \in Int
    BY <1>1
  <2>2. CASE i \in 1 .. m - 1
    BY <1>1, <2>1, <2>2
  <2>3. CASE i \in m .. (m + C) - 1
    BY <1>1, <2>1, <2>3
  <2>4. CASE i \in m + C .. F
    BY <1>1, <2>1, <2>4
  <2>5. 1 <= i /\ i <= F
    BY <1>1
  <2> QED BY <2>1, <2>2, <2>3, <2>4, <2>5
<1>5. ASSUME NEW i \in 1 .. F, NEW j \in 1 .. F, Flat[i] = Flat[j] PROVE i = j
  <2>1. ASSUME NEW x \in 1 .. N, NEW y \in 1 .. N, Workloads[x] = Workloads[y] PROVE x = y
    BY <1>2, <2>1
  <2>2. ASSUME NEW x \in 1 .. C, NEW y \in 1 .. C, Children[x] = Children[y] PROVE x = y
    BY <1>2, <2>2
  <2>3. ASSUME NEW x \in 1 .. N, NEW y \in 1 .. C, Workloads[x] = Children[y] PROVE FALSE
    BY <1>3, <2>3
  <2>a. m \in Int /\ C \in Int /\ N \in Int /\ m \in 1 .. N /\ i \in Int /\ j \in Int
    BY <1>1
  <2>4. CASE i \in 1 .. m - 1
    <3>1. i \in 1 .. N /\ Flat[i] = Workloads[i]
      BY <1>1, <2>4
    <3>2. CASE j \in 1 .. m - 1
      <4>1. j \in 1 .. N /\ Flat[j] = Workloads[j]
        BY <1>1, <3>2
      <4> QED BY <1>5, <2>1, <3>1, <4>1
    <3>3. CASE j \in m .. (m + C) - 1
      <4>1. j - m + 1 \in 1 .. C /\ Flat[j] = Children[j - m + 1]
        BY <1>1, <2>a, <3>3
      <4> QED BY <1>5, <2>3, <3>1, <4>1
    <3>4. CASE j \in m + C .. F
      <4>1. j - C + 1 \in m + 1 .. N /\ j - C + 1 \in 1 .. N /\ Flat[j] = Workloads[j - C + 1]
        BY <1>1, <2>a, <3>4
      <4>2. i = j - C + 1
        BY <1>5, <2>1, <3>1, <4>1
      <4> QED BY <2>4, <2>a, <4>1, <4>2
    <3> QED BY <1>4, <3>2, <3>3, <3>4
  <2>5. CASE i \in m .. (m + C) - 1
    <3>1. i - m + 1 \in 1 .. C /\ Flat[i] = Children[i - m + 1]
      BY <1>1, <2>5, <2>a, SMTT(30)
    <3>2. CASE j \in 1 .. m - 1
      <4>1. j \in 1 .. N /\ Flat[j] = Workloads[j]
        BY <1>1, <3>2
      <4> QED BY <1>5, <2>3, <3>1, <4>1
    <3>3. CASE j \in m .. (m + C) - 1
      <4>1. j - m + 1 \in 1 .. C /\ Flat[j] = Children[j - m + 1]
        BY <1>1, <2>a, <3>3
      <4>2. PICK x \in 1 .. C, y \in 1 .. C : x = i - m + 1 /\ y = j - m + 1
        BY <3>1, <4>1
      <4>3. x = y
        BY <1>5, <2>2, <3>1, <4>1, <4>2
      <4> QED BY <2>a, <4>2, <4>3
    <3>4. CASE j \in m + C .. F
      <4>1. j - C + 1 \in 1 .. N /\ Flat[j] = Workloads[j - C + 1]
        BY <1>1, <2>a, <3>4
      <4> QED BY <1>5, <2>3, <3>1, <4>1
    <3> QED BY <1>4, <3>2, <3>3, <3>4
  <2>6. CASE i \in m + C .. F
    <3>1. i - C + 1 \in m + 1 .. N /\ i - C + 1 \in 1 .. N /\ Flat[i] = Workloads[i - C + 1]
      BY <1>1, <2>6, <2>a
    <3>2. CASE j \in 1 .. m - 1
      <4>1. j \in 1 .. N /\ Flat[j] = Workloads[j]
        BY <1>1, <3>2
      <4>2. i - C + 1 = j
        BY <1>5, <2>1, <3>1, <4>1
      <4> QED BY <2>a, <3>1, <3>2, <4>2
    <3>3. CASE j \in m .. (m + C) - 1
      <4>1. j - m + 1 \in 1 .. C /\ Flat[j] = Children[j - m + 1]
        BY <1>1, <2>a, <3>3
      <4> QED BY <1>5, <2>3, <3>1, <4>1
    <3>4. CASE j \in m + C .. F
      <4>1. j - C + 1 \in 1 .. N /\ Flat[j] = Workloads[j - C + 1]
        BY <1>1, <2>a, <3>4
      <4>2. i - C + 1 = j - C + 1
        BY <1>5, <2>1, <3>1, <4>1
      <4> QED BY <2>a, <4>2
    <3> QED BY <1>4, <3>2, <3>3, <3>4
  <2> QED BY <1>4, <2>4, <2>5, <2>6
<1>6. ASSUME NEW l \in Leaves PROVE \E i \in 1 .. F : Flat[i] = l
  <2>1. CASE l \in Kids
    <3>1. PICK k \in 1 .. C : Children[k] = l
      BY <1>3, <2>1
    <3> DEFINE i == m + k - 1
    <3>2. i \in m .. (m + C) - 1 /\ i \in 1 .. F /\ i - m + 1 = k
      BY <1>1
    <3> HIDE DEF i
    <3> QED BY <1>1, <3>1, <3>2
  <2>2. CASE l \in Range(Workloads) \ {Mix}
    <3>1. PICK k \in 1 .. N : Workloads[k] = l
      BY <1>3, <2>2
    <3>2. k # m
      BY <1>1, <2>2, <3>1
    <3>3. CASE k < m
      BY <1>1, <3>1, <3>3
    <3>4. CASE k > m
      <4> DEFINE i == k + C - 1
      <4>1. i \in m + C .. F /\ i \in 1 .. F /\ i - C + 1 = k
        BY <1>1, <3>4
      <4> HIDE DEF i
      <4> QED BY <1>1, <3>1, <4>1
    <3> QED BY <1>1, <3>2, <3>3, <3>4
  <2> QED BY <2>1, <2>2 DEF Leaves
<1>7. ASSUME NEW i \in 1 .. F, Flat[i] \in Kids
      PROVE  i < AfterMix /\ \A j \in i .. AfterMix - 1 : Flat[j] \in Kids
  <2>1. i \in m .. (m + C) - 1
    <3>1. ~(i \in 1 .. N /\ Flat[i] = Workloads[i])
      BY <1>3, <1>7
    <3>2. ~(i - C + 1 \in m + 1 .. N /\ Flat[i] = Workloads[i - C + 1])
      <4>1. ASSUME NEW x \in m + 1 .. N PROVE Flat[i] # Workloads[x]
        BY <1>1, <1>3, <1>7
      <4> QED BY <4>1
    <3> QED BY <1>4, <3>1, <3>2
  <2>2. ASSUME NEW j \in i .. AfterMix - 1 PROVE Flat[j] \in Kids
    <3>1. j \in m .. (m + C) - 1 /\ j - m + 1 \in 1 .. C
      BY <1>1, <2>1
    <3>2. Flat[j] = Children[j - m + 1]
      BY <1>1, <3>1
    <3> QED BY <1>3, <3>1, <3>2
  <2> QED BY <1>1, <2>1, <2>2
<1>8. F \in Nat /\ AfterMix \in 1 .. F + 1
  BY <1>1
<1> QED BY <1>1, <1>5, <1>6, <1>7, <1>8 DEF F

(***************************************************************************)
(* The shares of the children of a mix.                                    *)
(***************************************************************************)

\* A set of natural numbers has a least element.
LEMMA Least ==
    ASSUME NEW T \in SUBSET Nat, T # {}
    PROVE  \E x \in T : \A y \in T : ~(y < x)
<1>1. PICK n \in Nat : n \in T
  OBVIOUS
<1> DEFINE S == 0 .. n
           Below == {U \in SUBSET S : \E k \in T : k <= n /\ U = 0 .. k}
           R == StrictSubsetOrdering(S)
           F == FiniteSubsetsOf(S)
<1>2. IsFiniteSet(S)
  BY FS_Interval
<1>3. IsWellFoundedOn(R, F) /\ F = SUBSET S
  <2> HIDE DEF S
  <2> QED BY <1>2, FS_StrictSubsetOrderingWellFounded, FS_FiniteSubsetsOfFinite
<1>4. PICK U \in Below : \A V \in Below : ~(<<V, U>> \in R)
  <2>1. 0 .. n \in Below
    BY <1>1
  <2> HIDE DEF Below, R, F
  <2>2. Below \subseteq F /\ Below # {}
    BY <1>3, <2>1 DEF Below
  <2> QED BY <1>3, <2>2, WFMin
<1>5. PICK x \in T : x <= n /\ U = 0 .. x
  BY <1>4
<1>6. ASSUME NEW y \in T, y < x PROVE FALSE
  <2>1. y \in Nat /\ x \in Nat /\ y <= n
    BY <1>1, <1>5, <1>6
  <2>2. 0 .. y \in Below /\ 0 .. x \in SUBSET S
    BY <1>1, <1>5, <2>1
  <2>3. 0 .. y \subseteq 0 .. x /\ x \in 0 .. x /\ x \notin 0 .. y
    BY <1>6, <2>1
  <2>4. 0 .. y \in SUBSET S
    BY <2>2
  <2>5. <<0 .. y, 0 .. x>> \in R
    <3> HIDE DEF S
    <3> QED BY <2>2, <2>3, <2>4, Zenon DEF StrictSubsetOrdering
  <2> HIDE DEF Below, R
  <2> QED BY <1>4, <1>5, <2>2, <2>5
<1> QED BY <1>6

\* A weight is positive.
LEMMA WeightPositive == \A k \in Kids : Weight(k) \in Nat /\ Weight(k) >= 1
BY RunnerAssumption DEF Weight

\* The sum of the first weights, as a recursive definition promises it.
LEMMA TotalToDef ==
    TotalTo = [n \in 0 .. Len(Children) |->
                  IF n = 0 THEN 0 ELSE TotalTo[n - 1] + Weight(Children[n])]
<1> DEFINE C == Len(Children)
           W(n) == Weight(Children[n])
           Sums(m, f) == f = [n \in 0 .. m |-> IF n = 0 THEN 0 ELSE f[n - 1] + W(n)]
           Lacking == {m \in Nat : m <= C /\ ~\E f : Sums(m, f)}
<1>0. C \in Nat
  BY MixShape
<1>1. ASSUME Lacking # {} PROVE FALSE
  <2> HIDE DEF Lacking
  <2>0. Lacking \in SUBSET Nat
    BY DEF Lacking
  <2>1. PICK m \in Lacking : \A y \in Lacking : ~(y < m)
    BY <1>1, <2>0, Least
  <2>2. m \in Nat /\ m <= C /\ ~\E f : Sums(m, f)
    BY <2>1 DEF Lacking
  <2>3. CASE m = 0
    <3> DEFINE f == [n \in 0 .. 0 |-> 0]
    <3>1. \A n \in 0 .. 0 : n = 0
      OBVIOUS
    <3>2. f = [n \in 0 .. 0 |-> IF n = 0 THEN 0 ELSE f[n - 1] + W(n)]
      BY <3>1
    <3> HIDE DEF f, W
    <3>3. Sums(m, f)
      BY <2>3, <3>2
    <3> QED BY <2>2, <3>3
  <2>4. CASE m # 0
    <3>1. m - 1 \in Nat /\ m - 1 <= C /\ m - 1 < m
      BY <2>2, <2>4, <1>0
    <3>2. \E f : Sums(m - 1, f)
      BY <2>1, <3>1 DEF Lacking
    <3> HIDE DEF Sums, W
    <3>3. PICK f : Sums(m - 1, f)
      BY <3>2
    <3> DEFINE g == [n \in 0 .. m |-> IF n = m THEN f[m - 1] + W(m) ELSE f[n]]
    <3>4. f = [n \in 0 .. m - 1 |-> IF n = 0 THEN 0 ELSE f[n - 1] + W(n)]
      BY <3>3 DEF Sums
    <3>5. ASSUME NEW n \in 0 .. m
          PROVE  g[n] = IF n = 0 THEN 0 ELSE g[n - 1] + W(n)
      <4>1. CASE n = m
        <5>1. m - 1 \in 0 .. m /\ m - 1 # m /\ n # 0
          BY <2>4, <3>1, <4>1
        <5>2. g[m - 1] = f[m - 1] /\ g[n] = f[m - 1] + W(m)
          BY <4>1, <5>1
        <5> QED BY <4>1, <5>1, <5>2
      <4>2. CASE n # m /\ n = 0
        <5>1. 0 \in 0 .. m - 1
          BY <3>1
        <5>2. f[0] = 0
          BY <3>4, <5>1
        <5> QED BY <4>2, <5>2
      <4>3. CASE n # m /\ n # 0
        <5>1. n \in 0 .. m - 1 /\ n - 1 \in 0 .. m /\ n - 1 # m
          BY <2>2, <4>3
        <5>2. f[n] = f[n - 1] + W(n)
          BY <3>4, <4>3, <5>1
        <5>3. g[n] = f[n] /\ g[n - 1] = f[n - 1]
          BY <4>3, <5>1
        <5> QED BY <4>3, <5>2, <5>3
      <4> QED BY <4>1, <4>2, <4>3
    <3>6. g = [n \in 0 .. m |-> g[n]]
      OBVIOUS
    <3> HIDE DEF g
    <3>7. g = [n \in 0 .. m |-> IF n = 0 THEN 0 ELSE g[n - 1] + W(n)]
      BY <3>5, <3>6
    <3>8. Sums(m, g)
      BY <3>7 DEF Sums
    <3> QED BY <2>2, <3>8
  <2> QED BY <2>3, <2>4
<1>2. \E f : Sums(C, f)
  BY <1>0, <1>1
<1> HIDE DEF Sums
<1>3. TotalTo = CHOOSE f : Sums(C, f)
  BY DEF TotalTo, Sums
<1>4. Sums(C, TotalTo)
  BY <1>2, <1>3
<1> QED BY <1>4 DEF Sums

\* The weights of a mix add up to a positive number.
LEMMA TotalPositive == Total \in Nat \ {0}
<1> DEFINE C == Len(Children)
           Wrong == {m \in Nat : m <= C /\ ~(TotalTo[m] \in Nat /\ TotalTo[m] >= m)}
<1>0. C \in Nat /\ C > 0 /\ \A n \in 1 .. C : Children[n] \in Kids
  BY MixShape, RunnerAssumption
<1>1. \A n \in 0 .. C : TotalTo[n] = IF n = 0 THEN 0 ELSE TotalTo[n - 1] + Weight(Children[n])
  BY TotalToDef
<1>2. ASSUME Wrong # {} PROVE FALSE
  <2> HIDE DEF Wrong
  <2>0. Wrong \in SUBSET Nat
    BY DEF Wrong
  <2>1. PICK m \in Wrong : \A y \in Wrong : ~(y < m)
    BY <1>2, <2>0, Least
  <2>2. m \in Nat /\ m <= C /\ ~(TotalTo[m] \in Nat /\ TotalTo[m] >= m)
    BY <2>1 DEF Wrong
  <2>3. CASE m = 0
    BY <1>0, <1>1, <2>2, <2>3
  <2>4. CASE m # 0
    <3>1. m - 1 \in Nat /\ m - 1 <= C /\ m - 1 < m /\ m \in 0 .. C /\ m \in 1 .. C
      BY <1>0, <2>2, <2>4
    <3>2. TotalTo[m - 1] \in Nat /\ TotalTo[m - 1] >= m - 1
      BY <2>1, <3>1 DEF Wrong
    <3>3. Weight(Children[m]) \in Nat /\ Weight(Children[m]) >= 1
      BY <1>0, <3>1, WeightPositive
    <3>4. TotalTo[m] = TotalTo[m - 1] + Weight(Children[m])
      BY <1>1, <2>4, <3>1
    <3> QED BY <2>2, <3>2, <3>3, <3>4
  <2> QED BY <2>3, <2>4
<1>3. TotalTo[C] \in Nat /\ TotalTo[C] >= C
  BY <1>0, <1>2
<1> QED BY <1>0, <1>3 DEF Total

\* A share is the child's quota rounded down, and at least one.
LEMMA ShareQuota ==
    ASSUME threads \in Int, NEW k \in Kids
    PROVE  /\ Share(k) \in Nat /\ Share(k) >= 1
           /\ Share(k) = 1 \/ Share(k) * Total <= threads * Weight(k)
           /\ (Share(k) + 1) * Total > threads * Weight(k)
<1>1. PICK a \in Int : a = threads * Weight(k)
  BY WeightPositive
<1>2. PICK t \in Nat \ {0} : t = Total
  BY TotalPositive
<1>3. PICK q \in Int : q = a \div t
  OBVIOUS
<1>4. q * t <= a /\ a < (q + 1) * t
  BY <1>3
<1>5. Share(k) = IF q < 1 THEN 1 ELSE q
  BY <1>1, <1>2, <1>3 DEF Share, AtLeastOne
<1>6. CASE q < 1
  <2>1. Share(k) = 1 /\ q + 1 <= 1
    BY <1>5, <1>6
  <2>2. (q + 1) * t <= 1 * t
    BY <2>1
  <2>3. a < (1 + 1) * t
    BY <1>4, <2>2
  <2> QED BY <1>1, <1>2, <2>1, <2>3
<1>7. CASE ~(q < 1)
  BY <1>1, <1>2, <1>4, <1>5, <1>7
<1> QED BY <1>6, <1>7

(***************************************************************************)
(* Resolve.                                                                *)
(***************************************************************************)

\* A layer with one value is worth that value.
LEMMA OnlyOne == \A v : Only({v}) = v
BY DEF Only

\* The least of the ranks that have a value is the first of them.
LEMMA FirstRank ==
    ASSUME NEW S \in SUBSET (1 .. 4), NEW i \in S, \A j \in S : i <= j
    PROVE  Min(S) = i
<1>1. i \in Int /\ \A x \in S : x \in Int
  OBVIOUS
<1>2. \A x \in S : (\A y \in S : x <= y) => x = i
  BY <1>1
<1> QED BY <1>2 DEF Min

\* Resolve takes the highest layer that has a value.
LEMMA ResolvePicks ==
    ASSUME Resolve
    PROVE  threads \in Int /\ threads = Configured
<1>1. PICK flag \in Usable(FlagThreads), env \in Usable(EnvThreads), plan \in PlanThreads,
           own \in SUBSET OwnThreads :
          /\ layers = [flag |-> flag, env |-> env, plan |-> plan, own |-> own]
          /\ threads = Pick(flag, env, plan, DefaultThreads)
  BY DEF Resolve
<1>2. /\ flag = {} \/ \E v \in FlagThreads : flag = {v}
      /\ env = {} \/ \E v \in EnvThreads : env = {v}
      /\ layers.flag = flag /\ layers.env = env /\ layers.plan = plan
  BY <1>1 DEF Usable
<1>3. /\ \A v \in FlagThreads \cup EnvThreads \cup PlanThreads : v \in Int
      /\ DefaultThreads \in Int
  BY RunnerAssumption
<1> DEFINE ranked == <<flag, env, {plan} \ {0}, {DefaultThreads}>>
           S == {i \in 1 .. 4 : ranked[i] # {}}
<1>4. Configured = Only(ranked[Min(S)])
  BY <1>2 DEF Configured
<1>5. ranked[1] = flag /\ ranked[2] = env /\ ranked[3] = {plan} \ {0} /\ ranked[4] = {DefaultThreads}
  OBVIOUS
<1> HIDE DEF ranked
<1>6. S \in SUBSET (1 .. 4)
  OBVIOUS
<1>7. CASE flag # {}
  <2>1. 1 \in S /\ \A j \in S : 1 <= j
    BY <1>5, <1>7
  <2> HIDE DEF S
  <2>2. Min(S) = 1
    BY <1>6, <2>1, FirstRank
  <2>3. threads = Only(flag) /\ Configured = Only(flag)
    BY <1>1, <1>4, <1>5, <1>7, <2>2 DEF Pick
  <2> QED BY <1>2, <1>3, <1>7, <2>3, OnlyOne
<1>8. CASE flag = {} /\ env # {}
  <2>1. 2 \in S /\ \A j \in S : 2 <= j
    BY <1>5, <1>8
  <2> HIDE DEF S
  <2>2. Min(S) = 2
    BY <1>6, <2>1, FirstRank
  <2>3. threads = Only(env) /\ Configured = Only(env)
    BY <1>1, <1>4, <1>5, <1>8, <2>2 DEF Pick
  <2> QED BY <1>2, <1>3, <1>8, <2>3, OnlyOne
<1>9. CASE flag = {} /\ env = {} /\ plan # 0
  <2>1. 3 \in S /\ \A j \in S : 3 <= j
    BY <1>5, <1>9
  <2> HIDE DEF S
  <2>2. Min(S) = 3
    BY <1>6, <2>1, FirstRank
  <2>3. threads = plan /\ Configured = Only({plan} \ {0})
    BY <1>1, <1>4, <1>5, <1>9, <2>2 DEF Pick
  <2>4. {plan} \ {0} = {plan}
    BY <1>9
  <2> QED BY <1>1, <1>3, <2>3, <2>4, OnlyOne
<1>10. CASE flag = {} /\ env = {} /\ plan = 0
  <2>1. 4 \in S /\ \A j \in S : 4 <= j
    BY <1>5, <1>10
  <2> HIDE DEF S
  <2>2. Min(S) = 4
    BY <1>6, <2>1, FirstRank
  <2>3. threads = DefaultThreads /\ Configured = Only({DefaultThreads})
    BY <1>1, <1>4, <1>5, <1>10, <2>2 DEF Pick
  <2> QED BY <1>3, <2>3, OnlyOne
<1> QED BY <1>7, <1>8, <1>9, <1>10

(***************************************************************************)
(* Types.                                                                  *)
(***************************************************************************)

\* Init sets the types.
LEMMA TypeInit == Init => TypeOK
<1> SUFFICES ASSUME Init PROVE TypeOK
  OBVIOUS
<1>1. threads \in Int
  BY ResolvePicks DEF Init
<1>2. warm \in BOOLEAN
  <2>1. PICK w \in {0, 1} : warm = (Pick({}, {}, w, 0) > 0)
    BY Zenon DEF Init
  <2>2. (Pick({}, {}, w, 0) > 0) \in BOOLEAN
    <3> DEFINE p == Pick({}, {}, w, 0)
    <3> HIDE DEF p
    <3>1. (p > 0) \in BOOLEAN
      OBVIOUS
    <3> QED BY <3>1 DEF p
  <2> QED BY <2>1, <2>2, Zenon
<1>3. duration \in {0, 1}
  <2>1. PICK flag \in Usable({0}) : duration = Pick(flag, {}, 0, 1)
    BY DEF Init
  <2>2. flag = {} \/ flag = {0}
    BY <2>1 DEF Usable
  <2> QED BY <2>1, <2>2, OnlyOne DEF Pick
<1>4. prepopulate \in BOOLEAN
  <2>1. PICK plan \in Usable(BOOLEAN) : prepopulate = PickBool({}, {}, plan, TRUE)
    BY DEF Init
  <2>2. CASE plan = {}
    <3>1. prepopulate = TRUE
      BY <2>1, <2>2, Zenon DEF PickBool
    <3> QED BY <3>1, Zenon
  <2>3. CASE plan # {}
    <3>1. PICK v \in BOOLEAN : plan = {v}
      BY <2>1, <2>3, Zenon DEF Usable
    <3>2. prepopulate = Only(plan)
      BY <2>1, <2>3, Zenon DEF PickBool
    <3>3. prepopulate = v
      BY <3>1, <3>2, OnlyOne, Zenon
    <3> QED BY <3>3, Zenon
  <2> QED BY <2>2, <2>3, Zenon
<1>5. turn \in 1 .. Len(Flat) + 1 /\ \A i \in turn .. Len(Flat) : Flat[i] \notin prepared
  BY FlatOrder DEF Init
<1>6. /\ at \in [Phases -> [Leaves -> {"off", "run", "send", "back"}]]
      /\ given \in [Phases -> [Leaves -> Int]]
  BY DEF Init
<1>7. /\ mixAt \in [Phases -> {"off", "wait", "back"}]
      /\ errCh \in [Phases -> 0 .. Len(Children)]
  BY MixShape DEF Init
<1>8. /\ main \in Phases \cup {"start", "populate", "returned", "refused"}
      /\ unprepared \subseteq prepared /\ prepared \subseteq Leaves
      /\ ctxDone \subseteq Phases /\ collected \subseteq Phases
  BY DEF Init
<1>9. {warm, prepopulate} \subseteq BOOLEAN
  BY <1>2, <1>4, Zenon
<1> QED BY <1>1, <1>3, <1>5, <1>6, <1>7, <1>8, <1>9 DEF TypeOK

\* A step keeps the types.
LEMMA TypeStep == TypeOK /\ [Next]_vars => TypeOK'
<1> SUFFICES ASSUME TypeOK, [Next]_vars PROVE TypeOK'
  OBVIOUS
<1>0. /\ Flat \in Seq(Leaves) /\ Len(Flat) \in Nat
      /\ \A i \in 1 .. Len(Flat) : Flat[i] \in Leaves
      /\ \A i, j \in 1 .. Len(Flat) : Flat[i] = Flat[j] => i = j
      /\ AfterMix \in 1 .. Len(Flat) + 1
      /\ \A i \in 1 .. Len(Flat) : Flat[i] \in Kids => i < AfterMix
      /\ Len(Children) \in Nat
  BY FlatOrder, MixShape
<1>1. CASE Start
  <2>1. main' \in Phases \cup {"populate", "refused"}
    BY <1>1, Zenon DEF Start, Phases
  <2>2. UNCHANGED <<config, populating, running, ctxDone, collected>>
    BY <1>1 DEF Start
  <2> QED BY <2>1, <2>2 DEF TypeOK, config, populating, running
<1>2. CASE Populate
  <2>1. /\ turn <= Len(Flat) /\ prepared' = prepared \cup {Flat[turn]}
        /\ \/ turn' = turn + 1 /\ UNCHANGED unprepared
           \/ turn' = SkipFailed(turn) /\ unprepared' = unprepared \cup {Flat[turn]}
        /\ UNCHANGED <<config, main, running, ctxDone, collected>>
    BY <1>2 DEF Populate
  <2>2. turn \in 1 .. Len(Flat) /\ Flat[turn] \in Leaves
    BY <1>0, <2>1 DEF TypeOK
  <2>3. turn' \in turn + 1 .. Len(Flat) + 1
    BY <1>0, <2>1, <2>2 DEF SkipFailed
  <2>4. ASSUME NEW i \in turn' .. Len(Flat) PROVE Flat[i] \notin prepared'
    <3>1. i \in turn .. Len(Flat) /\ i \in 1 .. Len(Flat) /\ i # turn
      BY <1>0, <2>2, <2>3
    <3>2. Flat[i] \notin prepared /\ Flat[i] # Flat[turn]
      BY <1>0, <2>2, <3>1 DEF TypeOK
    <3> QED BY <2>1, <3>2
  <2>5. turn' \in 1 .. Len(Flat) + 1
    BY <2>2, <2>3
  <2>6. unprepared' \subseteq prepared' /\ prepared' \subseteq Leaves
    BY <2>1, <2>2 DEF TypeOK
  <2> QED BY <2>1, <2>4, <2>5, <2>6 DEF TypeOK, config, running
<1>3. CASE Populated
  <2>1. main' \in Phases
    BY <1>3, Zenon DEF Populated, Phases
  <2>2. UNCHANGED <<config, populating, running, ctxDone, collected>>
    BY <1>3 DEF Populated
  <2> QED BY <2>1, <2>2 DEF TypeOK, config, populating, running
<1>4. ASSUME NEW ph \in Phases, ContextDone(ph) PROVE TypeOK'
  BY <1>4 DEF ContextDone, TypeOK, config, populating, running
<1>5. ASSUME NEW ph \in Phases, PhaseReturns(ph) PROVE TypeOK'
  <2>1. main' \in Phases \cup {"returned"}
    BY <1>5 DEF PhaseReturns, Phases
  <2>2. ctxDone' = ctxDone \cup {ph} /\ UNCHANGED <<config, populating, running, collected>>
    BY <1>5 DEF PhaseReturns
  <2> QED BY <2>1, <2>2 DEF TypeOK, config, populating, running
<1>6. ASSUME NEW ph \in Phases, StartMix(ph) PROVE TypeOK'
  <2>1. \A k \in Kids : Share(k) \in Int
    BY ShareQuota DEF TypeOK
  <2>2. at' \in [Phases -> [Leaves -> {"off", "run", "send", "back"}]]
    BY <1>6 DEF StartMix, TypeOK
  <2>3. given' \in [Phases -> [Leaves -> Int]]
    BY <1>6, <2>1 DEF StartMix, TypeOK
  <2>4. mixAt' \in [Phases -> {"off", "wait", "back"}]
    BY <1>6 DEF StartMix, TypeOK
  <2> QED BY <1>6, <2>2, <2>3, <2>4 DEF StartMix, TypeOK, config, populating
<1>7. ASSUME NEW ph \in Phases, MixReturns(ph) PROVE TypeOK'
  <2>1. mixAt' \in [Phases -> {"off", "wait", "back"}]
    BY <1>7 DEF MixReturns, TypeOK
  <2>2. errCh' \in [Phases -> 0 .. Len(Children)]
    BY <1>0, <1>7 DEF MixReturns, TypeOK
  <2> QED BY <1>7, <2>1, <2>2 DEF MixReturns, TypeOK, config, populating
<1>8. ASSUME NEW ph \in Phases, NEW l \in Leaves, StartLeaf(l, ph) PROVE TypeOK'
  <2>1. at' \in [Phases -> [Leaves -> {"off", "run", "send", "back"}]]
    BY <1>8 DEF StartLeaf, TypeOK
  <2>2. given' \in [Phases -> [Leaves -> Int]]
    BY <1>8 DEF StartLeaf, TypeOK
  <2> QED BY <1>8, <2>1, <2>2 DEF StartLeaf, TypeOK, config, populating
<1>9. ASSUME NEW ph \in Phases, NEW l \in Leaves, Operate(l, ph) PROVE TypeOK'
  <2>1. collected' \subseteq Phases
    BY <1>9 DEF Operate, TypeOK
  <2> QED BY <1>9, <2>1 DEF Operate, TypeOK, config, populating, running
<1>10. ASSUME NEW ph \in Phases, NEW l \in Leaves, LeafEnds(l, ph) PROVE TypeOK'
  <2>1. CASE LeafReturns(l, ph)
    <3>1. at' \in [Phases -> [Leaves -> {"off", "run", "send", "back"}]]
      BY <2>1 DEF LeafReturns, TypeOK
    <3> QED BY <2>1, <3>1 DEF LeafReturns, TypeOK, config, populating
  <2>2. CASE LeafFails(l, ph)
    <3>1. at' \in [Phases -> [Leaves -> {"off", "run", "send", "back"}]]
      BY <2>2 DEF LeafFails, TypeOK
    <3> QED BY <2>2, <3>1 DEF LeafFails, TypeOK, config, populating
  <2>3. CASE SendError(l, ph)
    <3>1. at' \in [Phases -> [Leaves -> {"off", "run", "send", "back"}]]
      BY <2>3 DEF SendError, TypeOK
    <3>2. errCh' \in [Phases -> 0 .. Len(Children)]
      BY <1>0, <2>3 DEF SendError, Capacity, TypeOK
    <3> QED BY <2>3, <3>1, <3>2 DEF SendError, TypeOK, config, populating
  <2> QED BY <1>10, <2>1, <2>2, <2>3 DEF LeafEnds
<1>11. CASE UNCHANGED vars
  BY <1>11 DEF TypeOK, vars, config, populating, running
<1> QED
  BY <1>1, <1>2, <1>3, <1>4, <1>5, <1>6, <1>7, <1>8, <1>9, <1>10, <1>11 DEF Next, Terminated

\* Types are kept, no leaf is prepopulated twice, and the channel of the mix
\* never holds more errors than it has room for.
THEOREM TypesHold == Spec => []TypeOK
<1> QED BY TypeInit, TypeStep, PTL DEF Spec

(***************************************************************************)
(* The order of the phases.                                                *)
(***************************************************************************)

\* The loop of Prepopulate reaches everybody but children behind a failed one.
Queue ==
    /\ \A i \in 1 .. turn - 1 :
          Flat[i] \in prepared \/ (Flat[i] \in Kids /\ unprepared \cap Kids # {})
    /\ main \in Phases \cup {"returned"} /\ prepopulate => turn = Len(Flat) + 1

\* Nobody runs before its phase, and nobody still runs after warmup.
Phased ==
    /\ main \in {"start", "populate", "refused"} =>
          \A l \in Leaves, ph \in Phases : at[ph][l] = "off"
    /\ main = "warmup" => \A l \in Leaves : at["measure"][l] = "off"
    /\ main # "warmup" => \A l \in Leaves : at["warmup"][l] \notin {"run", "send"}
    /\ \A ph \in Phases : mixAt[ph] = "back" => \A k \in Kids : at[ph][k] = "back"
    /\ collected \subseteq {"measure"}

\* The threads a started leaf was given.
Shared ==
    /\ threads = Configured
    /\ \A l \in Leaves, ph \in Phases : at[ph][l] # "off" =>
          given[ph][l] = IF l \in Kids THEN Share(l) ELSE threads

\* No step but Populate, Start and Populated disturbs the queue.
LEMMA QueueStep ==
    ASSUME TypeOK, Queue, [Next]_vars
    PROVE  Queue'
<1>0. /\ Len(Flat) \in Nat /\ AfterMix \in 1 .. Len(Flat) + 1
      /\ \A i \in 1 .. Len(Flat) : Flat[i] \in Kids =>
            i < AfterMix /\ \A j \in i .. AfterMix - 1 : Flat[j] \in Kids
      /\ turn \in 1 .. Len(Flat) + 1
  BY FlatOrder DEF TypeOK
<1>1. CASE Populate
  <2>1. /\ main = "populate" /\ main' = main
        /\ turn \in 1 .. Len(Flat) /\ prepared' = prepared \cup {Flat[turn]}
        /\ \/ turn' = turn + 1 /\ UNCHANGED unprepared
           \/ turn' = SkipFailed(turn) /\ unprepared' = unprepared \cup {Flat[turn]}
    BY <1>0, <1>1 DEF Populate
  <2>2. \A i \in 1 .. turn - 1 :
           Flat[i] \in prepared' \/ (Flat[i] \in Kids /\ unprepared' \cap Kids # {})
    BY <2>1 DEF Queue
  <2>3. ASSUME NEW i \in 1 .. turn' - 1
        PROVE  Flat[i] \in prepared' \/ (Flat[i] \in Kids /\ unprepared' \cap Kids # {})
    <3>1. CASE turn' = turn + 1
      <4>1. i \in 1 .. turn - 1 \/ i = turn
        BY <1>0, <3>1
      <4> QED BY <2>1, <2>2, <4>1
    <3>2. CASE turn' # turn + 1
      <4>1. Flat[turn] \in Kids /\ turn' = AfterMix /\ Flat[turn] \in unprepared'
        BY <2>1, <3>2 DEF SkipFailed
      <4>2. i \in 1 .. turn - 1 \/ i \in turn .. AfterMix - 1
        BY <1>0, <4>1
      <4>3. i \in turn .. AfterMix - 1 => Flat[i] \in Kids
        BY <1>0, <2>1, <4>1
      <4> QED BY <2>2, <4>1, <4>2, <4>3
    <3> QED BY <3>1, <3>2
  <2> QED BY <2>1, <2>3 DEF Queue, Phases
<1>2. CASE Start
  <2>1. /\ main = "start" /\ UNCHANGED <<turn, prepared, unprepared, prepopulate>>
        /\ prepopulate => main' \in {"refused", "populate"}
    BY <1>2 DEF Start, config, populating
  <2> QED BY <2>1 DEF Queue, Phases
<1>3. CASE Populated
  <2>1. turn = Len(Flat) + 1 /\ UNCHANGED <<turn, prepared, unprepared, prepopulate>>
    BY <1>0, <1>3 DEF Populated, config, populating
  <2> QED BY <2>1 DEF Queue
<1>4. ASSUME UNCHANGED <<turn, prepared, unprepared, prepopulate>>,
             main' = main \/ main \in Phases
      PROVE  Queue'
  BY <1>4 DEF Queue
<1>5. ASSUME NEW ph \in Phases, ContextDone(ph) \/ PhaseReturns(ph) \/ StartMix(ph) \/ MixReturns(ph)
      PROVE  Queue'
  <2>1. UNCHANGED <<config, populating>> /\ (main' = main \/ main \in Phases)
    BY <1>5 DEF ContextDone, PhaseReturns, StartMix, MixReturns
  <2> QED BY <1>4, <2>1 DEF config, populating
<1>6. ASSUME NEW ph \in Phases, NEW l \in Leaves,
             StartLeaf(l, ph) \/ Operate(l, ph) \/ LeafEnds(l, ph)
      PROVE  Queue'
  <2>1. UNCHANGED <<config, populating>> /\ main' = main
    BY <1>6 DEF StartLeaf, Operate, LeafEnds, LeafReturns, LeafFails, SendError
  <2> QED BY <1>4, <2>1 DEF config, populating
<1>7. CASE UNCHANGED vars
  BY <1>4, <1>7 DEF vars, config, populating
<1> QED BY <1>1, <1>2, <1>3, <1>5, <1>6, <1>7 DEF Next, Terminated

\* A step keeps the phases apart.
LEMMA PhasedStep ==
    ASSUME TypeOK, Phased, [Next]_vars
    PROVE  Phased'
<1>0. /\ at \in [Phases -> [Leaves -> {"off", "run", "send", "back"}]]
      /\ mixAt \in [Phases -> {"off", "wait", "back"}]
      /\ Kids \subseteq Leaves /\ Phases = {"warmup", "measure"}
  BY DEF TypeOK, Leaves, Phases
<1>1. CASE Start
  <2>1. /\ main = "start" /\ main' \in Phases \cup {"refused", "populate"}
        /\ UNCHANGED <<at, mixAt, collected>>
    BY <1>1, Zenon DEF Start, running, Phases
  <2>2. \A l \in Leaves, ph \in Phases : at[ph][l] = "off"
    BY <2>1 DEF Phased
  <2> QED BY <1>0, <2>1, <2>2 DEF Phased
<1>2. CASE Populated
  <2>1. /\ main = "populate" /\ main' \in Phases
        /\ UNCHANGED <<at, mixAt, collected>>
    BY <1>2, Zenon DEF Populated, running, Phases
  <2>2. \A l \in Leaves, ph \in Phases : at[ph][l] = "off"
    BY <2>1 DEF Phased
  <2> QED BY <1>0, <2>1, <2>2 DEF Phased
<1>3. ASSUME NEW ph \in Phases, PhaseReturns(ph) PROVE Phased'
  <2>1. /\ main = ph /\ AllBack(ph) /\ UNCHANGED <<at, mixAt, collected>>
        /\ main' = IF ph = "warmup" THEN "measure" ELSE "returned"
    BY <1>3 DEF PhaseReturns, running
  <2>2. \A l \in Leaves : at[ph][l] = "back"
    BY <2>1 DEF AllBack, Phased
  <2> QED BY <1>0, <2>1, <2>2 DEF Phased
<1>4. ASSUME NEW ph \in Phases, StartMix(ph) PROVE Phased'
  <2>1. /\ main = ph /\ main' = main /\ collected' = collected
        /\ mixAt' = [mixAt EXCEPT ![ph] = "wait"]
        /\ at' = [at EXCEPT ![ph] =
                     [l \in Leaves |-> IF l \in Kids THEN "run" ELSE at[ph][l]]]
    BY <1>4 DEF StartMix
  <2>2. \A p \in Phases : p # ph => at'[p] = at[p] /\ mixAt'[p] = mixAt[p]
    BY <1>0, <2>1
  <2>3. mixAt'[ph] = "wait"
    BY <1>0, <2>1
  <2> QED BY <1>0, <2>1, <2>2, <2>3 DEF Phased
<1>5. ASSUME NEW ph \in Phases, MixReturns(ph) PROVE Phased'
  <2>1. /\ \A k \in Kids : at[ph][k] = "back"
        /\ UNCHANGED <<main, at, collected>>
        /\ mixAt' = [mixAt EXCEPT ![ph] = "back"]
    BY <1>5 DEF MixReturns
  <2>2. \A p \in Phases : p # ph => mixAt'[p] = mixAt[p]
    BY <1>0, <2>1
  <2> QED BY <1>0, <2>1, <2>2 DEF Phased
<1>6. ASSUME NEW ph \in Phases, NEW l \in Leaves, NEW to \in {"run", "send", "back"},
             at' = [at EXCEPT ![ph][l] = to],
             UNCHANGED <<main, mixAt, collected>>,
             \/ main = ph /\ l \notin Kids
             \/ at[ph][l] \in {"run", "send"}
      PROVE  Phased'
  <2>1. \A p \in Phases, k \in Leaves : at'[p][k] = IF p = ph /\ k = l THEN to ELSE at[p][k]
    BY <1>0, <1>6
  <2>2. \A p \in Phases : mixAt[p] = "back" => \A k \in Kids : at'[p][k] = "back"
    BY <1>0, <1>6, <2>1 DEF Phased
  <2>3. main = ph \/ main = "measure" \/ main = "returned"
    BY <1>0, <1>6 DEF TypeOK, Phased
  <2>4. ph = "warmup" => main = "warmup"
    BY <1>0, <1>6 DEF Phased
  <2> QED BY <1>0, <1>6, <2>1, <2>2, <2>3, <2>4 DEF Phased
<1>7. ASSUME NEW ph \in Phases, NEW l \in Leaves, StartLeaf(l, ph) PROVE Phased'
  BY <1>6, <1>7 DEF StartLeaf
<1>8. ASSUME NEW ph \in Phases, NEW l \in Leaves, LeafEnds(l, ph) PROVE Phased'
  <2>1. CASE LeafReturns(l, ph)
    BY <1>6, <2>1 DEF LeafReturns
  <2>2. CASE LeafFails(l, ph)
    BY <1>6, <2>2 DEF LeafFails
  <2>3. CASE SendError(l, ph)
    BY <1>6, <2>3 DEF SendError
  <2> QED BY <1>8, <2>1, <2>2, <2>3 DEF LeafEnds
<1>9. ASSUME UNCHANGED <<main, at, mixAt>>, collected' \subseteq {"measure"}
      PROVE  Phased'
  BY <1>9 DEF Phased
<1>10. ASSUME NEW ph \in Phases, NEW l \in Leaves, Operate(l, ph) PROVE Phased'
  BY <1>9, <1>10 DEF Operate, Collects, running, Phased
<1>11. CASE Populate
  BY <1>9, <1>11 DEF Populate, running, Phased
<1>12. ASSUME NEW ph \in Phases, ContextDone(ph) PROVE Phased'
  BY <1>9, <1>12 DEF ContextDone, running, Phased
<1>13. CASE UNCHANGED vars
  BY <1>9, <1>13 DEF vars, running, Phased
<1> QED
  BY <1>1, <1>2, <1>3, <1>4, <1>5, <1>7, <1>8, <1>10, <1>11, <1>12, <1>13 DEF Next, Terminated

\* A step keeps the threads of those it does not start.
LEMMA SharedStep ==
    ASSUME TypeOK, Shared, [Next]_vars
    PROVE  Shared'
<1>0. /\ at \in [Phases -> [Leaves -> {"off", "run", "send", "back"}]]
      /\ given \in [Phases -> [Leaves -> Int]]
      /\ Kids \subseteq Leaves
  BY DEF TypeOK, Leaves
<1>1. UNCHANGED config
  BY DEF Next, Start, Populate, Populated, ContextDone, PhaseReturns, StartMix, MixReturns,
         StartLeaf, Operate, LeafEnds, LeafReturns, LeafFails, SendError, Terminated, vars
<1>2. /\ threads' = threads /\ Configured' = Configured
      /\ \A l \in Kids : Share(l)' = Share(l)
  BY <1>1 DEF config, Configured, Share
<1>3. ASSUME \A ph \in Phases, l \in Leaves : at'[ph][l] # "off" =>
                \/ at[ph][l] # "off" /\ given'[ph][l] = given[ph][l]
                \/ given'[ph][l] = IF l \in Kids THEN Share(l) ELSE threads
      PROVE  Shared'
  BY <1>2, <1>3 DEF Shared
<1>4. CASE at' = at /\ given' = given
  BY <1>3, <1>4
<1>5. ASSUME NEW ph \in Phases, NEW l \in Leaves, NEW to, at[ph][l] # "off",
             at' = [at EXCEPT ![ph][l] = to], given' = given
      PROVE  Shared'
  <2>1. \A p \in Phases, k \in Leaves : at'[p][k] = IF p = ph /\ k = l THEN to ELSE at[p][k]
    BY <1>0, <1>5
  <2> QED BY <1>3, <1>5, <2>1
<1>6. ASSUME NEW ph \in Phases, NEW l \in Leaves, StartLeaf(l, ph) PROVE Shared'
  <2>1. \A p \in Phases, k \in Leaves :
           /\ at'[p][k] = IF p = ph /\ k = l THEN "run" ELSE at[p][k]
           /\ given'[p][k] = IF p = ph /\ k = l THEN threads ELSE given[p][k]
    BY <1>0, <1>6 DEF StartLeaf
  <2> QED BY <1>3, <1>6, <2>1 DEF StartLeaf
<1>7. ASSUME NEW ph \in Phases, StartMix(ph) PROVE Shared'
  <2>1. \A p \in Phases, k \in Leaves :
           /\ at'[p][k] = IF p = ph /\ k \in Kids THEN "run" ELSE at[p][k]
           /\ given'[p][k] = IF p = ph /\ k \in Kids THEN Share(k) ELSE given[p][k]
    BY <1>0, <1>7 DEF StartMix
  <2> QED BY <1>3, <2>1
<1>8. ASSUME NEW ph \in Phases, NEW l \in Leaves, LeafEnds(l, ph) PROVE Shared'
  BY <1>5, <1>8 DEF LeafEnds, LeafReturns, LeafFails, SendError
<1>9. CASE Start \/ Populate \/ Populated
  BY <1>4, <1>9 DEF Start, Populate, Populated, running
<1>10. ASSUME NEW ph \in Phases, ContextDone(ph) \/ PhaseReturns(ph) \/ MixReturns(ph)
       PROVE  Shared'
  BY <1>4, <1>10 DEF ContextDone, PhaseReturns, MixReturns, running
<1>11. ASSUME NEW ph \in Phases, NEW l \in Leaves, Operate(l, ph) PROVE Shared'
  BY <1>4, <1>11 DEF Operate, running
<1>12. CASE UNCHANGED vars
  BY <1>4, <1>12 DEF vars, running
<1> QED BY <1>6, <1>7, <1>8, <1>9, <1>10, <1>11, <1>12 DEF Next, Terminated

\* The inductive invariant.
Inv == TypeOK /\ Queue /\ Phased /\ Shared

\* Init establishes it.
LEMMA InvInit == Init => Inv
<1> SUFFICES ASSUME Init PROVE Inv
  OBVIOUS
<1>1. TypeOK
  BY TypeInit
<1>2. Queue
  BY DEF Init, Queue, Phases
<1>3. \A l \in Leaves, ph \in Phases : at[ph][l] = "off"
  BY DEF Init
<1>4. Phased
  BY <1>3 DEF Init, Phased, Phases
<1>5. Shared
  BY <1>3, ResolvePicks DEF Init, Shared
<1> QED BY <1>1, <1>2, <1>4, <1>5 DEF Inv

\* Inv holds in every reachable state.
THEOREM InvHolds == Spec => []Inv
<1>1. Inv /\ [Next]_vars => Inv'
  BY TypeStep, QueueStep, PhasedStep, SharedStep DEF Inv
<1> QED BY InvInit, <1>1, PTL DEF Spec

\* Warmup and measurement never overlap, operations of the warmup are not
\* collected, and who runs was prepopulated, whatever failed on the way.
THEOREM PhasesFollow == Spec => []PhasesInOrder
<1>1. Inv => PhasesSeparate
  <2> SUFFICES ASSUME Inv PROVE PhasesSeparate
    OBVIOUS
  <2>1. main # "warmup" => \A l \in Leaves : at["warmup"][l] \notin {"run", "send"}
    BY DEF Inv, Phased
  <2>2. main = "warmup" => \A l \in Leaves : at["measure"][l] = "off"
    BY DEF Inv, Phased
  <2>3. collected \subseteq {"measure"}
    BY DEF Inv, Phased
  <2> QED BY <2>1, <2>2, <2>3 DEF PhasesSeparate
<1>2. Inv => PreparedBeforeRun
  <2> SUFFICES ASSUME Inv, NEW l \in Leaves, NEW ph \in Phases,
                      at[ph][l] = "run", prepopulate, l \notin prepared
               PROVE  l \in Kids /\ unprepared \cap Kids # {}
    BY DEF PreparedBeforeRun
  <2>1. main \in Phases \cup {"returned"}
    BY DEF Inv, Phased, TypeOK
  <2>2. turn = Len(Flat) + 1
    BY <2>1 DEF Inv, Queue
  <2>3. PICK i \in 1 .. Len(Flat) : Flat[i] = l
    BY FlatOrder
  <2>4. i \in 1 .. turn - 1
    BY <2>2, FlatOrder
  <2> QED BY <2>3, <2>4 DEF Inv, Queue
<1> QED BY InvHolds, <1>1, <1>2, PTL DEF PhasesInOrder

\* Every workload without a setting of its own is given the threads of the
\* highest layer that sets them, a child of the mix its quota of them and one at
\* least.  Checkpoints, which start their writers instead, are left out.
THEOREM ThreadsDivided == Spec => []ThreadsAsConfigured
<1>1. Inv => ThreadsAsConfigured
  <2> SUFFICES ASSUME Inv, NEW l \in ByDefaults, NEW ph \in Phases, at[ph][l] # "off"
               PROVE  IF l \in Kids
                      THEN /\ given[ph][l] >= 1
                           /\ \/ given[ph][l] = 1
                              \/ given[ph][l] * Total <= Configured * Weight(l)
                           /\ (given[ph][l] + 1) * Total > Configured * Weight(l)
                      ELSE given[ph][l] = Configured
    BY DEF ThreadsAsConfigured
  <2>0. l \in Leaves
    BY DEF ByDefaults
  <2>1. /\ threads \in Int /\ threads = Configured
        /\ given[ph][l] = IF l \in Kids THEN Share(l) ELSE threads
    BY <2>0 DEF Inv, TypeOK, Shared
  <2>2. CASE l \in Kids
    BY <2>1, <2>2, ShareQuota
  <2>3. CASE l \notin Kids
    BY <2>1, <2>3
  <2> QED BY <2>2, <2>3
<1> QED BY InvHolds, <1>1, PTL
=============================================================================
