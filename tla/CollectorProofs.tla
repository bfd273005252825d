-------------------------- MODULE CollectorProofs ---------------------------
(***************************************************************************)
(* Proofs about Collector, for any number of goroutines, workloads, shards *)
(* and records.  The shards are tables of numbers; what a step does to     *)
(* their sums is proved of tables in general, a sum being counted by the   *)
(* pairs of a place and one of the units it holds.                         *)
(***************************************************************************)
EXTENDS Collector, FiniteSetTheorems, TLAPS

(***************************************************************************)
(* Sums.                                                                   *)
(***************************************************************************)

\* A sum is proved about as a count: of the pairs of a place and one of as many
\* numbers as its value.
Units(f, S) == {q \in S \X Nat : q[2] \in 1 .. f[q[1]]}
Count(f, S) == Cardinality(Units(f, S))

\* The units of one place.
LEMMA UnitsOfOne ==
    ASSUME NEW x, NEW n \in Nat
    PROVE  IsFiniteSet({x} \X (1 .. n)) /\ Cardinality({x} \X (1 .. n)) = n
<1>1. IsFiniteSet({x}) /\ Cardinality({x}) = 1
  BY FS_Singleton
<1>2. IsFiniteSet(1 .. n) /\ Cardinality(1 .. n) = n
  BY FS_Interval
<1>3. /\ IsFiniteSet({x} \X (1 .. n))
      /\ Cardinality({x} \X (1 .. n)) = Cardinality({x}) * Cardinality(1 .. n)
  BY <1>1, <1>2, FS_Product
<1>4. 1 * n = n
  OBVIOUS
<1> QED BY <1>1, <1>2, <1>3, <1>4

\* There are finitely many units.
LEMMA UnitsFinite ==
    ASSUME NEW S, IsFiniteSet(S), NEW f, \A x \in S : f[x] \in Nat
    PROVE  IsFiniteSet(Units(f, S)) /\ Count(f, S) \in Nat
<1> DEFINE g == [x \in S |-> {x} \X (1 .. f[x])]
           T == {g[x] : x \in S}
<1>1. g \in Surjection(S, T)
  BY DEF Surjection
<1>2. IsFiniteSet(T)
  BY <1>1, FS_Surjection
<1>3. ASSUME NEW t \in T PROVE IsFiniteSet(t)
  <2>1. PICK x \in S : t = {x} \X (1 .. f[x])
    OBVIOUS
  <2>2. f[x] \in Nat
    OBVIOUS
  <2> QED BY <2>1, <2>2, UnitsOfOne
<1> HIDE DEF T
<1>4. IsFiniteSet(UNION T)
  BY <1>2, <1>3, FS_UNION
<1>5. Units(f, S) \in SUBSET (UNION T)
  BY DEF Units, T
<1>6. IsFiniteSet(Units(f, S))
  BY <1>4, <1>5, FS_Subset
<1> QED BY <1>6, FS_CardinalityType DEF Count

\* Any place can be counted apart.
LEMMA CountApart ==
    ASSUME NEW S, IsFiniteSet(S), NEW f, \A x \in S : f[x] \in Nat, NEW x \in S
    PROVE  Count(f, S) = f[x] + Count(f, S \ {x})
<1> DEFINE A == {x} \X (1 .. f[x])
           B == Units(f, S \ {x})
<1>1. IsFiniteSet(A) /\ Cardinality(A) = f[x]
  BY UnitsOfOne
<1>2. IsFiniteSet(B) /\ Cardinality(B) \in Nat
  BY FS_RemoveElement, UnitsFinite DEF Count
<1>3. A \cap B = {}
  BY DEF Units
<1>4. Units(f, S) = A \cup B
  BY DEF Units
<1> HIDE DEF A, B
<1>5. Cardinality(A \cup B) = Cardinality(A) + Cardinality(B) - Cardinality(A \cap B)
  BY <1>1, <1>2, FS_Union
<1>6. Cardinality(A \cap B) = 0
  BY <1>3, FS_EmptySet
<1> QED BY <1>1, <1>2, <1>4, <1>5, <1>6 DEF Count, B

\* The fold that SumFunction is made of computes the count.
LEMMA SumCounts ==
    ASSUME NEW S, IsFiniteSet(S), NEW f \in [S -> Nat]
    PROVE  SumFunction(f) = Count(f, S)
<1> DEFINE Pick(s) == CHOOSE x \in s : TRUE
           Fold(it) == it = [s \in SUBSET S |->
                               IF s = {} THEN 0 ELSE f[Pick(s)] + it[s \ {Pick(s)}]]
           c == [s \in SUBSET S |-> Count(f, s)]
<1>1. \A s \in SUBSET S : s # {} => Pick(s) \in s
  OBVIOUS
<1>2. ASSUME NEW s \in SUBSET S
      PROVE  c[s] = IF s = {} THEN 0 ELSE f[Pick(s)] + c[s \ {Pick(s)}]
  <2>1. CASE s = {}
    <3>1. Units(f, {}) = {}
      BY DEF Units
    <3>2. Count(f, {}) = 0
      BY <3>1, FS_EmptySet DEF Count
    <3> QED BY <2>1, <3>2
  <2>2. CASE s # {}
    <3>1. IsFiniteSet(s) /\ Pick(s) \in s /\ s \ {Pick(s)} \in SUBSET S
      BY <1>1, <2>2, FS_Subset
    <3> HIDE DEF Pick
    <3>2. Count(f, s) = f[Pick(s)] + Count(f, s \ {Pick(s)})
      BY <3>1, CountApart
    <3> QED BY <2>2, <3>1, <3>2
  <2> QED BY <2>1, <2>2
<1>3. Fold(c)
  <2> HIDE DEF Pick
  <2>1. c = [s \in SUBSET S |-> c[s]]
    OBVIOUS
  <2> HIDE DEF c
  <2> QED BY <1>2, <2>1
<1>4. ASSUME NEW it, Fold(it) PROVE it = c
  <2> DEFINE Wrong == {s \in SUBSET S : it[s] # c[s]}
             R == StrictSubsetOrdering(S)
  <2> HIDE DEF Pick, c
  <2>1. IsWellFoundedOn(R, SUBSET S)
    BY FS_StrictSubsetOrderingWellFounded, FS_FiniteSubsetsOfFinite
  <2>2. ASSUME Wrong # {} PROVE FALSE
    <3>1. Wrong \subseteq SUBSET S
      OBVIOUS
    <3> HIDE DEF Wrong, R
    <3>2. PICK s \in Wrong : \A t \in Wrong : ~(<<t, s>> \in R)
      BY <2>1, <2>2, <3>1, WFMin
    <3> DEFINE t == s \ {Pick(s)}
    <3>3. s \in SUBSET S /\ it[s] # c[s]
      BY <3>2 DEF Wrong
    <3>4. it[s] = IF s = {} THEN 0 ELSE f[Pick(s)] + it[t]
      BY <1>4, <3>3
    <3>5. s # {}
      BY <1>2, <3>3, <3>4
    <3>6. Pick(s) \in s /\ t \in SUBSET S /\ <<t, s>> \in R
      BY <1>1, <3>3, <3>5 DEF R, StrictSubsetOrdering
    <3>7. it[t] = c[t]
      BY <3>2, <3>6 DEF Wrong
    <3> QED BY <1>2, <3>3, <3>4, <3>5, <3>7
  <2>3. \A s \in SUBSET S : it[s] = c[s]
    BY <2>2
  <2>4. it = [s \in SUBSET S |-> it[s]]
    BY <1>4
  <2>5. c = [s \in SUBSET S |-> c[s]]
    BY DEF c
  <2> QED BY <2>3, <2>4, <2>5
<1>5. SumFunction(f) = (CHOOSE it : Fold(it))[S]
  BY DEF SumFunction, SumFunctionOnSet, FoldFunctionOnSet, MapThenFoldSet
<1>6. (CHOOSE it : Fold(it)) = c
  <2> HIDE DEF Fold, c
  <2> QED BY <1>3, <1>4
<1> QED BY <1>5, <1>6

\* Sums of natural numbers are natural numbers; of nothing, or of zeros, zero.
LEMMA SumTypes ==
    ASSUME NEW S, IsFiniteSet(S), NEW f \in [S -> Nat]
    PROVE  /\ SumFunction(f) \in Nat
           /\ (\A x \in S : f[x] = 0) => SumFunction(f) = 0
<1>1. SumFunction(f) = Count(f, S) /\ Count(f, S) \in Nat
  BY SumCounts, UnitsFinite
<1>2. ASSUME \A x \in S : f[x] = 0 PROVE Count(f, S) = 0
  <2>1. Units(f, S) = {}
    BY <1>2 DEF Units
  <2> QED BY <2>1, FS_EmptySet DEF Count
<1> QED BY <1>1, <1>2

\* What a sum loses when a place is left out.
Without(f, S, x) == [y \in S \ {x} |-> f[y]]

\* It is the value of that place.
LEMMA SumWithout ==
    ASSUME NEW S, IsFiniteSet(S), NEW x \in S, NEW f \in [S -> Nat]
    PROVE  SumFunction(f) = f[x] + SumFunction(Without(f, S, x))
<1> DEFINE g == Without(f, S, x)
<1>1. IsFiniteSet(S \ {x}) /\ g \in [S \ {x} -> Nat]
  BY FS_RemoveElement DEF Without
<1> HIDE DEF g
<1>2. SumFunction(f) = Count(f, S) /\ SumFunction(g) = Count(g, S \ {x})
  BY <1>1, SumCounts
<1>3. Units(f, S \ {x}) = Units(g, S \ {x})
  BY DEF Units, g, Without
<1>4. Count(f, S) = f[x] + Count(f, S \ {x})
  BY CountApart
<1> QED BY <1>2, <1>3, <1>4 DEF Count, g

\* What it gains when one value grows.
LEMMA SumStep ==
    ASSUME NEW S, IsFiniteSet(S), NEW x \in S, NEW d \in Nat,
           NEW f \in [S -> Nat], NEW g \in [S -> Nat],
           g[x] = f[x] + d, \A y \in S \ {x} : g[y] = f[y]
    PROVE  SumFunction(g) = SumFunction(f) + d
<1> DEFINE h == Without(f, S, x)
<1>1. h \in [S \ {x} -> Nat] /\ h = Without(g, S, x)
  BY DEF Without
<1>2. IsFiniteSet(S \ {x})
  BY FS_RemoveElement
<1>3. SumFunction(f) = f[x] + SumFunction(h)
  BY SumWithout
<1> HIDE DEF h
<1>5. SumFunction(g) = g[x] + SumFunction(h)
  BY <1>1, SumWithout
<1>4. SumFunction(h) \in Nat /\ f[x] \in Nat
  BY <1>1, <1>2, SumTypes
<1> QED BY <1>3, <1>4, <1>5

\* The sum of a column of a table, and the sums of its rows.
Column(t, D, v) == [i \in D |-> t[i][v]]
Rows(t, D) == [i \in D |-> SumFunction(t[i])]

\* Tables of natural numbers; one cell grows; all rows but one are alike.
IsTable(t, D, W) == IsFiniteSet(D) /\ IsFiniteSet(W) /\ \A i \in D : t[i] \in [W -> Nat]
Grows(t, u, D, W, x, v, d) ==
    /\ \A i \in D \ {x} : u[i] = t[i]
    /\ x \in D => /\ u[x][v] = t[x][v] + d
                  /\ \A y \in W \ {v} : u[x][y] = t[x][y]
OneMore(D, E, x) == x \in E /\ D = E \ {x}
Alike(t, u, D) == \A i \in D : u[i] = t[i]
Empty(t, x, W) == \A y \in W : t[x][y] = 0

\* The sums of a table of natural numbers are natural numbers.
LEMMA TableTypes ==
    ASSUME NEW D, NEW W, NEW t, IsTable(t, D, W)
    PROVE  /\ Rows(t, D) \in [D -> Nat] /\ SumFunction(Rows(t, D)) \in Nat
           /\ \A v \in W : /\ Column(t, D, v) \in [D -> Nat]
                           /\ SumFunction(Column(t, D, v)) \in Nat
<1>1. Rows(t, D) \in [D -> Nat]
  BY SumTypes DEF Rows, IsTable
<1>2. \A v \in W : Column(t, D, v) \in [D -> Nat]
  BY DEF Column, IsTable
<1> QED BY <1>1, <1>2, SumTypes DEF IsTable

\* One cell of a table grows.
LEMMA TableStep ==
    ASSUME NEW D, NEW W, NEW t, NEW u, IsTable(t, D, W), IsTable(u, D, W),
           NEW x, NEW v \in W, NEW d \in Nat, Grows(t, u, D, W, x, v, d)
    PROVE  /\ SumFunction(Rows(u, D)) =
                  SumFunction(Rows(t, D)) + (IF x \in D THEN d ELSE 0)
           /\ \A y \in W : SumFunction(Column(u, D, y)) =
                  SumFunction(Column(t, D, y)) + (IF x \in D /\ y = v THEN d ELSE 0)
<1>0. /\ Rows(t, D) \in [D -> Nat] /\ SumFunction(Rows(t, D)) \in Nat
      /\ Rows(u, D) \in [D -> Nat]
      /\ \A y \in W : /\ Column(t, D, y) \in [D -> Nat] /\ Column(u, D, y) \in [D -> Nat]
                      /\ SumFunction(Column(t, D, y)) \in Nat
  BY TableTypes
<1>1. CASE x \notin D
  <2>1. Rows(u, D) = Rows(t, D) /\ \A y \in W : Column(u, D, y) = Column(t, D, y)
    BY <1>1 DEF Rows, Column, Grows
  <2> QED BY <1>0, <1>1, <2>1
<1>2. CASE x \in D
  <2>1. SumFunction(u[x]) = SumFunction(t[x]) + d
    BY <1>2, SumStep DEF IsTable, Grows
  <2>2. /\ Rows(u, D)[x] = Rows(t, D)[x] + d
        /\ \A i \in D \ {x} : Rows(u, D)[i] = Rows(t, D)[i]
    BY <1>2, <2>1 DEF Rows, Grows
  <2>3. SumFunction(Rows(u, D)) = SumFunction(Rows(t, D)) + d
    BY <1>0, <1>2, <2>2, SumStep DEF IsTable
  <2>4. ASSUME NEW y \in W, y # v
        PROVE  SumFunction(Column(u, D, y)) = SumFunction(Column(t, D, y))
    <3>1. Column(u, D, y) = Column(t, D, y)
      BY <1>2, <2>4 DEF Column, Grows
    <3> QED BY <3>1
  <2>5. SumFunction(Column(u, D, v)) = SumFunction(Column(t, D, v)) + d
    <3>1. /\ Column(u, D, v)[x] = Column(t, D, v)[x] + d
          /\ \A i \in D \ {x} : Column(u, D, v)[i] = Column(t, D, v)[i]
      BY <1>2 DEF Column, Grows
    <3>2. Column(t, D, v) \in [D -> Nat] /\ Column(u, D, v) \in [D -> Nat]
      BY <1>0
    <3> QED BY <1>2, <3>1, <3>2, SumStep DEF IsTable
  <2> QED BY <1>0, <1>2, <2>3, <2>4, <2>5
<1> QED BY <1>1, <1>2

\* A row is taken out of a table, or added to it.
LEMMA TableRow ==
    ASSUME NEW D, NEW E, NEW W, NEW x, NEW t, NEW u,
           OneMore(D, E, x), IsTable(u, E, W), Alike(t, u, D)
    PROVE  /\ SumFunction(Rows(u, E)) = SumFunction(u[x]) + SumFunction(Rows(t, D))
           /\ \A y \in W :
                 SumFunction(Column(u, E, y)) = u[x][y] + SumFunction(Column(t, D, y))
<1>0. x \in E /\ D = E \ {x} /\ IsFiniteSet(E)
  BY DEF OneMore, IsTable
<1>1. /\ Rows(u, E) \in [E -> Nat] /\ \A y \in W : Column(u, E, y) \in [E -> Nat]
  BY TableTypes
<1>2. Rows(u, E)[x] = SumFunction(u[x]) /\ Rows(t, D) = Without(Rows(u, E), E, x)
  BY <1>0 DEF Rows, Without, Alike
<1>3. \A y \in W : /\ Column(u, E, y)[x] = u[x][y]
                   /\ Column(t, D, y) = Without(Column(u, E, y), E, x)
  BY <1>0 DEF Column, Without, Alike
<1>4. \A f \in [E -> Nat] : SumFunction(f) = f[x] + SumFunction(Without(f, E, x))
  BY <1>0, SumWithout
<1>5. SumFunction(Rows(u, E)) = SumFunction(u[x]) + SumFunction(Rows(t, D))
  BY <1>1, <1>2, <1>4
<1>6. ASSUME NEW y \in W
      PROVE  SumFunction(Column(u, E, y)) = u[x][y] + SumFunction(Column(t, D, y))
  BY <1>1, <1>3, <1>4, <1>6
<1> QED BY <1>5, <1>6

\* A row of zeros adds nothing.
LEMMA TableZeros ==
    ASSUME NEW D, NEW E, NEW W, NEW x, NEW t, NEW u,
           OneMore(D, E, x), IsTable(u, E, W), IsTable(t, D, W), Alike(t, u, D),
           Empty(u, x, W)
    PROVE  /\ SumFunction(Rows(u, E)) = SumFunction(Rows(t, D))
           /\ \A y \in W : SumFunction(Column(u, E, y)) = SumFunction(Column(t, D, y))
<1>1. SumFunction(u[x]) = 0
  BY SumTypes DEF IsTable, Empty, OneMore
<1>2. /\ SumFunction(Rows(t, D)) \in Nat
      /\ \A y \in W : SumFunction(Column(t, D, y)) \in Nat
  BY TableTypes
<1>3. SumFunction(Rows(u, E)) = SumFunction(u[x]) + SumFunction(Rows(t, D))
  BY TableRow
<1>4. ASSUME NEW y \in W
      PROVE  SumFunction(Column(u, E, y)) = SumFunction(Column(t, D, y))
  <2>1. SumFunction(Column(u, E, y)) = u[x][y] + SumFunction(Column(t, D, y))
    BY <1>4, TableRow
  <2>2. u[x][y] = 0 /\ SumFunction(Column(t, D, y)) \in Nat
    BY <1>2, <1>4 DEF Empty
  <2> QED BY <2>1, <2>2
<1> QED BY <1>1, <1>2, <1>3, <1>4

(***************************************************************************)
(* The invariant.                                                          *)
(***************************************************************************)

\* The statistics as tables of numbers, one row per shard.
Counts == [i \in DOMAIN shards |-> [wl \in Workloads |-> shards[i][wl].count]]
Errors == [i \in DOMAIN shards |-> [wl \in Workloads |-> shards[i][wl].errors]]
TrueCounts == [wl \in Workloads |-> truth[wl].count]
TrueErrors == [wl \in Workloads |-> truth[wl].errors]

\* Types, and what a reader holds; a worker's shard exists.
Typed ==
    /\ Fallback \in DOMAIN shards /\ DOMAIN shards \subseteq ShardIds
    /\ shards \in [DOMAIN shards -> [Workloads -> Stats]]
    /\ holds \subseteq Workers /\ ops \in [Workers -> 0 .. MaxOps]
    /\ \A w \in holds : ShardIdOf[w] \in DOMAIN shards
    /\ truth \in [Workloads -> [count : Nat, errors : Nat, latencies : SUBSET Latencies]]
    /\ shown \in Pair /\ low \in Pair
    /\ tick \in {Idle} \cup [pc : {"sum"}, todo : SUBSET DOMAIN shards, acc : Pair]
    /\ \/ snap = Idle
       \/ snap \in [pc : {"merge"}, todo : SUBSET DOMAIN shards,
                    acc : [Workloads -> Stats]]
       \/ snap \in [pc : {"done"}, acc : [Workloads -> Stats]]

\* The shards hold every record, by workload and all together.
Complete ==
    /\ \A wl \in Workloads :
          /\ SumFunction(Column(Counts, DOMAIN shards, wl)) = truth[wl].count
          /\ SumFunction(Column(Errors, DOMAIN shards, wl)) = truth[wl].errors
    /\ SumFunction(Rows(Counts, DOMAIN shards)) = SumFunction(TrueCounts)
    /\ SumFunction(Rows(Errors, DOMAIN shards)) = SumFunction(TrueErrors)

\* A minimum is one that was recorded or the sentinel, and a sample is there as
\* soon as there is an error.
Sound(st, wl) ==
    /\ st.latMin = HdrMax \/ st.latMin \in truth[wl].latencies
    /\ st.sample = NoMessage <=> st.errors = 0

Extremes ==
    \A wl \in Workloads :
        /\ \A i \in DOMAIN shards : Sound(shards[i][wl], wl)
        /\ \A l \in truth[wl].latencies : \E i \in DOMAIN shards : shards[i][wl].latMin <= l

\* What Totals has summed and has still to read lies between the true totals at
\* its start and now; what it showed before does not exceed them.
Reading ==
    /\ tick = Idle =>
          /\ low.count <= shown.count /\ shown.count <= SumFunction(TrueCounts)
          /\ low.errors <= shown.errors /\ shown.errors <= SumFunction(TrueErrors)
    /\ tick # Idle =>
          LET c == tick.acc.count + SumFunction(Rows(Counts, tick.todo))
              e == tick.acc.errors + SumFunction(Rows(Errors, tick.todo)) IN
          /\ shown.count <= low.count /\ low.count <= c /\ c <= SumFunction(TrueCounts)
          /\ shown.errors <= low.errors /\ low.errors <= e /\ e <= SumFunction(TrueErrors)

\* What Snapshot has merged and has still to merge is what was recorded.
Unmerged(wl) ==
    /\ snap.acc[wl].count + SumFunction(Column(Counts, snap.todo, wl)) = truth[wl].count
    /\ snap.acc[wl].errors + SumFunction(Column(Errors, snap.todo, wl)) = truth[wl].errors
    /\ Sound(snap.acc[wl], wl)
    /\ \A l \in truth[wl].latencies :
          snap.acc[wl].latMin <= l \/ \E i \in snap.todo : shards[i][wl].latMin <= l

Final(wl) ==
    /\ snap.acc[wl].count = truth[wl].count
    /\ snap.acc[wl].errors = truth[wl].errors
    /\ snap.acc[wl].sample = NoMessage <=> snap.acc[wl].errors = 0
    /\ \E m \in 0 .. HdrMax :
          /\ m = HdrMax \/ m \in truth[wl].latencies
          /\ \A l \in truth[wl].latencies : m <= l
          /\ snap.acc[wl].latMin = IF m = HdrMax THEN 0 ELSE m

Merging ==
    /\ snap.pc = "merge" => \A wl \in Workloads : Unmerged(wl)
    /\ snap.pc = "done" => \A wl \in Workloads : Final(wl)

Inv == Typed /\ Complete /\ Extremes /\ Reading /\ Merging

\* There are finitely many workloads and shards.
LEMMA FiniteNames == IsFiniteSet(Workloads) /\ IsFiniteSet(ShardIds)
<1>1. IsFiniteSet(Workloads)
  <2> DEFINE f == [w \in Workers |-> WorkloadOf[w]]
  <2>1. f \in Surjection(Workers, Workloads)
    BY DEF Surjection, Workloads
  <2> QED BY <2>1, CollectorAssumption, FS_Surjection
<1>2. IsFiniteSet({ShardIdOf[w] : w \in Workers})
  <2> DEFINE f == [w \in Workers |-> ShardIdOf[w]]
             T == {ShardIdOf[w] : w \in Workers}
  <2>1. f \in Surjection(Workers, T)
    BY DEF Surjection
  <2> QED BY <2>1, CollectorAssumption, FS_Surjection
<1>3. IsFiniteSet(ShardIds)
  <2> DEFINE T == {ShardIdOf[w] : w \in Workers}
  <2> HIDE DEF T
  <2>1. IsFiniteSet(T \cup {Fallback})
    BY <1>2, FS_AddElement DEF T
  <2> QED BY <2>1 DEF ShardIds, T
<1> QED BY <1>1, <1>3

\* The statistics of an operation and of a shard stay statistics.
LEMMA StatsTypes ==
    /\ NoStats \in Stats /\ NewShard \in [Workloads -> Stats]
    /\ \A s \in Stats, lat \in Latencies, msg \in Messages \cup {NoMessage} :
          Recorded(s, lat, msg) \in Stats
    /\ \A s \in Stats, t \in Stats : Merged(s, t) \in Stats
    /\ \A s \in Stats : Normalised(s) \in Stats
<1>0. HdrMax \in Nat /\ Latencies \subseteq Nat
  BY CollectorAssumption
<1>1. NoStats \in Stats
  BY <1>0 DEF NoStats, Stats
<1>2. ASSUME NEW s \in Stats, NEW lat \in Latencies, NEW msg \in Messages \cup {NoMessage}
      PROVE  Recorded(s, lat, msg) \in Stats
  BY <1>0, <1>2 DEF Recorded, Stats, Lower
<1>3. ASSUME NEW s \in Stats, NEW t \in Stats PROVE Merged(s, t) \in Stats
  BY <1>0, <1>3 DEF Merged, Stats, Lower
<1>4. ASSUME NEW s \in Stats PROVE Normalised(s) \in Stats
  BY <1>0, <1>4 DEF Normalised, Stats
<1> QED BY <1>1, <1>2, <1>3, <1>4 DEF NewShard

\* The tables hold natural numbers.
LEMMA TablesTyped ==
    ASSUME Typed
    PROVE  /\ \A T \in SUBSET DOMAIN shards : /\ IsTable(Counts, T, Workloads)
                                              /\ IsTable(Errors, T, Workloads)
           /\ IsFiniteSet(Workloads) /\ IsFiniteSet(DOMAIN shards)
           /\ \A i \in DOMAIN shards : /\ Counts[i] \in [Workloads -> Nat]
                                       /\ Errors[i] \in [Workloads -> Nat]
           /\ TrueCounts \in [Workloads -> Nat] /\ TrueErrors \in [Workloads -> Nat]
<1>1. IsFiniteSet(DOMAIN shards)
  BY FiniteNames, FS_Subset DEF Typed
<1>2. ASSUME NEW i \in DOMAIN shards
      PROVE  Counts[i] \in [Workloads -> Nat] /\ Errors[i] \in [Workloads -> Nat]
  BY <1>2 DEF Typed, Counts, Errors, Stats
<1>3. TrueCounts \in [Workloads -> Nat] /\ TrueErrors \in [Workloads -> Nat]
  BY DEF Typed, TrueCounts, TrueErrors
<1>4. \A T \in SUBSET DOMAIN shards : IsFiniteSet(T)
  BY <1>1, FS_Subset
<1> QED BY <1>1, <1>2, <1>3, <1>4, FiniteNames DEF IsTable

\* What Totals reads of a shard, and of the history.
LEMMA SumsMean ==
    ASSUME Typed
    PROVE  /\ \A i \in DOMAIN shards :
                 Sums(shards[i]) = [count  |-> SumFunction(Counts[i]),
                                    errors |-> SumFunction(Errors[i])]
           /\ Sums(truth) = [count  |-> SumFunction(TrueCounts),
                             errors |-> SumFunction(TrueErrors)]
           /\ \A i \in DOMAIN shards : Sums(shards[i]) \in Pair
           /\ Sums(truth) \in Pair
<1>1. \A i \in DOMAIN shards :
         Sums(shards[i]) = [count  |-> SumFunction(Counts[i]),
                            errors |-> SumFunction(Errors[i])]
  BY DEF Sums, Counts, Errors
<1>2. Sums(truth) = [count  |-> SumFunction(TrueCounts),
                     errors |-> SumFunction(TrueErrors)]
  BY DEF Sums, TrueCounts, TrueErrors
<1>3. /\ \A i \in DOMAIN shards :
            SumFunction(Counts[i]) \in Nat /\ SumFunction(Errors[i]) \in Nat
      /\ SumFunction(TrueCounts) \in Nat /\ SumFunction(TrueErrors) \in Nat
  BY TablesTyped, SumTypes
<1> QED BY <1>1, <1>2, <1>3 DEF Pair

(***************************************************************************)
(* The steps of the workers.                                               *)
(***************************************************************************)

\* One record changes one cell.
Changes(i, v, lat, msg) ==
    /\ DOMAIN shards' = DOMAIN shards
    /\ shards' \in [DOMAIN shards -> [Workloads -> Stats]]
    /\ shards'[i][v] = Recorded(shards[i][v], lat, msg)
    /\ \A u \in Workloads \ {v} : shards'[i][u] = shards[i][u]
    /\ \A j \in DOMAIN shards \ {i} : shards'[j] = shards[j]
    /\ truth'[v] = Observed(truth[v], lat, msg)
    /\ \A u \in Workloads \ {v} : truth'[u] = truth[u]

\* It does nothing else, and only while the workers run.
LEMMA RecordShape ==
    ASSUME Typed, NEW w \in Workers, Record(w)
    PROVE  /\ \E i \in DOMAIN shards, v \in Workloads,
                 lat \in Latencies, msg \in Messages \cup {NoMessage} :
                 Changes(i, v, lat, msg)
           /\ truth' \in [Workloads ->
                            [count : Nat, errors : Nat, latencies : SUBSET Latencies]]
           /\ ops' \in [Workers -> 0 .. MaxOps]
           /\ snap = Idle /\ UNCHANGED <<holds, tick, shown, snap, low>>
<1> DEFINE i == ShardIdOf[w]
           v == WorkloadOf[w]
<1>1. PICK lat \in Latencies, msg \in Messages \cup {NoMessage} :
         /\ shards' = [shards EXCEPT
              ![i] = [shards[i] EXCEPT ![v] = Recorded(shards[i][v], lat, msg)]]
         /\ truth' = [truth EXCEPT ![v] = Observed(truth[v], lat, msg)]
  BY DEF Record
<1>2. /\ i \in DOMAIN shards /\ v \in Workloads
      /\ snap = Idle /\ UNCHANGED <<holds, tick, shown, snap, low>>
  BY DEF Record, Running, Typed, Workloads
<1>3. ops' \in [Workers -> 0 .. MaxOps]
  BY CollectorAssumption DEF Record, Typed
<1>4. shards[i] \in [Workloads -> Stats] /\ shards[i][v] \in Stats
  BY <1>2 DEF Typed
<1> DEFINE n == Recorded(shards[i][v], lat, msg)
<1>5. n \in Stats
  BY <1>4, StatsTypes
<1>6. truth[v] \in [count : Nat, errors : Nat, latencies : SUBSET Latencies]
  BY <1>2 DEF Typed
<1> DEFINE o == Observed(truth[v], lat, msg)
<1>7. o \in [count : Nat, errors : Nat, latencies : SUBSET Latencies]
  BY <1>6 DEF Observed
<1> HIDE DEF n, o, i, v
<1>8. /\ DOMAIN shards' = DOMAIN shards /\ shards'[i][v] = n
      /\ shards' \in [DOMAIN shards -> [Workloads -> Stats]]
      /\ \A u \in Workloads \ {v} : shards'[i][u] = shards[i][u]
      /\ \A j \in DOMAIN shards \ {i} : shards'[j] = shards[j]
  BY <1>1, <1>2, <1>4, <1>5 DEF Typed, n
<1>9. /\ truth'[v] = o /\ \A u \in Workloads \ {v} : truth'[u] = truth[u]
      /\ truth' \in [Workloads -> [count : Nat, errors : Nat, latencies : SUBSET Latencies]]
  BY <1>1, <1>2, <1>7 DEF Typed, o
<1>10. Changes(i, v, lat, msg)
  BY <1>8, <1>9 DEF Changes, n, o
<1> QED BY <1>2, <1>3, <1>9, <1>10

\* A new shard is an empty row.
LEMMA ShardForShape ==
    ASSUME Typed, NEW w \in Workers, ShardFor(w)
    PROVE  /\ DOMAIN shards' = DOMAIN shards \cup {ShardIdOf[w]}
           /\ shards' \in [DOMAIN shards' -> [Workloads -> Stats]]
           /\ \A i \in DOMAIN shards : shards'[i] = shards[i]
           /\ \A i \in DOMAIN shards' : i \notin DOMAIN shards => shards'[i] = NewShard
           /\ snap = Idle /\ UNCHANGED <<ops, tick, shown, snap, truth, low>>
<1> DEFINE x == ShardIdOf[w]
<1>1. /\ snap = Idle /\ UNCHANGED <<ops, tick, shown, snap, truth, low>>
      /\ shards' = [j \in DOMAIN shards \cup {x} |->
                       IF j \in DOMAIN shards THEN shards[j] ELSE NewShard]
  BY DEF ShardFor, SharedShard, Running
<1>2. shards \in [DOMAIN shards -> [Workloads -> Stats]]
  BY DEF Typed
<1> HIDE DEF x
<1> QED BY <1>1, <1>2, StatsTypes DEF x

\* Types are kept.
LEMMA TypedStep ==
    ASSUME Typed, [Next]_vars
    PROVE  Typed'
<1>1. ASSUME NEW w \in Workers, ShardFor(w) PROVE Typed'
  <2>1. holds' = holds \cup {w} /\ ShardIdOf[w] \in ShardIds
    BY <1>1 DEF ShardFor, ShardIds
  <2>2. /\ DOMAIN shards' = DOMAIN shards \cup {ShardIdOf[w]}
        /\ shards' \in [DOMAIN shards' -> [Workloads -> Stats]]
        /\ snap = Idle /\ UNCHANGED <<ops, tick, shown, snap, truth, low>>
    BY <1>1, ShardForShape
  <2>3. Fallback \in DOMAIN shards' /\ DOMAIN shards' \subseteq ShardIds
    BY <2>1, <2>2 DEF Typed
  <2>4. /\ holds' \subseteq Workers
        /\ \A u \in holds' : ShardIdOf[u] \in DOMAIN shards'
    BY <2>1, <2>2 DEF Typed
  <2>5. tick' \in {Idle} \cup [pc : {"sum"}, todo : SUBSET DOMAIN shards', acc : Pair]
    <3>1. SUBSET DOMAIN shards \subseteq SUBSET DOMAIN shards'
      BY <2>2
    <3> QED BY <2>2, <3>1 DEF Typed
  <2> QED BY <2>2, <2>3, <2>4, <2>5 DEF Typed
<1>2. ASSUME NEW w \in Workers, Record(w) PROVE Typed'
  <2>1. /\ DOMAIN shards' = DOMAIN shards
        /\ shards' \in [DOMAIN shards -> [Workloads -> Stats]]
        /\ truth' \in [Workloads -> [count : Nat, errors : Nat, latencies : SUBSET Latencies]]
        /\ ops' \in [Workers -> 0 .. MaxOps]
        /\ UNCHANGED <<holds, tick, shown, snap, low>>
    BY <1>2, RecordShape DEF Changes
  <2> QED BY <2>1 DEF Typed
<1>3. CASE TotalsBegin
  <2>1. /\ tick' = [pc |-> "sum", todo |-> DOMAIN shards, acc |-> Zero]
        /\ low' = Sums(truth) /\ UNCHANGED <<shards, holds, ops, shown, snap, truth>>
    BY <1>3 DEF TotalsBegin, AllShards
  <2>2. low' \in Pair /\ Zero \in Pair
    BY <2>1, SumsMean DEF Zero, Pair
  <2> QED BY <2>1, <2>2 DEF Typed
<1>4. CASE TotalsAdd
  <2>1. PICK i \in tick.todo : tick' = [pc |-> "sum", todo |-> tick.todo \ {i},
                                        acc |-> Plus(tick.acc, Sums(shards[i]))]
    BY <1>4 DEF TotalsAdd
  <2>2. tick.pc = "sum" /\ UNCHANGED <<shards, holds, ops, shown, snap, truth, low>>
    BY <1>4 DEF TotalsAdd
  <2>3. tick \in [pc : {"sum"}, todo : SUBSET DOMAIN shards, acc : Pair]
    BY <2>2 DEF Typed, Idle
  <2>4. Plus(tick.acc, Sums(shards[i])) \in Pair
    BY <2>1, <2>3, SumsMean DEF Plus, Pair
  <2>5. tick' \in [pc : {"sum"}, todo : SUBSET DOMAIN shards', acc : Pair]
    BY <2>1, <2>2, <2>3, <2>4
  <2> QED BY <2>2, <2>5 DEF Typed
<1>5. CASE TotalsEnd
  <2>1. shown' = tick.acc /\ tick' = Idle /\ tick.pc = "sum"
    BY <1>5 DEF TotalsEnd, TotalsRead
  <2>2. shown' \in Pair
    BY <2>1 DEF Typed, Idle
  <2> QED BY <1>5, <2>1, <2>2 DEF Typed, TotalsEnd
<1>6. CASE SnapshotBegin
  <2>1. /\ snap' = [pc |-> "merge", todo |-> DOMAIN shards, acc |-> NewShard]
        /\ UNCHANGED <<shards, holds, ops, tick, shown, truth, low>>
    BY <1>6 DEF SnapshotBegin, AllShards
  <2> QED BY <2>1, StatsTypes DEF Typed
<1>7. CASE SnapshotMerge
  <2>1. PICK i \in snap.todo :
           snap' = [pc |-> "merge", todo |-> snap.todo \ {i},
                    acc |-> [wl \in Workloads |-> Merged(snap.acc[wl], shards[i][wl])]]
    BY <1>7 DEF SnapshotMerge
  <2>2. snap.pc = "merge" /\ UNCHANGED <<shards, holds, ops, tick, shown, truth, low>>
    BY <1>7 DEF SnapshotMerge
  <2>3. snap \in [pc : {"merge"}, todo : SUBSET DOMAIN shards, acc : [Workloads -> Stats]]
    BY <2>2 DEF Typed, Idle
  <2>4. \A wl \in Workloads : Merged(snap.acc[wl], shards[i][wl]) \in Stats
    BY <2>1, <2>3, StatsTypes DEF Typed
  <2>5. snap' \in [pc : {"merge"}, todo : SUBSET DOMAIN shards', acc : [Workloads -> Stats]]
    BY <2>1, <2>2, <2>3, <2>4
  <2> QED BY <2>2, <2>5 DEF Typed
<1>8. CASE SnapshotEnd
  <2>1. /\ snap' = [pc |-> "done",
                    acc |-> [wl \in Workloads |-> Normalised(snap.acc[wl])]]
        /\ snap.pc = "merge" /\ UNCHANGED <<shards, holds, ops, tick, shown, truth, low>>
    BY <1>8 DEF SnapshotEnd
  <2>2. snap.acc \in [Workloads -> Stats]
    BY <2>1 DEF Typed, Idle
  <2>3. snap' \in [pc : {"done"}, acc : [Workloads -> Stats]]
    BY <2>1, <2>2, StatsTypes
  <2> QED BY <2>1, <2>3 DEF Typed
<1>9. CASE UNCHANGED vars
  BY <1>9 DEF Typed, vars
<1> QED BY <1>1, <1>2, <1>3, <1>4, <1>5, <1>6, <1>7, <1>8, <1>9 DEF Next, Terminated

\* What a record adds to the sums, e being 1 if it is one of an error.
Adds(i, v, e) ==
    /\ DOMAIN shards' = DOMAIN shards
    /\ \A T \in SUBSET DOMAIN shards :
          /\ SumFunction(Rows(Counts', T)) =
                SumFunction(Rows(Counts, T)) + (IF i \in T THEN 1 ELSE 0)
          /\ SumFunction(Rows(Errors', T)) =
                SumFunction(Rows(Errors, T)) + (IF i \in T THEN e ELSE 0)
          /\ \A u \in Workloads :
                /\ SumFunction(Column(Counts', T, u)) =
                      SumFunction(Column(Counts, T, u))
                         + (IF i \in T /\ u = v THEN 1 ELSE 0)
                /\ SumFunction(Column(Errors', T, u)) =
                      SumFunction(Column(Errors, T, u))
                         + (IF i \in T /\ u = v THEN e ELSE 0)
    /\ SumFunction(TrueCounts') = SumFunction(TrueCounts) + 1
    /\ SumFunction(TrueErrors') = SumFunction(TrueErrors) + e
    /\ truth'[v].count = truth[v].count + 1
    /\ truth'[v].errors = truth[v].errors + e
    /\ \A u \in Workloads \ {v} : truth'[u] = truth[u]

\* A record adds one everywhere.
LEMMA RecordSums ==
    ASSUME Typed, Typed', NEW w \in Workers, Record(w)
    PROVE  \E i \in DOMAIN shards, v \in Workloads, e \in {0, 1} : Adds(i, v, e)
<1>0. PICK i \in DOMAIN shards, v \in Workloads,
           lat \in Latencies, msg \in Messages \cup {NoMessage} : Changes(i, v, lat, msg)
  BY RecordShape
<1>1. /\ DOMAIN shards' = DOMAIN shards
      /\ shards'[i][v] = Recorded(shards[i][v], lat, msg)
      /\ \A u \in Workloads \ {v} : shards'[i][u] = shards[i][u]
      /\ \A j \in DOMAIN shards \ {i} : shards'[j] = shards[j]
      /\ truth'[v] = Observed(truth[v], lat, msg)
      /\ \A u \in Workloads \ {v} : truth'[u] = truth[u]
  BY <1>0 DEF Changes
<1> DEFINE e == IF msg = NoMessage THEN 0 ELSE 1
           D == DOMAIN shards
<1>2. e \in {0, 1} /\ 1 \in Nat /\ e \in Nat
  OBVIOUS
<1>3. /\ shards'[i][v].count = shards[i][v].count + 1
      /\ shards'[i][v].errors = shards[i][v].errors + e
      /\ truth'[v].count = truth[v].count + 1
      /\ truth'[v].errors = truth[v].errors + e
  BY <1>1 DEF Recorded, Observed
<1> HIDE DEF e
<1>4. /\ \A T \in SUBSET D : IsTable(Counts, T, Workloads) /\ IsTable(Errors, T, Workloads)
      /\ IsFiniteSet(Workloads)
      /\ \A j \in D : Counts[j] \in [Workloads -> Nat] /\ Errors[j] \in [Workloads -> Nat]
      /\ TrueCounts \in [Workloads -> Nat] /\ TrueErrors \in [Workloads -> Nat]
  BY TablesTyped
<1>5. /\ \A j \in D : Counts'[j] \in [Workloads -> Nat] /\ Errors'[j] \in [Workloads -> Nat]
      /\ TrueCounts' \in [Workloads -> Nat] /\ TrueErrors' \in [Workloads -> Nat]
  <2>1. /\ \A j \in DOMAIN shards' : shards'[j] \in [Workloads -> Stats]
        /\ truth' \in [Workloads -> [count : Nat, errors : Nat, latencies : SUBSET Latencies]]
    BY DEF Typed
  <2> QED BY <1>1, <2>1 DEF Counts, Errors, TrueCounts, TrueErrors, Stats
<1>6. /\ Counts'[i][v] = Counts[i][v] + 1
      /\ Errors'[i][v] = Errors[i][v] + e
      /\ \A u \in Workloads \ {v} :
            Counts'[i][u] = Counts[i][u] /\ Errors'[i][u] = Errors[i][u]
      /\ \A j \in D \ {i} : Counts'[j] = Counts[j] /\ Errors'[j] = Errors[j]
  BY <1>1, <1>3 DEF Counts, Errors
<1>7. /\ TrueCounts'[v] = TrueCounts[v] + 1
      /\ TrueErrors'[v] = TrueErrors[v] + e
      /\ \A u \in Workloads \ {v} :
            TrueCounts'[u] = TrueCounts[u] /\ TrueErrors'[u] = TrueErrors[u]
  BY <1>1, <1>3 DEF TrueCounts, TrueErrors
<1>8. /\ SumFunction(TrueCounts') = SumFunction(TrueCounts) + 1
      /\ SumFunction(TrueErrors') = SumFunction(TrueErrors) + e
  BY <1>2, <1>4, <1>5, <1>7, SumStep, SMTT(30)
<1>9. ASSUME NEW T \in SUBSET D
      PROVE  /\ SumFunction(Rows(Counts', T)) =
                   SumFunction(Rows(Counts, T)) + (IF i \in T THEN 1 ELSE 0)
             /\ \A u \in Workloads :
                   SumFunction(Column(Counts', T, u)) =
                      SumFunction(Column(Counts, T, u))
                         + (IF i \in T /\ u = v THEN 1 ELSE 0)
  <2>1. IsTable(Counts, T, Workloads)
    BY <1>4, <1>9
  <2>2. IsTable(Counts', T, Workloads)
    BY <1>5, <1>9, <2>1 DEF IsTable
  <2>3. Grows(Counts, Counts', T, Workloads, i, v, 1)
    BY <1>6, <1>9 DEF Grows
  <2> QED BY <1>2, <2>1, <2>2, <2>3, TableStep
<1>10. ASSUME NEW T \in SUBSET D
      PROVE  /\ SumFunction(Rows(Errors', T)) =
                   SumFunction(Rows(Errors, T)) + (IF i \in T THEN e ELSE 0)
             /\ \A u \in Workloads :
                   SumFunction(Column(Errors', T, u)) =
                      SumFunction(Column(Errors, T, u))
                         + (IF i \in T /\ u = v THEN e ELSE 0)
  <2>1. IsTable(Errors, T, Workloads)
    BY <1>4, <1>10
  <2>2. IsTable(Errors', T, Workloads)
    BY <1>5, <1>10, <2>1 DEF IsTable
  <2>3. Grows(Errors, Errors', T, Workloads, i, v, e)
    BY <1>6, <1>10 DEF Grows
  <2> QED BY <1>2, <2>1, <2>2, <2>3, TableStep
<1>11. Adds(i, v, e)
  BY <1>1, <1>3, <1>8, <1>9, <1>10 DEF Adds
<1> QED BY <1>2, <1>11

\* A new shard adds nothing.
LEMMA ShardForSums ==
    ASSUME Typed, Typed', NEW w \in Workers, ShardFor(w)
    PROVE  /\ DOMAIN shards \subseteq DOMAIN shards'
           /\ UNCHANGED <<tick, shown, snap, low, truth>>
           /\ \A T \in SUBSET DOMAIN shards :
                 Rows(Counts', T) = Rows(Counts, T) /\ Rows(Errors', T) = Rows(Errors, T)
           /\ SumFunction(Rows(Counts', DOMAIN shards')) =
                 SumFunction(Rows(Counts, DOMAIN shards))
           /\ SumFunction(Rows(Errors', DOMAIN shards')) =
                 SumFunction(Rows(Errors, DOMAIN shards))
           /\ \A u \in Workloads :
                 /\ SumFunction(Column(Counts', DOMAIN shards', u)) =
                       SumFunction(Column(Counts, DOMAIN shards, u))
                 /\ SumFunction(Column(Errors', DOMAIN shards', u)) =
                       SumFunction(Column(Errors, DOMAIN shards, u))
<1> DEFINE D == DOMAIN shards
           x == ShardIdOf[w]
           E == DOMAIN shards'
<1>1. /\ E = D \cup {x} /\ UNCHANGED <<tick, shown, snap, low, truth>>
      /\ \A i \in D : shards'[i] = shards[i]
      /\ \A i \in E : i \notin D => shards'[i] = NewShard
      /\ \A i \in E : shards'[i] \in [Workloads -> Stats]
  BY ShardForShape
<1>2. /\ IsTable(Counts, D, Workloads) /\ IsTable(Errors, D, Workloads)
      /\ IsFiniteSet(D) /\ IsFiniteSet(Workloads)
      /\ \A i \in D : Counts[i] \in [Workloads -> Nat] /\ Errors[i] \in [Workloads -> Nat]
  BY TablesTyped
<1>3. /\ \A i \in E : Counts'[i] \in [Workloads -> Nat] /\ Errors'[i] \in [Workloads -> Nat]
      /\ \A i \in D : Counts'[i] = Counts[i] /\ Errors'[i] = Errors[i]
  BY <1>1 DEF Counts, Errors, Stats
<1>4. \A T \in SUBSET D : /\ Rows(Counts', T) = Rows(Counts, T)
                          /\ Rows(Errors', T) = Rows(Errors, T)
                          /\ \A u \in Workloads :
                                /\ Column(Counts', T, u) = Column(Counts, T, u)
                                /\ Column(Errors', T, u) = Column(Errors, T, u)
  BY <1>3 DEF Rows, Column
<1>5. CASE x \in D
  <2>1. E = D
    BY <1>1, <1>5
  <2> HIDE DEF D, E, x
  <2> QED BY <1>1, <1>4, <2>1 DEF D, E
<1>6. CASE x \notin D
  <2>1. x \in E /\ E \ {x} = D /\ shards'[x] = NewShard
    BY <1>1, <1>6
  <2>2. IsFiniteSet(E)
    BY <1>1, <1>2, FS_AddElement, SMTT(30)
  <2>3. Empty(Counts', x, Workloads) /\ Empty(Errors', x, Workloads)
    BY <2>1 DEF Counts, Errors, NewShard, NoStats, Empty
  <2>4. /\ OneMore(D, E, x) /\ Alike(Counts, Counts', D) /\ Alike(Errors, Errors', D)
        /\ IsTable(Counts', E, Workloads) /\ IsTable(Errors', E, Workloads)
    BY <1>2, <1>3, <2>1, <2>2 DEF Alike, IsTable, OneMore
  <2> HIDE DEF D, E, x
  <2>5. /\ SumFunction(Rows(Counts', E)) = SumFunction(Rows(Counts, D))
        /\ \A u \in Workloads :
              SumFunction(Column(Counts', E, u)) = SumFunction(Column(Counts, D, u))
    BY <1>2, <2>3, <2>4, TableZeros
  <2>6. /\ SumFunction(Rows(Errors', E)) = SumFunction(Rows(Errors, D))
        /\ \A u \in Workloads :
              SumFunction(Column(Errors', E, u)) = SumFunction(Column(Errors, D, u))
    BY <1>2, <2>3, <2>4, TableZeros
  <2> QED BY <1>1, <1>4, <2>5, <2>6 DEF D, E
<1> QED BY <1>5, <1>6

\* The steps that neither make a shard nor record leave the tables alone.
LEMMA OtherSteps ==
    ASSUME [Next]_vars
    PROVE  \/ \E w \in Workers : ShardFor(w)
           \/ \E w \in Workers : Record(w)
           \/ UNCHANGED <<shards, truth>> /\ UNCHANGED <<snap>>
                 /\ (TotalsBegin \/ TotalsAdd \/ TotalsEnd)
           \/ UNCHANGED <<shards, truth, tick, shown, low>>
                 /\ (SnapshotBegin \/ SnapshotMerge \/ SnapshotEnd)
           \/ UNCHANGED vars
BY DEF Next, Terminated, TotalsBegin, TotalsAdd, TotalsEnd, SnapshotBegin, SnapshotMerge,
   SnapshotEnd

\* Nothing is lost in the shards.
LEMMA CompleteStep ==
    ASSUME Typed, Typed', Complete, [Next]_vars
    PROVE  Complete'
<1>0. /\ \A wl \in Workloads : /\ SumFunction(Column(Counts, DOMAIN shards, wl)) \in Nat
                               /\ SumFunction(Column(Errors, DOMAIN shards, wl)) \in Nat
      /\ SumFunction(Rows(Counts, DOMAIN shards)) \in Nat
      /\ SumFunction(Rows(Errors, DOMAIN shards)) \in Nat
  BY TablesTyped, TableTypes
<1>1. ASSUME NEW w \in Workers, ShardFor(w) PROVE Complete'
  <2>1. truth' = truth /\ TrueCounts' = TrueCounts /\ TrueErrors' = TrueErrors
    BY <1>1, ShardForSums DEF TrueCounts, TrueErrors
  <2> QED BY <1>1, <2>1, ShardForSums DEF Complete
<1>2. ASSUME NEW w \in Workers, Record(w) PROVE Complete'
  <2> DEFINE D == DOMAIN shards
  <2>1. PICK i \in DOMAIN shards, v \in Workloads, e \in {0, 1} : Adds(i, v, e)
    BY <1>2, RecordSums
  <2>2. D \in SUBSET DOMAIN shards
    OBVIOUS
  <2>3. /\ SumFunction(Rows(Counts', D)) = SumFunction(TrueCounts')
        /\ SumFunction(Rows(Errors', D)) = SumFunction(TrueErrors')
    BY <2>1, <2>2 DEF Complete, Adds
  <2>4. ASSUME NEW u \in Workloads
        PROVE  /\ SumFunction(Column(Counts', D, u)) = truth'[u].count
               /\ SumFunction(Column(Errors', D, u)) = truth'[u].errors
    <3>1. /\ SumFunction(Column(Counts, D, u)) = truth[u].count
          /\ SumFunction(Column(Errors, D, u)) = truth[u].errors
          /\ truth[u].count \in Nat /\ truth[u].errors \in Nat
      BY <2>4 DEF Complete, Typed
    <3>2. /\ SumFunction(Column(Counts', D, u)) =
                truth[u].count + (IF u = v THEN 1 ELSE 0)
          /\ SumFunction(Column(Errors', D, u)) =
                truth[u].errors + (IF u = v THEN e ELSE 0)
      BY <2>1, <2>2, <2>4, <3>1 DEF Adds
    <3> QED BY <2>1, <2>4, <3>1, <3>2 DEF Adds
  <2> QED BY <2>1, <2>3, <2>4 DEF Complete, Adds
<1>3. ASSUME UNCHANGED <<shards, truth>> PROVE Complete'
  <2>1. /\ Counts' = Counts /\ Errors' = Errors /\ DOMAIN shards' = DOMAIN shards
        /\ TrueCounts' = TrueCounts /\ TrueErrors' = TrueErrors /\ truth' = truth
    BY <1>3 DEF Counts, Errors, TrueCounts, TrueErrors
  <2> QED BY <2>1 DEF Complete
<1> QED BY <1>1, <1>2, <1>3, OtherSteps DEF vars

\* Minima and samples are those of recorded operations.
LEMMA ExtremesStep ==
    ASSUME Typed, Typed', Extremes, [Next]_vars
    PROVE  Extremes'
<1>1. ASSUME NEW w \in Workers, ShardFor(w) PROVE Extremes'
  <2>1. /\ truth' = truth /\ DOMAIN shards \subseteq DOMAIN shards'
        /\ \A i \in DOMAIN shards : shards'[i] = shards[i]
        /\ \A i \in DOMAIN shards' : i \notin DOMAIN shards => shards'[i] = NewShard
    BY <1>1, ShardForShape
  <2>2. \A wl \in Workloads : /\ NewShard[wl].latMin = HdrMax
                              /\ NewShard[wl].sample = NoMessage /\ NewShard[wl].errors = 0
    BY DEF NewShard, NoStats
  <2> QED BY <2>1, <2>2 DEF Extremes, Sound
<1>2. ASSUME NEW w \in Workers, Record(w) PROVE Extremes'
  <2>0. PICK i \in DOMAIN shards, v \in Workloads,
             lat \in Latencies, msg \in Messages \cup {NoMessage} : Changes(i, v, lat, msg)
    BY <1>2, RecordShape
  <2>1. /\ DOMAIN shards' = DOMAIN shards
        /\ shards'[i][v] = Recorded(shards[i][v], lat, msg)
        /\ \A u \in Workloads \ {v} : shards'[i][u] = shards[i][u]
        /\ \A j \in DOMAIN shards \ {i} : shards'[j] = shards[j]
        /\ truth'[v] = Observed(truth[v], lat, msg)
        /\ \A u \in Workloads \ {v} : truth'[u] = truth[u]
    BY <2>0 DEF Changes
  <2>2. /\ \A j \in DOMAIN shards, u \in Workloads : shards[j][u] \in Stats
        /\ Latencies \subseteq Nat /\ HdrMax \in Nat
        /\ \A u \in Workloads : truth[u].latencies \in SUBSET Nat
    BY CollectorAssumption DEF Typed
  <2>3. /\ truth'[v].latencies = truth[v].latencies \cup {lat}
        /\ shards'[i][v].latMin =
              IF lat < shards[i][v].latMin THEN lat ELSE shards[i][v].latMin
        /\ shards'[i][v].sample =
              IF shards[i][v].sample = NoMessage THEN msg ELSE shards[i][v].sample
        /\ shards'[i][v].errors =
              shards[i][v].errors + (IF msg = NoMessage THEN 0 ELSE 1)
    BY <2>1 DEF Recorded, Observed, Lower
  <2>4. shards[i][v].latMin \in Nat /\ shards[i][v].errors \in Nat /\ lat \in Nat
    BY <2>2 DEF Stats
  <2>5. Sound(shards[i][v], v)'
    <3>1. Sound(shards[i][v], v)
      BY DEF Extremes
    <3> QED BY <2>3, <2>4, <3>1 DEF Sound
  <2>6. /\ shards'[i][v].latMin <= shards[i][v].latMin
        /\ shards'[i][v].latMin <= lat
    BY <2>3, <2>4
  <2>7. ASSUME NEW u \in Workloads, NEW j \in DOMAIN shards'
        PROVE  Sound(shards[j][u], u)'
    <3>1. CASE j = i /\ u = v
      BY <2>5, <3>1
    <3>2. CASE ~(j = i /\ u = v)
      <4>1. shards'[j][u] = shards[j][u] /\ truth[u].latencies \subseteq truth'[u].latencies
        BY <2>1, <2>3, <2>7, <3>2
      <4>2. Sound(shards[j][u], u)
        BY <2>1, <2>7 DEF Extremes
      <4> QED BY <4>1, <4>2 DEF Sound
    <3> QED BY <3>1, <3>2
  <2>8. ASSUME NEW u \in Workloads, NEW l \in truth'[u].latencies
        PROVE  \E j \in DOMAIN shards' : shards'[j][u].latMin <= l
    <3>1. CASE u = v /\ l = lat
      BY <2>1, <2>6, <3>1
    <3>2. CASE ~(u = v /\ l = lat)
      <4>1. l \in truth[u].latencies
        BY <2>1, <2>3, <2>8, <3>2
      <4>2. PICK j \in DOMAIN shards : shards[j][u].latMin <= l
        BY <2>8, <4>1 DEF Extremes
      <4>3. l \in Nat /\ shards[j][u].latMin \in Nat
        BY <2>2, <2>8, <4>1 DEF Stats
      <4>4. CASE j = i /\ u = v
        <5>1. shards'[i][v].latMin \in Nat
          BY <2>3, <2>4
        <5> QED BY <2>1, <2>4, <2>6, <4>2, <4>3, <4>4, <5>1
      <4>5. CASE ~(j = i /\ u = v)
        BY <2>1, <2>8, <4>2, <4>5
      <4> QED BY <4>4, <4>5
    <3> QED BY <3>1, <3>2
  <2> QED BY <2>7, <2>8 DEF Extremes
<1>3. ASSUME UNCHANGED <<shards, truth>> PROVE Extremes'
  BY <1>3 DEF Extremes, Sound
<1> QED BY <1>1, <1>2, <1>3, OtherSteps DEF vars

\* The numbers that Reading compares.
LEMMA ReadingTypes ==
    ASSUME Typed
    PROVE  /\ shown.count \in Nat /\ shown.errors \in Nat
           /\ low.count \in Nat /\ low.errors \in Nat
           /\ SumFunction(TrueCounts) \in Nat /\ SumFunction(TrueErrors) \in Nat
           /\ tick # Idle =>
                 /\ tick.pc = "sum" /\ tick.todo \in SUBSET DOMAIN shards
                 /\ tick.acc.count \in Nat /\ tick.acc.errors \in Nat
                 /\ IsTable(Counts, tick.todo, Workloads)
                 /\ IsTable(Errors, tick.todo, Workloads)
                 /\ SumFunction(Rows(Counts, tick.todo)) \in Nat
                 /\ SumFunction(Rows(Errors, tick.todo)) \in Nat
<1>1. SumFunction(TrueCounts) \in Nat /\ SumFunction(TrueErrors) \in Nat
  BY TablesTyped, SumTypes
<1>2. /\ shown.count \in Nat /\ shown.errors \in Nat
      /\ low.count \in Nat /\ low.errors \in Nat
  BY DEF Typed, Pair
<1>3. ASSUME tick # Idle
      PROVE  /\ tick.pc = "sum" /\ tick.todo \in SUBSET DOMAIN shards
             /\ tick.acc.count \in Nat /\ tick.acc.errors \in Nat
  BY <1>3 DEF Typed, Pair
<1>4. ASSUME tick # Idle
      PROVE  /\ IsTable(Counts, tick.todo, Workloads)
             /\ IsTable(Errors, tick.todo, Workloads)
  BY <1>3, <1>4, TablesTyped
<1>5. ASSUME tick # Idle
      PROVE  /\ SumFunction(Rows(Counts, tick.todo)) \in Nat
             /\ SumFunction(Rows(Errors, tick.todo)) \in Nat
  BY <1>4, <1>5, TableTypes
<1> QED BY <1>1, <1>2, <1>3, <1>4, <1>5

\* A progress line stays between the true totals at its start and now.
LEMMA ReadingStep ==
    ASSUME Typed, Typed', Complete, Reading, [Next]_vars
    PROVE  Reading'
<1>1. ASSUME NEW w \in Workers, ShardFor(w) PROVE Reading'
  <2>1. /\ UNCHANGED <<tick, shown, low>> /\ TrueCounts' = TrueCounts
        /\ TrueErrors' = TrueErrors
    BY <1>1, ShardForSums DEF TrueCounts, TrueErrors
  <2>2. tick # Idle => /\ Rows(Counts', tick.todo) = Rows(Counts, tick.todo)
                       /\ Rows(Errors', tick.todo) = Rows(Errors, tick.todo)
    BY <1>1, ShardForSums, ReadingTypes
  <2> QED BY <2>1, <2>2 DEF Reading
<1>2. ASSUME NEW w \in Workers, Record(w) PROVE Reading'
  <2>1. PICK i \in DOMAIN shards, v \in Workloads, e \in {0, 1} : Adds(i, v, e)
    BY <1>2, RecordSums
  <2>2. UNCHANGED <<tick, shown, low>>
    BY <1>2, RecordShape
  <2>3. /\ SumFunction(TrueCounts') = SumFunction(TrueCounts) + 1
        /\ SumFunction(TrueErrors') = SumFunction(TrueErrors) + e
    BY <2>1 DEF Adds
  <2>4. tick # Idle =>
           /\ SumFunction(Rows(Counts', tick.todo)) =
                 SumFunction(Rows(Counts, tick.todo)) + (IF i \in tick.todo THEN 1 ELSE 0)
           /\ SumFunction(Rows(Errors', tick.todo)) =
                 SumFunction(Rows(Errors, tick.todo)) + (IF i \in tick.todo THEN e ELSE 0)
    BY <2>1, ReadingTypes DEF Adds
  <2> QED BY <2>2, <2>3, <2>4, ReadingTypes DEF Reading
<1>3. CASE TotalsBegin
  <2>1. /\ tick = Idle /\ tick' = [pc |-> "sum", todo |-> DOMAIN shards, acc |-> Zero]
        /\ low' = Sums(truth) /\ UNCHANGED <<shards, shown, truth>>
    BY <1>3 DEF TotalsBegin, AllShards
  <2>2. /\ Counts' = Counts /\ Errors' = Errors /\ TrueCounts' = TrueCounts
        /\ TrueErrors' = TrueErrors
    BY <2>1 DEF Counts, Errors, TrueCounts, TrueErrors
  <2>3. low'.count = SumFunction(TrueCounts) /\ low'.errors = SumFunction(TrueErrors)
    BY <2>1, SumsMean
  <2>4. /\ tick' # Idle /\ tick'.acc.count = 0 /\ tick'.acc.errors = 0
        /\ tick'.todo = DOMAIN shards
    BY <2>1 DEF Idle, Zero
  <2>5. /\ SumFunction(Rows(Counts, DOMAIN shards)) = SumFunction(TrueCounts)
        /\ SumFunction(Rows(Errors, DOMAIN shards)) = SumFunction(TrueErrors)
    BY DEF Complete
  <2>6. /\ shown.count <= SumFunction(TrueCounts) /\ shown.errors <= SumFunction(TrueErrors)
    BY <2>1 DEF Reading
  <2> QED BY <2>1, <2>2, <2>3, <2>4, <2>5, <2>6, ReadingTypes DEF Reading
<1>4. CASE TotalsAdd
  <2>1. PICK i \in tick.todo : tick' = [pc |-> "sum", todo |-> tick.todo \ {i},
                                        acc |-> Plus(tick.acc, Sums(shards[i]))]
    BY <1>4 DEF TotalsAdd
  <2>2. tick # Idle /\ UNCHANGED <<shards, shown, truth, low>>
    BY <1>4 DEF TotalsAdd, Idle
  <2>3. /\ Counts' = Counts /\ Errors' = Errors /\ TrueCounts' = TrueCounts
        /\ TrueErrors' = TrueErrors
    BY <2>2 DEF Counts, Errors, TrueCounts, TrueErrors
  <2>4. tick.todo \in SUBSET DOMAIN shards /\ i \in DOMAIN shards
    BY <2>1, <2>2, ReadingTypes
  <2>5. /\ tick' # Idle /\ tick'.todo = tick.todo \ {i}
        /\ tick'.acc.count = tick.acc.count + SumFunction(Counts[i])
        /\ tick'.acc.errors = tick.acc.errors + SumFunction(Errors[i])
    BY <2>1, <2>4, SumsMean DEF Plus, Idle
  <2>6. /\ OneMore(tick'.todo, tick.todo, i)
        /\ Alike(Counts, Counts, tick'.todo) /\ Alike(Errors, Errors, tick'.todo)
    BY <2>5 DEF OneMore, Alike
  <2>7. /\ SumFunction(Rows(Counts, tick.todo)) =
              SumFunction(Counts[i]) + SumFunction(Rows(Counts, tick'.todo))
        /\ SumFunction(Rows(Errors, tick.todo)) =
              SumFunction(Errors[i]) + SumFunction(Rows(Errors, tick'.todo))
    BY <2>2, <2>6, TableRow, ReadingTypes
  <2>8. SumFunction(Counts[i]) \in Nat /\ SumFunction(Errors[i]) \in Nat
    BY <2>4, TablesTyped, SumTypes
  <2>9. /\ SumFunction(Rows(Counts, tick'.todo)) \in Nat
        /\ SumFunction(Rows(Errors, tick'.todo)) \in Nat
    <3>1. tick'.todo \in SUBSET DOMAIN shards
      BY <2>4, <2>5
    <3>2. IsTable(Counts, tick'.todo, Workloads) /\ IsTable(Errors, tick'.todo, Workloads)
      BY <3>1, TablesTyped
    <3> QED BY <3>2, TableTypes
  <2>10. /\ tick'.acc.count + SumFunction(Rows(Counts, tick'.todo)) =
               tick.acc.count + SumFunction(Rows(Counts, tick.todo))
         /\ tick'.acc.errors + SumFunction(Rows(Errors, tick'.todo)) =
               tick.acc.errors + SumFunction(Rows(Errors, tick.todo))
    BY <2>2, <2>5, <2>7, <2>8, <2>9, ReadingTypes
  <2> QED BY <2>2, <2>3, <2>5, <2>10 DEF Reading
<1>5. CASE TotalsEnd
  <2>1. /\ shown' = tick.acc /\ tick' = Idle /\ tick.pc = "sum" /\ tick.todo = {}
        /\ UNCHANGED <<shards, truth, low>>
    BY <1>5 DEF TotalsEnd, TotalsRead
  <2>2. tick # Idle
    BY <2>1 DEF Idle
  <2>3. TrueCounts' = TrueCounts /\ TrueErrors' = TrueErrors
    BY <2>1 DEF TrueCounts, TrueErrors
  <2>4. SumFunction(Rows(Counts, {})) = 0 /\ SumFunction(Rows(Errors, {})) = 0
    <3>1. Rows(Counts, {}) \in [{} -> Nat] /\ Rows(Errors, {}) \in [{} -> Nat]
      BY DEF Rows
    <3> QED BY <3>1, FS_EmptySet, SumTypes
  <2>5. /\ low.count <= tick.acc.count /\ tick.acc.count <= SumFunction(TrueCounts)
        /\ low.errors <= tick.acc.errors /\ tick.acc.errors <= SumFunction(TrueErrors)
    BY <2>1, <2>2, <2>4, ReadingTypes DEF Reading
  <2> QED BY <2>1, <2>3, <2>5 DEF Reading
<1>6. ASSUME UNCHANGED <<shards, truth, tick, shown, low>> PROVE Reading'
  <2>1. /\ Counts' = Counts /\ Errors' = Errors /\ TrueCounts' = TrueCounts
        /\ TrueErrors' = TrueErrors
    BY <1>6 DEF Counts, Errors, TrueCounts, TrueErrors
  <2> QED BY <1>6, <2>1 DEF Reading
<1> QED BY <1>1, <1>2, <1>3, <1>4, <1>5, <1>6, OtherSteps DEF vars

\* Snapshot merges every shard exactly once.
LEMMA MergingStep ==
    ASSUME Typed, Typed', Complete, Extremes, Merging, [Next]_vars
    PROVE  Merging'
<1>0. /\ \A i \in DOMAIN shards, u \in Workloads : shards[i][u] \in Stats
      /\ HdrMax \in Nat /\ \A u \in Workloads : truth[u].latencies \in SUBSET Nat
  BY CollectorAssumption DEF Typed
<1>1. CASE (\E w \in Workers : ShardFor(w)) \/ (\E w \in Workers : Record(w))
  <2>1. snap' = Idle
    BY <1>1, ShardForShape, RecordShape
  <2> QED BY <2>1 DEF Merging, Idle
<1>2. CASE SnapshotBegin
  <2>1. /\ snap' = [pc |-> "merge", todo |-> DOMAIN shards, acc |-> NewShard]
        /\ UNCHANGED <<shards, truth>>
    BY <1>2 DEF SnapshotBegin, AllShards
  <2>2. ASSUME NEW wl \in Workloads PROVE Unmerged(wl)'
    <3>1. /\ snap'.acc[wl].count = 0 /\ snap'.acc[wl].errors = 0
          /\ snap'.acc[wl].latMin = HdrMax /\ snap'.acc[wl].sample = NoMessage
          /\ snap'.todo = DOMAIN shards
      BY <2>1, <2>2 DEF NewShard, NoStats
    <3>2. Counts' = Counts /\ Errors' = Errors /\ truth' = truth /\ shards' = shards
      BY <2>1 DEF Counts, Errors
    <3>3. /\ SumFunction(Column(Counts, DOMAIN shards, wl)) = truth[wl].count
          /\ SumFunction(Column(Errors, DOMAIN shards, wl)) = truth[wl].errors
          /\ truth[wl].count \in Nat /\ truth[wl].errors \in Nat
      BY <2>2 DEF Complete, Typed
    <3>4. \A l \in truth[wl].latencies : \E i \in DOMAIN shards : shards[i][wl].latMin <= l
      BY <2>2 DEF Extremes
    <3> QED BY <3>1, <3>2, <3>3, <3>4 DEF Unmerged, Sound
  <2> QED BY <2>1, <2>2 DEF Merging
<1>3. CASE SnapshotMerge
  <2>1. PICK i \in snap.todo :
           snap' = [pc |-> "merge", todo |-> snap.todo \ {i},
                    acc |-> [wl \in Workloads |-> Merged(snap.acc[wl], shards[i][wl])]]
    BY <1>3 DEF SnapshotMerge
  <2>2. snap.pc = "merge" /\ UNCHANGED <<shards, truth>>
    BY <1>3 DEF SnapshotMerge
  <2>3. snap \in [pc : {"merge"}, todo : SUBSET DOMAIN shards, acc : [Workloads -> Stats]]
    BY <2>2 DEF Typed, Idle
  <2>4. Counts' = Counts /\ Errors' = Errors /\ truth' = truth /\ shards' = shards
    BY <2>2 DEF Counts, Errors
  <2>5. i \in DOMAIN shards /\ snap.todo \in SUBSET DOMAIN shards
    BY <2>1, <2>3
  <2>6. snap'.todo = snap.todo \ {i} /\ snap'.todo \in SUBSET DOMAIN shards
    BY <2>1, <2>5
  <2>7. /\ OneMore(snap'.todo, snap.todo, i)
        /\ Alike(Counts, Counts, snap'.todo) /\ Alike(Errors, Errors, snap'.todo)
        /\ IsTable(Counts, snap.todo, Workloads) /\ IsTable(Errors, snap.todo, Workloads)
        /\ IsTable(Counts, snap'.todo, Workloads) /\ IsTable(Errors, snap'.todo, Workloads)
    BY <2>1, <2>5, <2>6, TablesTyped DEF OneMore, Alike
  <2>8. ASSUME NEW wl \in Workloads PROVE Unmerged(wl)'
    <3> DEFINE a == snap.acc[wl]
               s == shards[i][wl]
    <3>1. a \in Stats /\ s \in Stats /\ Unmerged(wl) /\ Sound(s, wl)
      BY <1>0, <2>2, <2>3, <2>5, <2>8 DEF Merging, Extremes
    <3>2. snap'.acc[wl] = Merged(a, s)
      BY <2>1, <2>8
    <3>3. Counts[i][wl] = s.count /\ Errors[i][wl] = s.errors
      BY <2>5, <2>8 DEF Counts, Errors
    <3>4. /\ SumFunction(Column(Counts, snap.todo, wl)) =
                Counts[i][wl] + SumFunction(Column(Counts, snap'.todo, wl))
          /\ SumFunction(Column(Errors, snap.todo, wl)) =
                Errors[i][wl] + SumFunction(Column(Errors, snap'.todo, wl))
      BY <2>7, <2>8, TableRow
    <3>5. /\ SumFunction(Column(Counts, snap'.todo, wl)) \in Nat
          /\ SumFunction(Column(Errors, snap'.todo, wl)) \in Nat
      BY <2>7, <2>8, TableTypes
    <3> DEFINE m == snap'.acc[wl]
    <3>6. /\ m.count = a.count + s.count /\ m.errors = a.errors + s.errors
          /\ m.latMin = IF s.latMin < a.latMin THEN s.latMin ELSE a.latMin
          /\ m.sample = IF a.sample = NoMessage THEN s.sample ELSE a.sample
      BY <3>2 DEF Merged, Lower
    <3>7. /\ a.count \in Nat /\ a.errors \in Nat /\ a.latMin \in Nat
          /\ s.count \in Nat /\ s.errors \in Nat /\ s.latMin \in Nat
      BY <1>0, <3>1 DEF Stats
    <3>8. /\ a.count + SumFunction(Column(Counts, snap.todo, wl)) = truth[wl].count
          /\ a.errors + SumFunction(Column(Errors, snap.todo, wl)) = truth[wl].errors
          /\ Sound(a, wl)
          /\ \A l \in truth[wl].latencies :
                a.latMin <= l \/ \E j \in snap.todo : shards[j][wl].latMin <= l
      BY <3>1 DEF Unmerged
    <3> HIDE DEF a, s, m
    <3>9. /\ m.count + SumFunction(Column(Counts, snap'.todo, wl)) = truth[wl].count
          /\ m.errors + SumFunction(Column(Errors, snap'.todo, wl)) = truth[wl].errors
      BY <3>3, <3>4, <3>5, <3>6, <3>7, <3>8
    <3>10. Sound(m, wl)
      BY <3>1, <3>6, <3>7, <3>8 DEF Sound
    <3>11. ASSUME NEW l \in truth[wl].latencies
           PROVE  m.latMin <= l \/ \E j \in snap'.todo : shards[j][wl].latMin <= l
      <4>1. m.latMin <= a.latMin /\ m.latMin <= s.latMin /\ m.latMin \in Nat /\ l \in Nat
        BY <1>0, <2>8, <3>6, <3>7, <3>11
      <4>2. CASE a.latMin <= l
        BY <3>7, <4>1, <4>2
      <4>3. ASSUME NEW j \in snap.todo, shards[j][wl].latMin <= l
            PROVE  m.latMin <= l \/ \E k \in snap'.todo : shards[k][wl].latMin <= l
        <5>1. CASE j = i
          BY <3>7, <4>1, <4>3, <5>1 DEF s
        <5>2. CASE j # i
          BY <2>6, <4>3, <5>2
        <5> QED BY <5>1, <5>2
      <4> QED BY <3>8, <3>11, <4>2, <4>3
    <3>12. Sound(snap.acc[wl], wl)'
      BY <2>4, <3>10 DEF Sound, m
    <3> QED BY <2>4, <3>9, <3>11, <3>12 DEF Unmerged, m
  <2> QED BY <2>1, <2>8 DEF Merging
<1>4. CASE SnapshotEnd
  <2>1. /\ snap' = [pc |-> "done",
                    acc |-> [wl \in Workloads |-> Normalised(snap.acc[wl])]]
        /\ snap.pc = "merge" /\ snap.todo = {} /\ UNCHANGED <<shards, truth>>
    BY <1>4 DEF SnapshotEnd
  <2>2. snap.acc \in [Workloads -> Stats]
    BY <2>1 DEF Typed, Idle
  <2>3. ASSUME NEW wl \in Workloads PROVE Final(wl)'
    <3> DEFINE a == snap.acc[wl]
    <3>1. a \in Stats /\ Unmerged(wl)
      BY <2>1, <2>2, <2>3 DEF Merging
    <3>2. /\ SumFunction(Column(Counts, {}, wl)) = 0
          /\ SumFunction(Column(Errors, {}, wl)) = 0
      <4>1. Column(Counts, {}, wl) \in [{} -> Nat] /\ Column(Errors, {}, wl) \in [{} -> Nat]
        BY DEF Column
      <4> QED BY <4>1, FS_EmptySet, SumTypes
    <3>3. snap'.acc[wl] = Normalised(a)
      BY <2>1, <2>3
    <3>4. /\ snap'.acc[wl].count = a.count /\ snap'.acc[wl].errors = a.errors
          /\ snap'.acc[wl].sample = a.sample
          /\ snap'.acc[wl].latMin = IF a.latMin = HdrMax THEN 0 ELSE a.latMin
      BY <3>1, <3>3 DEF Normalised, Stats
    <3>5. a.count \in Nat /\ a.errors \in Nat /\ a.latMin \in 0 .. HdrMax
      BY <3>1 DEF Stats
    <3>6. /\ a.count = truth[wl].count /\ a.errors = truth[wl].errors
          /\ a.latMin = HdrMax \/ a.latMin \in truth[wl].latencies
          /\ a.sample = NoMessage <=> a.errors = 0
          /\ \A l \in truth[wl].latencies : a.latMin <= l
      BY <2>1, <3>1, <3>2, <3>5 DEF Unmerged, Sound
    <3> HIDE DEF a
    <3> QED BY <2>1, <3>4, <3>5, <3>6 DEF Final
  <2> QED BY <2>1, <2>3 DEF Merging
<1>5. ASSUME UNCHANGED <<shards, truth, snap>> PROVE Merging'
  <2>1. Counts' = Counts /\ Errors' = Errors
    BY <1>5 DEF Counts, Errors
  <2> QED BY <1>5, <2>1 DEF Merging, Unmerged, Final, Sound
<1> QED BY <1>1, <1>2, <1>3, <1>4, <1>5, OtherSteps DEF vars

(***************************************************************************)
(* The theorems.                                                           *)
(***************************************************************************)

\* The fallback shard is there from the beginning, and everything is zero.
LEMMA InvInit == Init => Inv
<1> SUFFICES ASSUME Init PROVE Inv
  OBVIOUS
<1>1. Typed
  <2>1. /\ DOMAIN shards = {Fallback} /\ shards \in [{Fallback} -> [Workloads -> Stats]]
    BY StatsTypes DEF Init, InitialShards
  <2>2. ops \in [Workers -> 0 .. MaxOps]
    BY CollectorAssumption DEF Init
  <2>3. Zero \in Pair
    BY DEF Zero, Pair
  <2> QED BY <2>1, <2>2, <2>3 DEF Init, Typed, ShardIds
<1>2. /\ \A i \in DOMAIN shards, u \in Workloads : Counts[i][u] = 0 /\ Errors[i][u] = 0
      /\ \A u \in Workloads : TrueCounts[u] = 0 /\ TrueErrors[u] = 0
  BY DEF Init, InitialShards, Counts, Errors, TrueCounts, TrueErrors, NewShard, NoStats
<1>3. SumFunction(TrueCounts) = 0 /\ SumFunction(TrueErrors) = 0
  BY <1>1, <1>2, TablesTyped, SumTypes
<1>4. /\ Rows(Counts, DOMAIN shards) \in [DOMAIN shards -> Nat]
      /\ Rows(Errors, DOMAIN shards) \in [DOMAIN shards -> Nat]
      /\ \A u \in Workloads : /\ Column(Counts, DOMAIN shards, u) \in [DOMAIN shards -> Nat]
                              /\ Column(Errors, DOMAIN shards, u) \in [DOMAIN shards -> Nat]
      /\ IsFiniteSet(DOMAIN shards)
  BY <1>1, TablesTyped, TableTypes
<1>5. \A i \in DOMAIN shards : SumFunction(Counts[i]) = 0 /\ SumFunction(Errors[i]) = 0
  BY <1>1, <1>2, TablesTyped, SumTypes
<1>6. /\ SumFunction(Rows(Counts, DOMAIN shards)) = 0
      /\ SumFunction(Rows(Errors, DOMAIN shards)) = 0
  <2>1. \A i \in DOMAIN shards : /\ Rows(Counts, DOMAIN shards)[i] = 0
                                 /\ Rows(Errors, DOMAIN shards)[i] = 0
    BY <1>5 DEF Rows
  <2> QED BY <1>4, <2>1, SumTypes
<1>7. ASSUME NEW u \in Workloads
      PROVE  /\ SumFunction(Column(Counts, DOMAIN shards, u)) = 0
             /\ SumFunction(Column(Errors, DOMAIN shards, u)) = 0
  <2>1. \A i \in DOMAIN shards : /\ Column(Counts, DOMAIN shards, u)[i] = 0
                                 /\ Column(Errors, DOMAIN shards, u)[i] = 0
    BY <1>2, <1>7 DEF Column
  <2> QED BY <1>4, <1>7, <2>1, SumTypes
<1>8. Complete
  <2>1. \A u \in Workloads : truth[u].count = 0 /\ truth[u].errors = 0
    BY DEF Init
  <2> QED BY <1>3, <1>6, <1>7, <2>1 DEF Complete
<1>9. Extremes
  BY DEF Init, InitialShards, Extremes, Sound, NewShard, NoStats
<1>10. Reading
  <2>1. /\ tick = Idle /\ shown.count = 0 /\ shown.errors = 0
        /\ low.count = 0 /\ low.errors = 0
    BY DEF Init, Zero
  <2> QED BY <1>3, <2>1 DEF Reading
<1>11. Merging
  BY DEF Init, Idle, Merging
<1> QED BY <1>1, <1>8, <1>9, <1>10, <1>11 DEF Inv

\* The invariant holds in every reachable state.
THEOREM InvHolds == Spec => []Inv
<1>1. Inv /\ [Next]_vars => Inv'
  BY TypedStep, CompleteStep, ExtremesStep, ReadingStep, MergingStep DEF Inv
<1> QED BY <1>1, InvInit, PTL DEF Spec

\* Types are kept.
THEOREM TypesHold == Spec => []TypeOK
<1>1. Typed => TypeOK
  BY DEF Typed, TypeOK, Idle
<1> QED BY <1>1, InvHolds, PTL DEF Inv

\* No record is lost in the shards, for any number of goroutines and however
\* their IDs coincide.
THEOREM NothingLost == Spec => []ShardsComplete
<1>1. Complete => ShardsComplete
  <2> SUFFICES ASSUME Complete, NEW wl \in Workloads
               PROVE  /\ SumFunction([i \in DOMAIN shards |-> shards[i][wl].count])
                            = truth[wl].count
                      /\ SumFunction([i \in DOMAIN shards |-> shards[i][wl].errors])
                            = truth[wl].errors
    BY DEF ShardsComplete
  <2>1. /\ Column(Counts, DOMAIN shards, wl) = [i \in DOMAIN shards |-> shards[i][wl].count]
        /\ Column(Errors, DOMAIN shards, wl) = [i \in DOMAIN shards |-> shards[i][wl].errors]
    BY DEF Column, Counts, Errors
  <2> QED BY <2>1 DEF Complete
<1> QED BY <1>1, InvHolds, PTL DEF Inv

\* Every progress line lies between the true totals at its start and now.
THEOREM LinesBracketed == Spec => []TotalsBracketed
<1>1. Typed /\ Reading => TotalsBracketed
  <2> SUFFICES ASSUME Typed, Reading, tick = Idle
               PROVE  /\ low.count <= shown.count /\ shown.count <= Sums(truth).count
                      /\ low.errors <= shown.errors /\ shown.errors <= Sums(truth).errors
    BY DEF TotalsBracketed
  <2>1. /\ Sums(truth).count = SumFunction(TrueCounts)
        /\ Sums(truth).errors = SumFunction(TrueErrors)
    BY SumsMean
  <2> QED BY <2>1 DEF Reading
<1> QED BY <1>1, InvHolds, PTL DEF Inv

\* Progress lines never go backwards.
THEOREM LinesMonotone == Spec => TotalsMonotone
<1> DEFINE Mono == shown.count <= shown'.count /\ shown.errors <= shown'.errors
<1>1. ASSUME Inv, Inv', [Next]_vars PROVE Mono
  <2>1. CASE TotalsEnd
    <3>1. tick # Idle /\ tick' = Idle /\ UNCHANGED low
      BY <2>1 DEF TotalsEnd, TotalsRead, Idle
    <3>2. shown.count <= low.count /\ shown.errors <= low.errors
      BY <1>1, <3>1 DEF Inv, Reading
    <3>3. low.count <= shown'.count /\ low.errors <= shown'.errors
      BY <1>1, <3>1 DEF Inv, Reading
    <3>4. /\ shown.count \in Nat /\ low.count \in Nat /\ shown.errors \in Nat
          /\ low.errors \in Nat /\ shown'.count \in Nat /\ shown'.errors \in Nat
      BY <1>1 DEF Inv, Typed, Pair
    <3> QED BY <3>2, <3>3, <3>4
  <2>2. CASE ~TotalsEnd
    <3>1. shown' = shown
      BY <1>1, <2>2 DEF Next, vars, Terminated, ShardFor, Record, TotalsBegin, TotalsAdd,
         SnapshotBegin, SnapshotMerge, SnapshotEnd
    <3>2. shown.count \in Nat /\ shown.errors \in Nat
      BY <1>1 DEF Inv, Typed, Pair
    <3> QED BY <3>1, <3>2
  <2> QED BY <2>1, <2>2
<1>2. Inv /\ Inv' /\ [Next]_vars => [Mono]_vars
  BY <1>1
<1> QED BY <1>2, InvHolds, PTL DEF Spec, TotalsMonotone

\* The report is exact, as long as every request took less than an hour: the
\* sentinel of the minimum is a latency that could occur.
THEOREM ReportExact ==
    ASSUME \A l \in Latencies : l < HdrMax
    PROVE  Spec => []SnapshotExact
<1>1. Typed /\ Merging => SnapshotExact
  <2> SUFFICES ASSUME Typed, Merging, snap.pc = "done", NEW wl \in Workloads
               PROVE  /\ snap.acc[wl].count = truth[wl].count
                      /\ snap.acc[wl].errors = truth[wl].errors
                      /\ snap.acc[wl].latMin = IF truth[wl].latencies = {} THEN 0
                                               ELSE Min(truth[wl].latencies)
                      /\ snap.acc[wl].sample = NoMessage <=> truth[wl].errors = 0
    BY DEF SnapshotExact
  <2> DEFINE ls == truth[wl].latencies
  <2>1. Final(wl)
    BY DEF Merging
  <2>2. PICK m \in 0 .. HdrMax :
           /\ m = HdrMax \/ m \in ls
           /\ \A l \in ls : m <= l
           /\ snap.acc[wl].latMin = IF m = HdrMax THEN 0 ELSE m
    BY <2>1 DEF Final
  <2>3. /\ ls \subseteq Latencies /\ Latencies \subseteq Nat /\ HdrMax \in Nat
    BY CollectorAssumption DEF Typed
  <2>4. snap.acc[wl].latMin = IF ls = {} THEN 0 ELSE Min(ls)
    <3> HIDE DEF ls
    <3>1. CASE ls = {}
      BY <2>2, <3>1
    <3>2. CASE ls # {}
      <4>1. PICK l \in ls : TRUE
        BY <3>2
      <4>2. m <= l /\ l < HdrMax /\ l \in Nat
        BY <2>2, <2>3
      <4>3. m \in ls /\ m # HdrMax
        BY <2>2, <2>3, <4>2
      <4>4. \A x \in ls : (\A y \in ls : x <= y) => x = m
        BY <2>2, <2>3, <4>3
      <4>5. Min(ls) = m
        BY <2>2, <4>3, <4>4 DEF Min
      <4> QED BY <2>2, <3>2, <4>3, <4>5
    <3> QED BY <3>1, <3>2
  <2> QED BY <2>1, <2>4 DEF Final
<1> QED BY <1>1, InvHolds, PTL DEF Inv
=============================================================================
