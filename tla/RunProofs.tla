----------------------------- MODULE RunProofs -----------------------------
(***************************************************************************)
(* Proofs about RunCommand: the commands `run` and `cleanup` on one bucket *)
(* of any content, with any number of processes, faults and interrupts.    *)
(*                                                                         *)
(* Frame says where the commands are and whose objects there are; it gives *)
(* the causes of errors, RunsIsolated and ForeignUntouched.  Swept says    *)
(* how far each sweep has come; it gives CleanExit and CleanupRecovers.    *)
(* Some theorems make an assumption about Base, the plan's prefix: the     *)
(* default, "s3aibench/", meets all of them, and where one fails the       *)
(* property fails with it.                                                 *)
(***************************************************************************)
EXTENDS RunCommand, KeyPrefixProofs

(***************************************************************************)
(* The objects of a run.                                                   *)
(***************************************************************************)

\* The object a run puts under the name n, and those of the other programs.
Obj(r, n) == [key |-> Key(r, <<n>>), by |-> r]
Alien == {[key |-> k, by |-> NoRun] : k \in Foreign}
Own == {Obj(r, n) : r \in Runs, n \in Objects}

\* A run works in a directory of its own below the plan's prefix.
LEMMA RunDirectory ==
    ASSUME NEW r \in Runs
    PROVE  /\ Base \in Strings /\ Len(Base) \in Nat /\ r \in Nat /\ r # Slash
           /\ Directory(CfgPrefix(r)) /\ Slashed(CfgPrefix(r)) = CfgPrefix(r)
           /\ Len(CfgPrefix(r)) = Len(Base) + 2 /\ CfgPrefix(r)[Len(Base) + 1] = r
           /\ IsPrefix(Base, CfgPrefix(r))
<1>1. Base \in Strings /\ Len(Base) \in Nat /\ r \in Nat /\ r # Slash
  BY RunCommandAssumption DEF Strings
<1> DEFINE d == <<r, Slash>>
<1>2. d \in Strings /\ Len(d) = 2 /\ d[1] = r /\ d[2] = Slash
  BY <1>1 DEF Strings, Slash
<1>3. CfgPrefix(r) = Base \o d
  BY DEF CfgPrefix
<1> HIDE DEF d
<1>4. /\ Base \o d \in Strings /\ Len(Base \o d) = Len(Base) + Len(d)
      /\ \A i \in 1 .. Len(d) : (Base \o d)[Len(Base) + i] = d[i]
      /\ IsPrefix(Base, Base \o d)
  BY <1>1, <1>2, JoinedShape
<1>5. /\ (Base \o d)[Len(Base) + 1] = r /\ (Base \o d)[Len(Base) + 2] = Slash
      /\ Len(Base \o d) = Len(Base) + 2
  <2>1. 1 \in 1 .. Len(d) /\ 2 \in 1 .. Len(d)
    BY <1>2
  <2> QED BY <1>2, <1>4, <2>1
<1>6. Base \o d # <<>>
  BY <1>1, <1>5
<1>7. Directory(CfgPrefix(r))
  BY <1>3, <1>4, <1>5, <1>6 DEF Directory
<1> QED BY <1>1, <1>3, <1>4, <1>5, <1>7, SlashedShape DEF Directory

\* The prefixes of all commands are keys.
LEMMA CfgTypes == \A p \in Procs : CfgPrefix(p) \in Strings
<1>1. \A r \in Runs : CfgPrefix(r) \in Strings
  BY RunDirectory DEF Directory
<1>2. \A p \in Procs \ Runs : CfgPrefix(p) \in Strings
  BY RunCommandAssumption DEF CfgPrefix, Strings
<1> QED BY <1>1, <1>2

\* A run's object is in its directory, under its name.
LEMMA OwnKey ==
    ASSUME NEW r \in Runs, NEW n \in Objects
    PROVE  /\ Key(r, <<n>>) \in Strings /\ Key(r, <<n>>) # <<>>
           /\ IsPrefix(CfgPrefix(r), Key(r, <<n>>))
           /\ Len(Key(r, <<n>>)) = Len(Base) + 3
           /\ Key(r, <<n>>)[Len(Base) + 1] = r /\ Key(r, <<n>>)[Len(Base) + 3] = n
           /\ <<n>> \in Strings
<1>0. n \in Nat /\ n # Slash
  BY RunCommandAssumption DEF Objects, Slash
<1> DEFINE c == CfgPrefix(r)
           k == <<n>>
           b == Len(Base)
<1>1. k \in Strings /\ Len(k) = 1 /\ k[1] = n /\ k # <<>> /\ k[1] # Slash
  BY <1>0 DEF Strings
<1>2. /\ c \in Strings /\ c # <<>> /\ Slashed(c) = c /\ Len(c) = b + 2 /\ b \in Nat
      /\ c[b + 1] = r
  BY RunDirectory DEF Directory
<1> HIDE DEF c, k, b
<1>3. Trimmed(k) = k /\ ~IsPrefix(c, k)
  BY <1>1, <1>2, TrimmedShape, PrefixMeans
<1>4. Key(r, k) = c \o k
  BY <1>2, <1>3 DEF Key, JoinPrefix, c
<1>5. /\ c \o k \in Strings /\ Len(c \o k) = Len(c) + Len(k) /\ IsPrefix(c, c \o k)
      /\ \A i \in 1 .. Len(c) : (c \o k)[i] = c[i]
      /\ \A i \in 1 .. Len(k) : (c \o k)[Len(c) + i] = k[i]
  BY <1>1, <1>2, JoinedShape
<1>6. Len(c \o k) = b + 3 /\ (c \o k)[b + 1] = r /\ (c \o k)[b + 3] = n
  <2>1. b + 1 \in 1 .. Len(c) /\ 1 \in 1 .. Len(k) /\ Len(c) + 1 = b + 3
    BY <1>1, <1>2
  <2>2. (c \o k)[Len(c) + 1] = k[1]
    BY <1>5, <2>1
  <2> QED BY <1>1, <1>2, <1>5, <2>1, <2>2
<1>7. c \o k # <<>>
  BY <1>2, <1>6
<1> QED BY <1>1, <1>4, <1>5, <1>6, <1>7 DEF c, k, b

\* Objects of different runs or names have different keys.
LEMMA OwnKeys ==
    ASSUME NEW r \in Runs, NEW n \in Objects, NEW q \in Runs, NEW m \in Objects,
           Key(r, <<n>>) = Key(q, <<m>>)
    PROVE  r = q /\ n = m
<1>1. Key(r, <<n>>)[Len(Base) + 1] = r /\ Key(r, <<n>>)[Len(Base) + 3] = n
  BY OwnKey
<1>2. Key(q, <<m>>)[Len(Base) + 1] = q /\ Key(q, <<m>>)[Len(Base) + 3] = m
  BY OwnKey
<1> QED BY <1>1, <1>2

\* A key in the directory of a run is not an object of another one.
LEMMA DirectoriesApart ==
    ASSUME NEW r \in Runs, NEW q \in Runs, NEW n \in Objects,
           IsPrefix(CfgPrefix(r), Key(q, <<n>>))
    PROVE  r = q
<1>1. /\ CfgPrefix(r) \in Strings /\ Len(CfgPrefix(r)) = Len(Base) + 2
      /\ CfgPrefix(r)[Len(Base) + 1] = r /\ Len(Base) \in Nat
  BY RunDirectory DEF Directory
<1>2. Key(q, <<n>>) \in Strings /\ Key(q, <<n>>)[Len(Base) + 1] = q
  BY OwnKey
<1>3. \A i \in 1 .. Len(CfgPrefix(r)) : CfgPrefix(r)[i] = Key(q, <<n>>)[i]
  BY <1>1, <1>2, PrefixMeans
<1>4. Len(Base) + 1 \in 1 .. Len(CfgPrefix(r))
  BY <1>1
<1> QED BY <1>1, <1>2, <1>3, <1>4

\* No run is NoRun, and the objects there can be are finitely many.
LEMMA ObjectTypes ==
    /\ NoRun \notin Runs /\ IsFiniteSet(Own \cup Alien)
    /\ \A o \in Own : o.by \in Runs /\ o.key \in Strings /\ o.key # <<>>
    /\ \A o \in Alien : o.by = NoRun /\ o.key \in Strings
<1>1. NoRun \notin Runs
  BY RunCommandAssumption DEF NoRun, Slash
<1>2. \A o \in Own : o.by \in Runs /\ o.key \in Strings /\ o.key # <<>>
  <2> SUFFICES ASSUME NEW r \in Runs, NEW n \in Objects
               PROVE  Obj(r, n).by \in Runs /\ Obj(r, n).key \in Strings /\ Obj(r, n).key # <<>>
    BY DEF Own
  <2> QED BY OwnKey DEF Obj
<1>3. \A o \in Alien : o.by = NoRun /\ o.key \in Strings
  BY RunCommandAssumption DEF Alien, Strings
<1>4. IsFiniteSet(Own)
  <2>1. IsFiniteSet(Runs) /\ IsFiniteSet(Objects)
    BY RunCommandAssumption, FS_Interval DEF Objects
  <2>2. IsFiniteSet(Runs \X Objects)
    BY <2>1, FS_Product
  <2> DEFINE f == [x \in Runs \X Objects |-> Obj(x[1], x[2])]
  <2>3. \A x \in Runs \X Objects : x[1] \in Runs /\ x[2] \in Objects
    OBVIOUS
  <2>4. \A r \in Runs, n \in Objects : <<r, n>> \in Runs \X Objects /\ f[<<r, n>>] = Obj(r, n)
    OBVIOUS
  <2>5. f \in [Runs \X Objects -> Own]
    BY <2>3 DEF Own
  <2>6. \A o \in Own : \E x \in Runs \X Objects : f[x] = o
    <3> HIDE DEF f
    <3> SUFFICES ASSUME NEW o \in Own PROVE \E x \in Runs \X Objects : f[x] = o
      OBVIOUS
    <3>1. PICK r \in Runs, n \in Objects : o = Obj(r, n)
      BY DEF Own
    <3> QED BY <2>4, <3>1
  <2> HIDE DEF f
  <2>7. f \in Surjection(Runs \X Objects, Own)
    BY <2>5, <2>6 DEF Surjection
  <2> QED BY <2>2, <2>7, FS_Surjection
<1>5. IsFiniteSet(Alien)
  <2> DEFINE f == [k \in Foreign |-> [key |-> k, by |-> NoRun]]
  <2>1. f \in Surjection(Foreign, Alien)
    BY DEF Alien, Surjection
  <2> QED BY <2>1, RunCommandAssumption, FS_Surjection
<1> QED BY <1>1, <1>2, <1>3, <1>4, <1>5, FS_Union

(***************************************************************************)
(* Where the commands are.                                                 *)
(***************************************************************************)

Places == {"start", "drive", "report", "cleanup", "list", "delete", "exited"}
Ends == {"none", "ok", "refused", "error", "killed"}

\* Types; a command has ended when it has exited, and `cleanup` only sweeps.
Control ==
    /\ pc \in [Procs -> Places] /\ exit \in [Procs -> Ends]
    /\ \A p \in Procs : exit[p] # "none" <=> pc[p] = "exited"
    /\ \A c \in Cleaners : pc[c] \in {"start", "list", "delete", "exited"}
    /\ signalled \subseteq Procs /\ faulted \subseteq Procs
    /\ more \in [Procs -> BOOLEAN] /\ token \in [Procs -> Strings]
    /\ page \in [Procs -> SUBSET Strings]

\* The objects the runs have put or tried to.
Known == {o \in Own : \E r \in Runs : \E n \in attempted[r] : o = Obj(r, n)}

\* What there is was put by a run, or by another program at the beginning; a
\* put takes effect once.
Stock ==
    /\ attempted \in [Runs -> SUBSET Objects]
    /\ tracked \in [Runs -> SUBSET {<<n>> : n \in Objects}]
    /\ \A r \in Runs : tracked[r] \subseteq {<<n>> : n \in attempted[r]}
    /\ bucket \subseteq Known \cup Alien /\ limbo \subseteq Known /\ late \subseteq Known
    /\ before \in [Cleaners -> SUBSET (Own \cup Alien)]
    /\ \A c \in Cleaners : before[c] \subseteq Known \cup Alien
    /\ limbo \cap bucket = {} /\ \A c \in Cleaners : limbo \cap before[c] = {}

Frame == Control /\ Stock

\* A request or a command that fails has a cause.
LEMMA FailureBlames ==
    ASSUME NEW p, Faults(p) \/ Fails(p)
    PROVE  faulted \subseteq faulted' /\ faulted' \subseteq faulted \cup {p}
           /\ p \in signalled \cup faulted'
BY DEF Faults, Fails

\* Every reply to a delete is taken for done.
LEMMA RepliesAccepted == \A key : Replies(key) \subseteq Accepted
BY DEF Replies, Accepted

(***************************************************************************)
(* Pages.                                                                  *)
(***************************************************************************)

\* A listing is a finite set of keys.
LEMMA ListedTypes ==
    ASSUME Stock, NEW p, NEW prefix, NEW after
    PROVE  /\ Listed(p, prefix, after) \in SUBSET Strings
           /\ IsFiniteSet(Listed(p, prefix, after))
<1> DEFINE T == {x \in bucket : IsPrefix(Key(p, prefix), x.key) /\ Before(after, x.key)}
           L == Listed(p, prefix, after)
<1>1. T \in SUBSET (Own \cup Alien)
  BY DEF Stock, Known
<1>2. IsFiniteSet(T)
  BY <1>1, ObjectTypes, FS_Subset
<1>3. L = {o.key : o \in T}
  BY DEF Listed
<1> HIDE DEF T, L
<1>4. IsFiniteSet(L)
  <2> DEFINE f == [o \in T |-> o.key]
  <2>1. f \in Surjection(T, L)
    BY <1>3 DEF Surjection
  <2> QED BY <1>2, <2>1, FS_Surjection
<1>5. L \in SUBSET Strings
  BY <1>1, <1>3, ObjectTypes
<1> QED BY <1>4, <1>5 DEF L

\* A page that leaves something out is followed by another one, which goes on
\* after the last key of the page.
LEMMA PageCut ==
    ASSUME NEW keys \in SUBSET Strings, IsFiniteSet(keys),
           NEW got, got = FirstOf(keys, PageSize)
    PROVE  /\ got \subseteq keys
           /\ got # {} => Greatest(got) \in got
           /\ \A k \in keys \ got :
                 got # {} /\ Truncated(keys) /\ Before(Greatest(got), k)
<1> DEFINE Pred(k) == {j \in keys : Before(j, k)}
<1>0. PageSize \in Nat /\ PageSize # 0
  BY RunCommandAssumption
<1>1. got \subseteq keys /\ \A k \in keys : k \in got <=> Cardinality(Pred(k)) < PageSize
  BY DEF FirstOf
<1>2. \A k \in keys : IsFiniteSet(Pred(k)) /\ Cardinality(Pred(k)) \in Nat
  <2> SUFFICES ASSUME NEW k \in keys
               PROVE  IsFiniteSet(Pred(k)) /\ Cardinality(Pred(k)) \in Nat
    OBVIOUS
  <2>1. Pred(k) \in SUBSET keys
    OBVIOUS
  <2> HIDE DEF Pred
  <2>2. IsFiniteSet(Pred(k))
    BY <2>1, FS_Subset
  <2> QED BY <2>2, FS_CardinalityType
<1>3. ASSUME got # {} PROVE Greatest(got) \in got /\ \A j \in got : ~Before(Greatest(got), j)
  <2>1. IsFiniteSet(got) /\ got \in SUBSET Strings
    BY <1>1, FS_Subset
  <2>2. \E k \in got : \A j \in got : ~Before(k, j)
    BY <1>3, <2>1, Extremes
  <2> QED BY <2>2 DEF Greatest
<1>4. ASSUME NEW k \in keys \ got
      PROVE  got # {} /\ Truncated(keys) /\ Before(Greatest(got), k)
  <2>1. got # {}
    <3>1. PICK e \in keys : \A d \in keys : ~Before(d, e)
      BY <1>4, Extremes
    <3>2. Pred(e) = {}
      BY <3>1
    <3>3. Cardinality(Pred(e)) = 0
      BY <3>2, FS_EmptySet
    <3> HIDE DEF Pred
    <3>4. e \in got
      BY <1>0, <1>1, <3>1, <3>3
    <3> QED BY <3>4
  <2>2. Truncated(keys)
    <3>1. Pred(k) \in SUBSET (keys \ {k})
      BY BeforeOrder
    <3>2. /\ IsFiniteSet(keys \ {k}) /\ Cardinality(keys \ {k}) = Cardinality(keys) - 1
      BY FS_RemoveElement
    <3> HIDE DEF Pred
    <3>3. Cardinality(Pred(k)) <= Cardinality(keys \ {k})
      BY <3>1, <3>2, FS_Subset
    <3>4. PICK a \in Nat, b \in Nat : a = Cardinality(Pred(k)) /\ b = Cardinality(keys)
      BY <1>2, FS_CardinalityType
    <3>5. a >= PageSize /\ a <= b - 1
      BY <1>0, <1>1, <3>2, <3>3, <3>4
    <3>6. b > PageSize
      BY <1>0, <3>5
    <3> QED BY <3>4, <3>6 DEF Truncated
  <2> DEFINE g == Greatest(got)
  <2>3. g \in got /\ g \in keys /\ g # k
    BY <1>1, <1>3, <2>1
  <2> HIDE DEF g
  <2>4. ASSUME Before(k, g) PROVE FALSE
    <3>1. Pred(k) \in SUBSET Pred(g)
      BY <2>3, <2>4, BeforeOrder
    <3> HIDE DEF Pred
    <3>2. Cardinality(Pred(k)) <= Cardinality(Pred(g))
      BY <1>2, <2>3, <3>1, FS_Subset
    <3>3. PICK a \in Nat, b \in Nat : a = Cardinality(Pred(k)) /\ b = Cardinality(Pred(g))
      BY <1>2, <2>3
    <3>4. a <= b /\ b < PageSize /\ ~(a < PageSize)
      BY <1>1, <2>3, <3>2, <3>3
    <3> QED BY <1>0, <3>4
  <2>5. Before(g, k)
    BY <2>3, <2>4, BeforeOrder
  <2> QED BY <2>1, <2>2, <2>5 DEF g
<1> QED BY <1>1, <1>3, <1>4

(***************************************************************************)
(* What a step may do.                                                     *)
(***************************************************************************)

\* A process goes on to another place without ending.
LEMMA GoesOn ==
    ASSUME Control, NEW p \in Procs, pc[p] # "exited",
           NEW l \in Places \ {"exited"}, p \in Cleaners => l \in {"start", "list", "delete"},
           pc' = [pc EXCEPT ![p] = l],
           UNCHANGED <<exit, token, more, page, signalled, faulted>>
    PROVE  Control'
<1>1. pc' \in [Procs -> Places] /\ \A q \in Procs : pc'[q] = IF q = p THEN l ELSE pc[q]
  BY DEF Control
<1> QED BY <1>1 DEF Control, Procs

\* A process ends.
LEMMA Exits ==
    ASSUME Control, NEW p \in Procs, NEW how \in Ends \ {"none"}, Exit(p, how),
           UNCHANGED <<token, more, page>>,
           signalled' \subseteq Procs, faulted' \subseteq Procs
    PROVE  Control'
<1>1. /\ pc' \in [Procs -> Places] /\ exit' \in [Procs -> Ends]
      /\ \A q \in Procs : /\ pc'[q] = IF q = p THEN "exited" ELSE pc[q]
                          /\ exit'[q] = IF q = p THEN how ELSE exit[q]
  BY DEF Control, Exit, Places
<1> QED BY <1>1 DEF Control, Procs

\* A process stays where it is.
LEMMA Stays ==
    ASSUME Control, UNCHANGED <<pc, exit, token, more>>, page' \in [Procs -> SUBSET Strings],
           signalled' \subseteq Procs, faulted' \subseteq Procs
    PROVE  Control'
BY DEF Control

\* A step keeps Control, and an error has a cause from then on.
LEMMA ControlStep ==
    ASSUME Control, Stock, [Next]_vars, ErrorHasCause
    PROVE  Control' /\ ErrorHasCause'
<1> DEFINE R == Control' /\ ErrorHasCause'
<1>0. Runs \subseteq Procs /\ Cleaners \subseteq Procs /\ Runs \cap Cleaners = {}
  BY RunCommandAssumption DEF Procs
<1>1. ASSUME UNCHANGED exit, signalled \subseteq signalled', faulted \subseteq faulted'
      PROVE  ErrorHasCause'
  BY <1>1 DEF ErrorHasCause
<1>2. ASSUME NEW p \in Procs, NEW how \in Ends \ {"none"}, Exit(p, how),
             how = "error" => p \in signalled' \cup faulted',
             signalled \subseteq signalled', faulted \subseteq faulted'
      PROVE  ErrorHasCause'
  BY <1>2 DEF ErrorHasCause, Exit, Control
<1>3. ASSUME NEW p \in Procs, NEW l \in Places \ {"exited"}, pc[p] # "exited",
             p \in Cleaners => l \in {"start", "list", "delete"},
             pc' = [pc EXCEPT ![p] = l],
             UNCHANGED <<exit, token, more, page, signalled, faulted>>
      PROVE  R
  BY <1>1, <1>3, GoesOn
<1>4. ASSUME NEW p \in Procs, NEW how \in Ends \ {"none"}, Exit(p, how),
             how = "error" => p \in signalled' \cup faulted',
             signalled \subseteq signalled', faulted \subseteq faulted',
             signalled' \subseteq Procs, faulted' \subseteq Procs,
             UNCHANGED <<token, more, page>>
      PROVE  R
  BY <1>2, <1>4, Exits
<1>5. ASSUME UNCHANGED <<pc, exit, token, more, signalled, faulted>>,
             page' \in [Procs -> SUBSET Strings]
      PROVE  R
  <2>1. signalled' \subseteq Procs /\ faulted' \subseteq Procs
    BY <1>5 DEF Control
  <2> QED BY <1>1, <1>5, <2>1, Stays
<1>6. ASSUME NEW p \in Runs, Driving(p) PROVE R
  <2>1. CASE Check(p)
    <3>1. CASE Proceeds(p)
      <4>1. exit' = exit /\ pc[p] = "start" /\ pc' = [pc EXCEPT ![p] = "drive"]
            /\ UNCHANGED <<token, more, page, signalled, faulted>>
        BY <2>1, <3>1, <1>0 DEF Check, Control, sweepVars, histVars
      <4> QED BY <1>0, <1>3, <4>1 DEF Places
    <3>2. CASE ~Proceeds(p)
      <4>1. Exit(p, "refused") /\ UNCHANGED <<token, more, page, signalled, faulted>>
        BY <2>1, <3>2 DEF Check, Exit, sweepVars, histVars
      <4> QED BY <1>0, <1>4, <4>1 DEF Control, Ends
    <3> QED BY <3>1, <3>2
  <2>2. CASE CommandFails(p)
    <3>1. /\ Exit(p, "error") /\ UNCHANGED <<token, more, page, signalled>>
          /\ Faults(p) \/ Fails(p)
      BY <2>2 DEF CommandFails, sweepVars
    <3>2. /\ faulted \subseteq faulted' /\ faulted' \subseteq faulted \cup {p}
          /\ p \in signalled \cup faulted'
      BY <3>1, FailureBlames
    <3> QED BY <1>0, <1>4, <3>1, <3>2 DEF Control, Ends
  <2>3. ASSUME NEW n \in Objects, Put(p, n) PROVE R
    BY <1>5, <2>3 DEF Put, sweepVars, histVars, Control
  <2>4. CASE Trim(p)
    BY <1>5, <2>4 DEF Trim, sweepVars, histVars, Control
  <2>5. CASE RunReturns(p)
    BY <1>0, <1>3, <2>5 DEF RunReturns, sweepVars, histVars, Places
  <2>6. CASE ReportOK(p)
    <3>1. CASE CleanupOn
      BY <1>0, <1>3, <2>6, <3>1 DEF ReportOK, sweepVars, histVars, Places
    <3>2. CASE ~CleanupOn
      <4>1. Exit(p, "ok") /\ UNCHANGED <<token, more, page, signalled, faulted>>
        BY <2>6, <3>2 DEF ReportOK, sweepVars, histVars
      <4> QED BY <1>0, <1>4, <4>1 DEF Control, Ends
    <3> QED BY <3>1, <3>2
  <2>7. CASE WorkloadDelete(p)
    BY <1>5, <2>7 DEF WorkloadDelete, sweepVars, histVars, Control
  <2>8. CASE WorkloadsCleaned(p)
    BY <1>0, <1>3, <2>8 DEF WorkloadsCleaned, sweepVars, histVars, Places
  <2> QED
    BY <1>6, <2>1, <2>2, <2>3, <2>4, <2>5, <2>6, <2>7, <2>8 DEF Driving
<1>7. ASSUME NEW p \in Cleaners, StartCleaner(p) PROVE R
  BY <1>0, <1>3, <1>7 DEF StartCleaner, sweepVars, Places
<1>8. ASSUME NEW p \in Procs, Sweeping(p) PROVE R
  <2>1. CASE ListPage(p)
    <3> DEFINE keys == Listed(p, SweepPrefix(p), token[p])
               got == FirstOf(keys, PageSize)
    <3>0. /\ pc[p] = "list" /\ page' = [page EXCEPT ![p] = got]
          /\ more' = [more EXCEPT ![p] = Truncated(keys)]
          /\ token' = [token EXCEPT ![p] = IF got = {} THEN token[p] ELSE Greatest(got)]
          /\ pc' = [pc EXCEPT ![p] = "delete"] /\ UNCHANGED <<exit, signalled, faulted>>
      BY <2>1 DEF ListPage, histVars, Control
    <3>1. keys \in SUBSET Strings /\ IsFiniteSet(keys)
      BY ListedTypes
    <3> HIDE DEF keys
    <3>2. got \subseteq keys /\ (got # {} => Greatest(got) \in got)
      BY <3>1, PageCut
    <3> HIDE DEF got
    <3>3. page' \in [Procs -> SUBSET Strings]
      BY <3>0, <3>1, <3>2 DEF Control
    <3>4. token' \in [Procs -> Strings]
      BY <3>0, <3>1, <3>2 DEF Control
    <3>5. more' \in [Procs -> BOOLEAN]
      <4>1. Truncated(keys) \in BOOLEAN
        <5>1. (Cardinality(keys) > PageSize) \in BOOLEAN
          <6> DEFINE a == Cardinality(keys)
          <6> HIDE DEF a
          <6>1. (a > PageSize) \in BOOLEAN
            OBVIOUS
          <6> QED BY <6>1 DEF a
        <5> QED BY <5>1 DEF Truncated
      <4> QED BY <3>0, <4>1, Zenon DEF Control
    <3>6. pc' \in [Procs -> Places] /\ \A q \in Procs : pc'[q] = IF q = p THEN "delete" ELSE pc[q]
      BY <3>0 DEF Control, Places
    <3>7. Control'
      BY <1>0, <3>0, <3>3, <3>4, <3>5, <3>6 DEF Control
    <3> QED BY <1>1, <3>0, <3>7
  <2>2. CASE SweepDelete(p)
    <3>1. page' \in [Procs -> SUBSET Strings]
      <4>1. PICK k \in FirstOf(page[p], 1) : page' = [page EXCEPT ![p] = page[p] \ {k}]
        BY <2>2 DEF SweepDelete, Control
      <4> QED BY <4>1 DEF Control
    <3> QED BY <1>5, <2>2, <3>1 DEF SweepDelete, histVars
  <2>3. CASE NextPage(p)
    BY <1>0, <1>3, <2>3 DEF NextPage, sweepVars, histVars, Places
  <2>4. CASE SweepReturns(p)
    <3>1. Exit(p, "ok") /\ UNCHANGED <<token, more, page, signalled, faulted>>
      BY <2>4 DEF SweepReturns, sweepVars, histVars
    <3> QED BY <1>0, <1>4, <3>1 DEF Control, Ends
  <2>5. CASE CleaningFails(p)
    <3>1. /\ Exit(p, "error") /\ UNCHANGED <<token, more, page, signalled>> /\ Fails(p)
      <4>1. ~(\E key \in InFlight(p) : Replies(key) \ Accepted # {})
        BY RepliesAccepted
      <4> QED BY <2>5, <4>1 DEF CleaningFails, sweepVars
    <3>2. /\ faulted \subseteq faulted' /\ faulted' \subseteq faulted \cup {p}
          /\ p \in signalled \cup faulted'
      BY <3>1, FailureBlames
    <3> QED BY <1>0, <1>4, <3>1, <3>2 DEF Control, Ends
  <2> QED BY <1>8, <2>1, <2>2, <2>3, <2>4, <2>5 DEF Sweeping
<1>9. ASSUME NEW p \in Procs, Interrupt(p) PROVE R
  <2>1. /\ UNCHANGED <<pc, exit, token, more, page, faulted>>
        /\ signalled' = signalled \cup {p}
    BY <1>9 DEF Interrupt, sweepVars
  <2>2. page' \in [Procs -> SUBSET Strings] /\ signalled' \subseteq Procs /\ faulted' \subseteq Procs
    BY <2>1 DEF Control
  <2> QED BY <1>1, <2>1, <2>2, Stays
<1>10. ASSUME NEW p \in Procs, Kill(p) PROVE R
  <2>1. /\ Exit(p, "killed") /\ UNCHANGED <<token, more, page, faulted>>
        /\ signalled' = signalled \cup {p}
    BY <1>10 DEF Kill, sweepVars
  <2> QED BY <1>4, <2>1 DEF Control, Ends
<1>11. ASSUME NEW o \in limbo, Land(o) PROVE R
  BY <1>5, <1>11 DEF Land, sweepVars, Control
<1>12. CASE UNCHANGED vars
  BY <1>5, <1>12 DEF vars, sweepVars, histVars, Control
<1> QED BY <1>6, <1>7, <1>8, <1>9, <1>10, <1>11, <1>12 DEF Next, Terminated

(***************************************************************************)
(* What a step does to the bucket.                                         *)
(***************************************************************************)

Quiet == UNCHANGED <<bucket, limbo, late, attempted, tracked>>

\* A command deletes a key, or fails to.
Deletion(p, k) ==
    /\ pc[p] \in {"drive", "cleanup", "delete"} /\ k \in Strings
    /\ bucket' = bucket \/ bucket' = Removed(Key(p, k))
    /\ UNCHANGED <<limbo, late, attempted>>
    /\ tracked' \in [Runs -> SUBSET {<<n>> : n \in Objects}]
    /\ \A r \in Runs : tracked'[r] \subseteq tracked[r]

\* What the workloads track are keys.
LEMMA TrackedTypes ==
    ASSUME Stock, NEW r \in Runs, NEW k \in tracked[r]
    PROVE  k \in Strings
<1>1. PICK n \in Objects : k = <<n>>
  BY DEF Stock
<1> QED BY <1>1, OwnKey

\* Only four things happen to the bucket, and only StartCleaner looks back.
LEMMA StoreSteps ==
    ASSUME Control, Stock, [Next]_vars
    PROVE  /\ \/ Quiet
              \/ \E p \in Procs : \E k : Deletion(p, k)
              \/ \E p \in Runs, n \in Objects : Put(p, n)
              \/ \E o \in limbo : Land(o)
           /\ before' = before \/ \E c \in Cleaners : StartCleaner(c)
<1> DEFINE R == /\ \/ Quiet
                   \/ \E p \in Procs : \E k : Deletion(p, k)
                   \/ \E p \in Runs, n \in Objects : Put(p, n)
                   \/ \E o \in limbo : Land(o)
                /\ before' = before \/ \E c \in Cleaners : StartCleaner(c)
<1>0. Runs \subseteq Procs /\ Cleaners \subseteq Procs
  BY DEF Procs
<1>1. ASSUME NEW p \in Runs, NEW k \in tracked[p],
             pc[p] \in {"drive", "cleanup"},
             bucket' = bucket \/ bucket' = Removed(Key(p, k)),
             UNCHANGED <<limbo, late, attempted>>,
             tracked' = tracked \/ tracked' = [tracked EXCEPT ![p] = tracked[p] \ {k}]
      PROVE  Deletion(p, k)
  <2>1. tracked' \in [Runs -> SUBSET {<<n>> : n \in Objects}]
    BY <1>1 DEF Stock
  <2>2. \A r \in Runs : tracked'[r] \subseteq tracked[r]
    BY <1>1 DEF Stock
  <2> QED BY <1>1, <2>1, <2>2, TrackedTypes DEF Deletion
<1>2. ASSUME NEW p \in Procs, NEW k \in FirstOf(page[p], 1), pc[p] = "delete",
             bucket' = bucket \/ bucket' = Removed(Key(p, k)),
             UNCHANGED <<limbo, late, attempted, tracked>>
      PROVE  Deletion(p, k)
  <2>1. k \in Strings
    BY DEF FirstOf, Control
  <2> QED BY <1>2, <2>1 DEF Deletion, Stock
<1>3. ASSUME NEW p \in Runs, Driving(p) PROVE R
  <2>1. CASE Check(p) \/ RunReturns(p) \/ ReportOK(p) \/ WorkloadsCleaned(p)
    BY <2>1 DEF Check, RunReturns, ReportOK, WorkloadsCleaned, Quiet, histVars
  <2>2. CASE CommandFails(p)
    BY <2>2 DEF CommandFails, Quiet
  <2>3. ASSUME NEW n \in Objects, Put(p, n) PROVE R
    BY <2>3 DEF Put, histVars
  <2>4. CASE Trim(p)
    <3>1. PICK k \in tracked[p] : /\ bucket' \in {bucket, Removed(Key(p, k))}
                                  /\ tracked' = [tracked EXCEPT ![p] = tracked[p] \ {k}]
      BY <2>4 DEF Trim, Stock
    <3>2. pc[p] = "drive" /\ UNCHANGED <<limbo, late, attempted, before>>
      BY <2>4 DEF Trim, histVars
    <3> QED BY <1>0, <1>1, <3>1, <3>2
  <2>5. CASE WorkloadDelete(p)
    <3>1. PICK k \in tracked[p] : /\ bucket' = Removed(Key(p, k))
                                  /\ tracked' = [tracked EXCEPT ![p] = tracked[p] \ {k}]
      BY <2>5 DEF WorkloadDelete, DeleteOK, Stock
    <3>2. pc[p] = "cleanup" /\ UNCHANGED <<limbo, late, attempted, before>>
      BY <2>5 DEF WorkloadDelete, histVars
    <3> QED BY <1>0, <1>1, <3>1, <3>2
  <2> QED BY <1>3, <2>1, <2>2, <2>3, <2>4, <2>5 DEF Driving
<1>4. ASSUME NEW p \in Cleaners, StartCleaner(p) PROVE R
  BY <1>4 DEF StartCleaner, Quiet
<1>5. ASSUME NEW p \in Procs, Sweeping(p) PROVE R
  <2>1. CASE ListPage(p) \/ NextPage(p) \/ SweepReturns(p)
    BY <2>1 DEF ListPage, NextPage, SweepReturns, Quiet, histVars
  <2>2. CASE SweepDelete(p)
    <3>1. PICK k \in FirstOf(page[p], 1) : bucket' = Removed(Key(p, k))
      BY <2>2 DEF SweepDelete, DeleteOK
    <3>2. pc[p] = "delete" /\ UNCHANGED <<limbo, late, attempted, tracked, before>>
      BY <2>2 DEF SweepDelete, histVars
    <3> QED BY <1>2, <3>1, <3>2
  <2>3. CASE CleaningFails(p)
    <3>1. UNCHANGED <<limbo, late, attempted, tracked, before>>
      BY <2>3 DEF CleaningFails
    <3>2. CASE bucket' = bucket
      BY <3>1, <3>2 DEF Quiet
    <3>3. CASE bucket' # bucket
      <4>1. PICK key \in InFlight(p) : bucket' = Removed(key)
        BY <2>3, <3>3 DEF CleaningFails
      <4>2. CASE pc[p] = "cleanup"
        <5>1. p \in Runs
          BY <4>2 DEF Control, Procs
        <5>2. PICK k \in tracked[p] : key = Key(p, k)
          BY <4>1, <4>2 DEF InFlight
        <5> QED BY <1>1, <3>1, <4>1, <4>2, <5>1, <5>2
      <4>3. CASE pc[p] = "delete"
        <5>1. PICK k \in FirstOf(page[p], 1) : key = Key(p, k)
          BY <4>1, <4>3 DEF InFlight
        <5> QED BY <1>2, <3>1, <4>1, <4>3, <5>1
      <4>4. pc[p] = "cleanup" \/ pc[p] = "delete"
        BY <4>1 DEF InFlight
      <4> QED BY <4>2, <4>3, <4>4
    <3> QED BY <3>2, <3>3
  <2> QED BY <1>5, <2>1, <2>2, <2>3 DEF Sweeping
<1>6. ASSUME NEW p \in Procs, Interrupt(p) \/ Kill(p) PROVE R
  BY <1>6 DEF Interrupt, Kill, Quiet
<1>7. ASSUME NEW o \in limbo, Land(o) PROVE R
  BY <1>7 DEF Land
<1>8. CASE UNCHANGED vars
  BY <1>8 DEF vars, histVars, Quiet
<1> QED BY <1>3, <1>4, <1>5, <1>6, <1>7, <1>8 DEF Next, Terminated

\* The object of a put is new: nobody has seen it yet.
LEMMA PutShape ==
    ASSUME Stock, NEW p \in Runs, NEW n \in Objects, Put(p, n)
    PROVE  /\ pc[p] = "drive" /\ Obj(p, n) \in Own /\ Obj(p, n) \notin Known
           /\ attempted' = [attempted EXCEPT ![p] = attempted[p] \cup {n}]
           /\ \/ bucket' = Stored(Obj(p, n)) /\ limbo' = limbo
              \/ bucket' = bucket /\ (limbo' = limbo \/ limbo' = limbo \cup {Obj(p, n)})
           /\ \/ tracked' = tracked
              \/ tracked' = [tracked EXCEPT ![p] = tracked[p] \cup {<<n>>}]
           /\ UNCHANGED <<late, before>>
<1>1. pc[p] = "drive" /\ n \notin attempted[p] /\ Obj(p, n) \in Own
  BY DEF Put, Own
<1>2. Obj(p, n) \notin Known
  <2> SUFFICES ASSUME NEW r \in Runs, NEW m \in attempted[r], Obj(p, n) = Obj(r, m)
               PROVE  FALSE
    BY DEF Known
  <2>1. m \in Objects
    BY DEF Stock
  <2>2. Key(p, <<n>>) = Key(r, <<m>>)
    BY DEF Obj
  <2> QED BY <1>1, <2>1, <2>2, OwnKeys
<1>3. attempted' = [attempted EXCEPT ![p] = attempted[p] \cup {n}]
  BY DEF Put, Stock
<1>4. /\ \/ bucket' = Stored(Obj(p, n)) /\ limbo' = limbo
         \/ bucket' = bucket /\ (limbo' = limbo \/ limbo' = limbo \cup {Obj(p, n)})
      /\ UNCHANGED <<late, before>>
  BY DEF Put, Obj, histVars
<1>5. \/ tracked' = tracked
      \/ tracked' = [tracked EXCEPT ![p] = tracked[p] \cup {<<n>>}]
  BY DEF Put, Stock
<1> QED BY <1>1, <1>2, <1>3, <1>4, <1>5

\* A step keeps Stock.
LEMMA StockStep ==
    ASSUME Control, Stock, [Next]_vars
    PROVE  Stock'
<1>0. \A key : Removed(key) \subseteq bucket
  BY DEF Removed
<1>1. ASSUME attempted' \in [Runs -> SUBSET Objects],
             \A r \in Runs : attempted[r] \subseteq attempted'[r]
      PROVE  Known \subseteq Known'
  BY <1>1 DEF Known
<1>2. CASE before' = before
  <2>1. CASE Quiet
    BY <1>2, <2>1 DEF Quiet, Stock, Known
  <2>2. ASSUME NEW p \in Procs, NEW k, Deletion(p, k) PROVE Stock'
    <3>1. bucket' \subseteq bucket /\ UNCHANGED <<limbo, late, attempted>>
      BY <1>0, <2>2 DEF Deletion
    <3>2. tracked' \in [Runs -> SUBSET {<<n>> : n \in Objects}]
      BY <2>2 DEF Deletion
    <3>3. \A r \in Runs : tracked'[r] \subseteq {<<n>> : n \in attempted'[r]}
      <4>1. \A r \in Runs : tracked'[r] \subseteq tracked[r]
        BY <2>2 DEF Deletion
      <4> QED BY <3>1, <4>1 DEF Stock
    <3>4. Known' = Known
      BY <3>1 DEF Known
    <3> QED BY <1>2, <3>1, <3>2, <3>3, <3>4 DEF Stock
  <2>3. ASSUME NEW p \in Runs, NEW n \in Objects, Put(p, n) PROVE Stock'
    <3> DEFINE o == Obj(p, n)
    <3>0. /\ o \in Own /\ o \notin Known
          /\ attempted' = [attempted EXCEPT ![p] = attempted[p] \cup {n}]
          /\ \/ bucket' = Stored(o) /\ limbo' = limbo
             \/ bucket' = bucket /\ (limbo' = limbo \/ limbo' = limbo \cup {o})
          /\ \/ tracked' = tracked
             \/ tracked' = [tracked EXCEPT ![p] = tracked[p] \cup {<<n>>}]
          /\ UNCHANGED <<late, before>>
      BY <2>3, PutShape
    <3>1. attempted' \in [Runs -> SUBSET Objects]
      BY <3>0 DEF Stock
    <3>2. \A r \in Runs : attempted[r] \subseteq attempted'[r]
      BY <3>0 DEF Stock
    <3>3. n \in attempted'[p]
      BY <3>0 DEF Stock
    <3>4. Known \subseteq Known' /\ o \in Known'
      BY <1>1, <3>0, <3>1, <3>2, <3>3 DEF Known
    <3>5. tracked' \in [Runs -> SUBSET {<<x>> : x \in Objects}]
      BY <3>0 DEF Stock
    <3>6. \A r \in Runs : tracked'[r] \subseteq {<<x>> : x \in attempted'[r]}
      BY <3>0, <3>2, <3>3 DEF Stock
    <3>7. o.by = p /\ o \notin Alien
      <4>1. o.by = p
        BY DEF Obj
      <4> QED BY <4>1, ObjectTypes
    <3> HIDE DEF o
    <3>8. bucket' \subseteq bucket \cup {o} /\ limbo' \subseteq limbo \cup {o}
          /\ (bucket' \subseteq bucket \/ limbo' = limbo)
      BY <3>0 DEF Stored, Removed
    <3>9. limbo' \cap bucket' = {} /\ \A c \in Cleaners : limbo' \cap before[c] = {}
      BY <3>0, <3>7, <3>8 DEF Stock
    <3> QED BY <3>0, <3>1, <3>4, <3>5, <3>6, <3>8, <3>9 DEF Stock
  <2>4. ASSUME NEW o \in limbo, Land(o) PROVE Stock'
    <3>1. /\ bucket' \subseteq bucket \cup {o} /\ limbo' = limbo \ {o}
          /\ late' \subseteq late \cup {o} /\ UNCHANGED <<attempted, tracked>>
      BY <2>4 DEF Land, Stored, Removed
    <3>2. Known' = Known /\ o \in Known
      BY <3>1 DEF Known, Stock
    <3> QED BY <1>2, <3>1, <3>2 DEF Stock
  <2> QED BY <2>1, <2>2, <2>3, <2>4, StoreSteps
<1>3. ASSUME NEW c \in Cleaners, StartCleaner(c) PROVE Stock'
  <2>1. /\ before' = [before EXCEPT ![c] = bucket]
        /\ UNCHANGED <<bucket, limbo, late, attempted, tracked>>
    BY <1>3 DEF StartCleaner
  <2>2. Known' = Known /\ Known \subseteq Own
    BY <2>1 DEF Known
  <2>3. before' \in [Cleaners -> SUBSET (Own \cup Alien)]
    BY <2>1, <2>2 DEF Stock
  <2>4. \A d \in Cleaners : before'[d] \subseteq Known \cup Alien /\ limbo \cap before'[d] = {}
    BY <2>1 DEF Stock
  <2> QED BY <2>1, <2>2, <2>3, <2>4 DEF Stock
<1> QED BY <1>2, <1>3, StoreSteps

\* Init establishes the frame.
LEMMA FrameInit == Init => Control /\ Stock /\ ErrorHasCause
<1> SUFFICES ASSUME Init PROVE Control /\ Stock /\ ErrorHasCause
  OBVIOUS
<1>1. Control
  <2>1. <<>> \in Strings
    BY DEF Strings
  <2>2. more \in [Procs -> BOOLEAN]
    BY Zenon DEF Init
  <2> QED BY <2>1, <2>2 DEF Init, Control, Places, Ends, Procs
<1>2. Stock
  <2>1. bucket = Alien /\ limbo = {} /\ late = {}
    BY DEF Init, Alien
  <2> QED BY <2>1 DEF Init, Stock
<1>3. ErrorHasCause
  BY DEF Init, ErrorHasCause
<1> QED BY <1>1, <1>2, <1>3

\* The frame holds in every reachable state.
THEOREM FrameHolds == Spec => [](Frame /\ ErrorHasCause)
<1>1. Init => Frame /\ ErrorHasCause
  BY FrameInit DEF Frame
<1>2. (Frame /\ ErrorHasCause) /\ [Next]_vars => (Frame /\ ErrorHasCause)'
  BY ControlStep, StockStep DEF Frame
<1> QED BY <1>1, <1>2, PTL DEF Spec

\* A command that reports an error met a failure or was interrupted: losing an
\* object to another command's delete is no error (safety.go, IsNotFound).
THEOREM ErrorsExplained == Spec => []ErrorHasCause
BY FrameHolds, PTL

(***************************************************************************)
(* What is removed, and by whom.                                           *)
(***************************************************************************)

\* Every key handed to the client ends up in the directory of its command.
LEMMA KeyInside ==
    ASSUME NEW p \in Procs, NEW k \in Strings
    PROVE  /\ Key(p, k) \in Strings
           /\ CfgPrefix(p) # <<>> => IsPrefix(Slashed(CfgPrefix(p)), Key(p, k))
BY CfgTypes, JoinInside DEF Key

\* An object that disappears was in the directory of a command that deletes, or
\* is overwritten by a put of a run.
LEMMA Removals ==
    ASSUME Frame, [Next]_vars, NEW o \in bucket, o \notin bucket'
    PROVE  \/ \E p \in Procs :
                 /\ pc[p] \in {"drive", "cleanup", "delete"}
                 /\ CfgPrefix(p) # <<>> => IsPrefix(Slashed(CfgPrefix(p)), o.key)
           \/ \E r \in Runs : o \in Alien /\ IsPrefix(CfgPrefix(r), o.key)
<1> DEFINE R == \/ \E p \in Procs :
                      /\ pc[p] \in {"drive", "cleanup", "delete"}
                      /\ CfgPrefix(p) # <<>> => IsPrefix(Slashed(CfgPrefix(p)), o.key)
                \/ \E r \in Runs : o \in Alien /\ IsPrefix(CfgPrefix(r), o.key)
<1>1. ASSUME NEW p \in Procs, NEW k, Deletion(p, k) PROVE R
  <2>1. o.key = Key(p, k)
    BY <1>1 DEF Deletion, Removed
  <2> QED BY <1>1, <2>1, KeyInside DEF Deletion
<1>2. ASSUME NEW x \in Own, bucket' = Stored(x) PROVE R
  <2>1. o.key = x.key /\ o # x
    BY <1>2 DEF Stored, Removed
  <2>2. PICK r \in Runs, n \in Objects : x = Obj(r, n)
    BY DEF Own
  <2>3. o.key = Key(r, <<n>>)
    BY <2>1, <2>2 DEF Obj
  <2>4. o \in Alien
    <3>1. ASSUME NEW q \in Runs, NEW m \in Objects, o = Obj(q, m) PROVE FALSE
      <4>1. Key(q, <<m>>) = Key(r, <<n>>)
        BY <2>3, <3>1 DEF Obj
      <4>2. q = r /\ m = n
        BY <4>1, OwnKeys
      <4> QED BY <2>1, <2>2, <3>1, <4>2
    <3>2. o \in Own \cup Alien
      BY DEF Frame, Stock, Known
    <3> QED BY <3>1, <3>2 DEF Own
  <2>5. IsPrefix(CfgPrefix(r), o.key)
    BY <2>3, OwnKey
  <2> QED BY <2>4, <2>5
<1>3. ASSUME NEW p \in Runs, NEW n \in Objects, Put(p, n) PROVE R
  <2>1. Obj(p, n) \in Own /\ bucket' = Stored(Obj(p, n))
    BY <1>3, PutShape DEF Frame
  <2> QED BY <1>2, <2>1
<1>4. ASSUME NEW x \in limbo, Land(x) PROVE R
  <2>1. x \in Own /\ bucket' = Stored(x)
    BY <1>4 DEF Frame, Stock, Known, Land
  <2> QED BY <1>2, <2>1
<1>5. ~Quiet
  BY DEF Quiet
<1> QED BY <1>1, <1>3, <1>4, <1>5, StoreSteps DEF Frame

\* Runs do not disturb each other: an object of a run disappears only while that
\* run drives or cleans up, or while `cleanup` sweeps.
THEOREM RunsApart == Spec => RunsIsolated
<1> DEFINE Apart == \A r \in Runs :
                       Mine(r) \ bucket' # {} =>
                           \/ pc[r] \in {"drive", "cleanup", "delete"}
                           \/ \E c \in Cleaners : pc[c] = "delete"
<1>1. ASSUME Frame, [Next]_vars PROVE Apart
  <2> SUFFICES ASSUME NEW r \in Runs, NEW o \in Mine(r), o \notin bucket'
               PROVE  \/ pc[r] \in {"drive", "cleanup", "delete"}
                      \/ \E c \in Cleaners : pc[c] = "delete"
    OBVIOUS
  <2>1. o \in bucket /\ o.by = r /\ o \notin Alien
    BY ObjectTypes DEF Mine
  <2>2. PICK n \in Objects : o = Obj(r, n)
    <3>1. o \in Own
      BY <1>1, <2>1 DEF Frame, Stock, Known
    <3>2. PICK q \in Runs, n \in Objects : o = Obj(q, n)
      BY <3>1 DEF Own
    <3>3. q = r
      BY <2>1, <3>2 DEF Obj
    <3> QED BY <3>2, <3>3
  <2>3. o.key = Key(r, <<n>>)
    BY <2>2 DEF Obj
  <2>4. PICK p \in Procs :
           /\ pc[p] \in {"drive", "cleanup", "delete"}
           /\ CfgPrefix(p) # <<>> => IsPrefix(Slashed(CfgPrefix(p)), o.key)
    BY <1>1, <2>1, Removals
  <2>5. CASE p \in Runs
    <3>1. IsPrefix(CfgPrefix(p), o.key)
      BY <2>4, <2>5, RunDirectory DEF Directory
    <3>2. p = r
      BY <2>3, <2>5, <3>1, DirectoriesApart
    <3> QED BY <2>4, <3>2
  <2>6. CASE p \in Cleaners
    BY <1>1, <2>4, <2>6 DEF Frame, Control
  <2> QED BY <2>5, <2>6 DEF Procs
<1>2. Frame /\ [Next]_vars => [Apart]_vars
  BY <1>1
<1>3. RunsIsolated <=> [][Apart]_vars
  BY PTL DEF RunsIsolated
<1> QED BY FrameHolds, <1>2, <1>3, PTL DEF Spec

\* Only objects in the directories of the commands can disappear.
LEMMA ForeignStep ==
    ASSUME Base # <<>>,
           \A r \in Runs, k \in Foreign :
              IsPrefix(CfgPrefix(r), k) => IsPrefix(Slashed(Base), k),
           Frame, [Next]_vars, ForeignUntouched
    PROVE  ForeignUntouched'
<1> SUFFICES ASSUME NEW k \in Foreign, ~IsPrefix(Slashed(Base), k)
             PROVE  [key |-> k, by |-> NoRun] \in bucket'
  BY DEF ForeignUntouched
<1> DEFINE o == [key |-> k, by |-> NoRun]
<1>1. o \in bucket /\ o.key = k
  BY DEF ForeignUntouched
<1> HIDE DEF o
<1>2. \A r \in Runs : ~IsPrefix(CfgPrefix(r), k)
  OBVIOUS
<1>3. ASSUME o \notin bucket' PROVE FALSE
  <2>1. PICK p \in Procs :
           CfgPrefix(p) # <<>> => IsPrefix(Slashed(CfgPrefix(p)), k)
    BY <1>1, <1>2, <1>3, Removals
  <2>2. CASE p \in Runs
    BY <1>2, <2>1, <2>2, RunDirectory DEF Directory
  <2>3. CASE p \notin Runs
    BY <2>1, <2>3 DEF CfgPrefix
  <2> QED BY <2>2, <2>3
<1> QED BY <1>3 DEF o

\* No command touches what other programs keep outside the plan's prefix.  The
\* prefix is not empty, and no other program uses a run's ULID behind it.
THEOREM ForeignSafe ==
    ASSUME Base # <<>>,
           \A r \in Runs, k \in Foreign :
              IsPrefix(CfgPrefix(r), k) => IsPrefix(Slashed(Base), k)
    PROVE  Spec => []ForeignUntouched
<1>1. Init => ForeignUntouched
  BY DEF Init, ForeignUntouched
<1>2. Frame /\ [Next]_vars /\ ForeignUntouched => ForeignUntouched'
  BY ForeignStep
<1> QED BY FrameHolds, <1>1, <1>2, PTL DEF Spec

\* With a prefix that ends in a separator, as the default does, a run's ULID
\* cannot be used outside the prefix.
LEMMA DirectoryEncloses ==
    ASSUME Directory(Base), NEW r \in Runs, NEW k \in Foreign, IsPrefix(CfgPrefix(r), k)
    PROVE  IsPrefix(Slashed(Base), k)
<1>1. k \in Strings
  BY RunCommandAssumption DEF Strings
<1>2. /\ CfgPrefix(r) \in Strings /\ IsPrefix(Base, CfgPrefix(r))
      /\ Base \in Strings /\ Slashed(Base) = Base
  BY RunDirectory, SlashedShape DEF Directory
<1> QED BY <1>1, <1>2, PrefixOrder

\* With the default prefix, or one like it, no command touches what other
\* programs keep outside that directory (safety.go:20-22, cleanup.go:15).
THEOREM ForeignSafeDirectory ==
    ASSUME Directory(Base)
    PROVE  Spec => []ForeignUntouched
BY ForeignSafe, DirectoryEncloses DEF Directory

(***************************************************************************)
(* The sweep.                                                              *)
(***************************************************************************)

\* The page of a sweep, and where it goes on, change only in the sweep.
LEMMA SweepSteps ==
    ASSUME [Next]_vars
    PROVE  \/ UNCHANGED sweepVars
           \/ \E p \in Procs : ListPage(p) \/ SweepDelete(p)
<1>1. ASSUME NEW p \in Runs, Driving(p) PROVE UNCHANGED sweepVars
  BY <1>1 DEF Driving, Check, CommandFails, Put, Trim, RunReturns, ReportOK,
     WorkloadDelete, WorkloadsCleaned
<1>2. ASSUME NEW p \in Procs, Sweeping(p), ~ListPage(p), ~SweepDelete(p)
      PROVE  UNCHANGED sweepVars
  BY <1>2 DEF Sweeping, NextPage, SweepReturns, CleaningFails
<1>3. ASSUME NEW p \in Procs, StartCleaner(p) \/ Interrupt(p) \/ Kill(p)
      PROVE  UNCHANGED sweepVars
  BY <1>3 DEF StartCleaner, Interrupt, Kill
<1>4. ASSUME NEW o \in limbo, Land(o) PROVE UNCHANGED sweepVars
  BY <1>4 DEF Land
<1> QED BY <1>1, <1>2, <1>3, <1>4 DEF Next, Terminated, vars, Procs

\* The pages of a sweep hold keys of its prefix only.
Kept == \A p \in Procs : \A k \in page[p] : IsPrefix(SweepPrefix(p), k)

\* No step puts another key in a page.
LEMMA KeptStep ==
    ASSUME Base # <<>>, Frame, Kept, [Next]_vars
    PROVE  Kept'
<1>1. CASE UNCHANGED sweepVars
  BY <1>1 DEF sweepVars, Kept
<1>2. ASSUME NEW p \in Procs, ListPage(p) PROVE Kept'
  <2> DEFINE keys == Listed(p, SweepPrefix(p), token[p])
             got == FirstOf(keys, PageSize)
  <2>1. page' = [page EXCEPT ![p] = got]
    BY <1>2 DEF ListPage
  <2>2. \A q \in Procs : page'[q] = IF q = p THEN got ELSE page[q]
    BY <2>1 DEF Frame, Control
  <2>3. CfgPrefix(p) \in Strings /\ CfgPrefix(p) # <<>>
    BY CfgTypes, RunDirectory DEF CfgPrefix, Directory
  <2> DEFINE s == SweepPrefix(p)
  <2>4. /\ s \in Strings /\ Key(p, s) \in Strings /\ IsPrefix(s, Key(p, s))
    BY <2>3, SlashedShape, KeyInside DEF SweepPrefix
  <2>5. keys \in SUBSET Strings /\ \A k \in keys : IsPrefix(Key(p, s), k)
    <3>1. keys \in SUBSET Strings
      BY ListedTypes DEF Frame
    <3>2. \A k \in keys : IsPrefix(Key(p, s), k)
      BY DEF Listed
    <3> QED BY <3>1, <3>2
  <2>6. got \subseteq keys
    BY DEF FirstOf
  <2> HIDE DEF keys, got, s
  <2>7. \A k \in got : IsPrefix(s, k)
    BY <2>4, <2>5, <2>6, PrefixOrder
  <2> QED BY <2>2, <2>7 DEF Kept, s
<1>3. ASSUME NEW p \in Procs, SweepDelete(p) PROVE Kept'
  <2>1. PICK k : page' = [page EXCEPT ![p] = page[p] \ {k}]
    BY <1>3 DEF SweepDelete, Frame, Control
  <2>2. \A q \in Procs : page'[q] \subseteq page[q]
    BY <2>1 DEF Frame, Control
  <2> QED BY <2>2 DEF Kept
<1> QED BY <1>1, <1>2, <1>3, SweepSteps

\* Types are kept, and a sweep only ever holds keys of its own prefix, whatever
\* else the bucket holds.  (With the empty prefix it is the whole bucket.)
THEOREM TypesHold ==
    ASSUME Base # <<>>
    PROVE  Spec => []TypeOK
<1>1. Init => Kept
  BY DEF Init, Kept
<1>2. Frame /\ Kept /\ [Next]_vars => Kept'
  BY KeptStep
<1>3. Frame /\ Kept => TypeOK
  <2> SUFFICES ASSUME Frame, Kept PROVE TypeOK
    OBVIOUS
  <2>1. \A o \in bucket \cup limbo : o.key \in Seq(Nat) /\ o.by \in Runs \cup {NoRun}
    <3>1. bucket \cup limbo \subseteq Own \cup Alien
      BY DEF Frame, Stock, Known
    <3> QED BY <3>1, ObjectTypes DEF Strings
  <2>2. \A o \in late : o.by \in Runs
    BY ObjectTypes DEF Frame, Stock, Known
  <2>3. token \in [Procs -> Seq(Nat)]
    BY DEF Frame, Control, Strings
  <2> QED BY <2>1, <2>2, <2>3 DEF TypeOK, Frame, Control, Stock, Kept, Places, Ends
<1> QED BY FrameHolds, <1>1, <1>2, <1>3, PTL DEF Spec

\* What a sweep has to find: of a run everything that is left but late puts, of
\* `cleanup` what runs had left under the plan's prefix when it started.
Due(p) ==
    IF p \in Runs THEN Mine(p) \ late
    ELSE {o \in before[p] \cap bucket : IsPrefix(Base, o.key) /\ o.by \in Runs}

\* The sweep lists what it has to find, and deletes the key that it listed.
Reach(p) ==
    \A r \in Runs, n \in Objects :
        (IF p \in Runs THEN r = p ELSE IsPrefix(Base, Key(r, <<n>>))) =>
            /\ IsPrefix(Key(p, SweepPrefix(p)), Key(r, <<n>>))
            /\ Key(p, Key(r, <<n>>)) = Key(r, <<n>>)

\* Where the sweep of a command is, nothing it has to find is behind it.
SweptBy(p) ==
    /\ pc[p] \in {"start", "drive", "report", "cleanup"} => token[p] = <<>>
    /\ pc[p] = "list" => \A o \in Due(p) : Before(token[p], o.key)
    /\ pc[p] = "delete" => \A o \in Due(p) :
          o.key \in page[p] \/ (more[p] /\ Before(token[p], o.key))
    /\ exit[p] = "ok" /\ (p \in Runs => CleanupOn) => Due(p) = {}

Swept == \A p \in Procs : Reach(p) => SweptBy(p)

\* The separator is what decides: a run sweeps its own directory unless the
\* prefix starts with one.
LEMMA RunReaches ==
    ASSUME Base = <<>> \/ Base[1] # Slash, NEW p \in Runs
    PROVE  Reach(p)
<1> DEFINE c == CfgPrefix(p)
<1>1. /\ c \in Strings /\ c # <<>> /\ Slashed(c) = c /\ Len(c) = Len(Base) + 2
      /\ Len(Base) \in Nat /\ c[Len(Base) + 1] = p /\ p # Slash
      /\ Base \in Strings /\ IsPrefix(Base, c)
  BY RunDirectory DEF Directory
<1>2. c[1] # Slash
  <2>1. CASE Base = <<>>
    BY <1>1, <2>1
  <2>2. CASE Base # <<>>
    <3>1. 1 \in 1 .. Len(Base)
      BY <1>1, <2>2 DEF Strings
    <3>2. c[1] = Base[1]
      BY <1>1, <3>1, PrefixMeans
    <3> QED BY <2>2, <3>2
  <2> QED BY <2>1, <2>2
<1>3. Key(p, SweepPrefix(p)) = c
  <2>1. IsPrefix(Slashed(c), c)
    BY <1>1, PrefixOrder
  <2>2. JoinPrefix(c, c) = c
    BY <1>1, <1>2, <2>1, JoinKeeps
  <2> QED BY <1>1, <2>2 DEF Key, SweepPrefix
<1>4. ASSUME NEW n \in Objects
      PROVE  /\ IsPrefix(c, Key(p, <<n>>)) /\ Key(p, Key(p, <<n>>)) = Key(p, <<n>>)
  <2> DEFINE k == Key(p, <<n>>)
  <2>1. k \in Strings /\ k # <<>> /\ IsPrefix(c, k)
    BY OwnKey
  <2> HIDE DEF k, c
  <2>2. k[1] # Slash
    <3>1. 1 \in 1 .. Len(c)
      BY <1>1
    <3>2. k[1] = c[1]
      BY <1>1, <2>1, <3>1, PrefixMeans
    <3> QED BY <1>2, <3>2
  <2>3. JoinPrefix(c, k) = k
    BY <1>1, <2>1, <2>2, JoinKeeps
  <2> QED BY <2>1, <2>3 DEF Key, c, k
<1> HIDE DEF c
<1> QED BY <1>3, <1>4 DEF Reach

\* `cleanup` sweeps the directory of the plan's prefix, if the prefix names one.
LEMMA CleanerReaches ==
    ASSUME Base = <<>> \/ (Directory(Base) /\ Base[1] # Slash), NEW p \in Cleaners
    PROVE  Reach(p)
<1>0. p \notin Runs /\ CfgPrefix(p) = Base /\ Base \in Strings
  BY RunCommandAssumption DEF CfgPrefix, Strings
<1>1. Key(p, SweepPrefix(p)) = Base
  <2>1. CASE Base = <<>>
    <3>1. SweepPrefix(p) = <<Slash>>
      BY <1>0, <2>1 DEF SweepPrefix, Slashed
    <3>2. Trimmed(<<Slash>>) = <<>>
      BY DEF Trimmed
    <3> QED BY <1>0, <2>1, <3>1, <3>2 DEF Key, JoinPrefix
  <2>2. CASE Base # <<>>
    <3>1. Slashed(Base) = Base /\ IsPrefix(Slashed(Base), Base)
      BY <1>0, <2>2, SlashedShape, PrefixOrder
    <3>2. JoinPrefix(Base, Base) = Base
      BY <1>0, <2>2, <3>1, JoinKeeps
    <3> QED BY <1>0, <3>1, <3>2 DEF Key, SweepPrefix
  <2> QED BY <2>1, <2>2
<1>2. ASSUME NEW r \in Runs, NEW n \in Objects, IsPrefix(Base, Key(r, <<n>>))
      PROVE  Key(p, Key(r, <<n>>)) = Key(r, <<n>>)
  <2> DEFINE k == Key(r, <<n>>)
  <2>1. k \in Strings /\ k # <<>> /\ k[Len(Base) + 1] = r /\ r # Slash
    BY OwnKey, RunDirectory
  <2> HIDE DEF k
  <2>2. CASE Base = <<>>
    <3>1. k[1] # Slash
      BY <2>1, <2>2
    <3>2. JoinPrefix(Base, k) = k
      BY <1>0, <2>1, <2>2, <3>1, JoinKeeps
    <3> QED BY <1>0, <3>2 DEF Key, k
  <2>3. CASE Base # <<>>
    <3>1. 1 \in 1 .. Len(Base) /\ IsPrefix(Base, k)
      BY <1>0, <1>2, <2>3 DEF Strings, k
    <3>2. k[1] = Base[1]
      BY <1>0, <2>1, <3>1, PrefixMeans
    <3>3. Slashed(Base) = Base
      BY <1>0, <2>3, SlashedShape
    <3>4. JoinPrefix(Base, k) = k
      BY <1>0, <2>1, <2>3, <3>1, <3>2, <3>3, JoinKeeps
    <3> QED BY <1>0, <3>4 DEF Key, k
  <2> QED BY <2>2, <2>3
<1> QED BY <1>0, <1>1, <1>2 DEF Reach

\* What is due is an object of a run, and in reach.
LEMMA DueShape ==
    ASSUME Frame, NEW p \in Procs, NEW o \in Due(p)
    PROVE  /\ o \in bucket /\ o.key \in Strings /\ o.key # <<>>
           /\ Reach(p) => /\ IsPrefix(Key(p, SweepPrefix(p)), o.key)
                          /\ Key(p, o.key) = o.key
<1>1. o \in bucket /\ o.by \in Runs /\ (IF p \in Runs THEN o.by = p ELSE IsPrefix(Base, o.key))
  BY DEF Due, Mine
<1>2. o \in Own
  BY <1>1, ObjectTypes DEF Frame, Stock, Known
<1>3. PICK r \in Runs, n \in Objects : o = Obj(r, n)
  BY <1>2 DEF Own
<1>4. o.key = Key(r, <<n>>) /\ o.by = r
  BY <1>3 DEF Obj
<1> QED BY <1>1, <1>4, OwnKey DEF Reach

\* Once the sweep may begin, nothing becomes due any more.
LEMMA DueShrinks ==
    ASSUME Frame, [Next]_vars, NEW p \in Procs, pc[p] \notin {"start", "drive"}
    PROVE  Due(p)' \subseteq Due(p)
<1>1. ASSUME NEW o \in Due(p)', o \in bucket PROVE o \in Due(p)
  <2>1. late \subseteq late'
    <3>1. ASSUME NEW x \in limbo, Land(x) PROVE late \subseteq late'
      BY <3>1 DEF Land
    <3>2. ASSUME NEW q \in Runs, NEW n \in Objects, Put(q, n) PROVE late' = late
      BY <3>2 DEF Put, histVars
    <3> QED BY <3>1, <3>2, StoreSteps DEF Frame, Quiet, Deletion
  <2>2. p \in Cleaners => before'[p] = before[p]
    <3>1. ASSUME NEW c \in Cleaners, StartCleaner(c), p \in Cleaners
          PROVE  before'[p] = before[p]
      BY <3>1 DEF StartCleaner, Frame, Stock
    <3> QED BY <3>1, StoreSteps DEF Frame
  <2>3. CASE p \in Runs
    BY <1>1, <2>1, <2>3 DEF Due, Mine
  <2>4. CASE p \notin Runs
    <3>1. p \in Cleaners
      BY <2>4 DEF Procs
    <3> QED BY <1>1, <2>2, <2>4, <3>1 DEF Due
  <2> QED BY <2>3, <2>4
<1>2. ASSUME NEW o \in Due(p)', o \notin bucket PROVE FALSE
  <2>0. /\ o \in bucket'
        /\ p \in Runs => o.by = p /\ o \notin late'
        /\ p \notin Runs => o \in before'[p]
    BY <1>2 DEF Due, Mine
  <2>1. CASE Quiet
    BY <1>2, <2>0, <2>1 DEF Quiet
  <2>2. ASSUME NEW q \in Procs, NEW k, Deletion(q, k) PROVE FALSE
    BY <1>2, <2>0, <2>2 DEF Deletion, Removed
  <2>3. ASSUME NEW q \in Runs, NEW n \in Objects, Put(q, n) PROVE FALSE
    <3>1. /\ pc[q] = "drive" /\ Obj(q, n) \in Own /\ Obj(q, n) \notin Known
          /\ bucket' = Stored(Obj(q, n)) \/ bucket' = bucket
          /\ before' = before
      BY <2>3, PutShape DEF Frame
    <3>2. o = Obj(q, n)
      BY <1>2, <2>0, <3>1 DEF Stored, Removed
    <3>3. o.by = q
      BY <3>2 DEF Obj
    <3>4. p \notin Runs
      BY <2>0, <3>1, <3>3
    <3>5. p \in Cleaners /\ o \in before[p]
      BY <2>0, <3>1, <3>4 DEF Procs
    <3>6. o \in Known \cup Alien
      BY <3>5 DEF Frame, Stock
    <3>7. o \notin Alien
      BY <3>3, ObjectTypes
    <3> QED BY <3>1, <3>2, <3>6, <3>7
  <2>4. ASSUME NEW x \in limbo, Land(x) PROVE FALSE
    <3>1. /\ bucket' = Stored(x) /\ before' = before
          /\ late' = IF pc[x.by] = "drive" THEN late ELSE late \cup {x}
      BY <2>4 DEF Land
    <3>2. o = x
      BY <1>2, <2>0, <3>1 DEF Stored, Removed
    <3>3. CASE p \in Runs
      BY <2>0, <3>1, <3>2, <3>3
    <3>4. CASE p \notin Runs
      <4>1. p \in Cleaners
        BY <3>4 DEF Procs
      <4> QED BY <2>0, <3>1, <3>2, <3>4, <4>1 DEF Frame, Stock
    <3> QED BY <3>3, <3>4
  <2> QED BY <2>1, <2>2, <2>3, <2>4, StoreSteps DEF Frame
<1> QED BY <1>1, <1>2

\* The local state of a process.
Slots(p) == <<pc[p], exit[p], token[p], page[p], more[p]>>

\* A step that moves a process at most from one early place to another, or
\* ends it otherwise than with "ok", keeps what is said about its sweep.
LEMMA EarlyOrEnded ==
    ASSUME NEW p \in Procs,
           \/ /\ pc'[p] \in {"start", "drive", "report", "cleanup"} /\ exit'[p] # "ok"
              /\ token'[p] = <<>>
           \/ /\ pc'[p] = "exited" /\ exit'[p] # "ok"
           \/ /\ pc'[p] = "exited" /\ p \in Runs /\ ~CleanupOn
    PROVE  SweptBy(p)'
BY DEF SweptBy

\* A step that leaves a process where it is keeps it as well.
LEMMA SlotsStay ==
    ASSUME Frame, [Next]_vars, NEW p \in Procs, UNCHANGED Slots(p), SweptBy(p)
    PROVE  SweptBy(p)'
<1>0. /\ pc'[p] = pc[p] /\ exit'[p] = exit[p] /\ token'[p] = token[p]
      /\ page'[p] = page[p] /\ more'[p] = more[p]
  BY DEF Slots
<1>1. CASE pc[p] \in {"start", "drive"}
  <2>1. exit[p] # "ok"
    BY <1>1 DEF Frame, Control
  <2> QED BY <1>0, <1>1, <2>1 DEF SweptBy
<1>2. CASE pc[p] \notin {"start", "drive"}
  <2>1. Due(p)' \subseteq Due(p)
    BY <1>2, DueShrinks
  <2> QED BY <1>0, <2>1 DEF SweptBy
<1> QED BY <1>1, <1>2

\* The steps of one process leave the others where they are.
LEMMA OthersStay ==
    ASSUME Frame, NEW p \in Procs,
           \/ p \in Runs /\ Driving(p)
           \/ StartCleaner(p) \/ Sweeping(p) \/ Interrupt(p) \/ Kill(p),
           NEW q \in Procs, q # p
    PROVE  UNCHANGED Slots(q)
<1>0. /\ pc \in [Procs -> Places] /\ exit \in [Procs -> Ends]
      /\ more \in [Procs -> BOOLEAN] /\ token \in [Procs -> Strings]
      /\ page \in [Procs -> SUBSET Strings]
  BY DEF Frame, Control
<1>1. CASE Driving(p)
  <2>1. UNCHANGED sweepVars /\ pc'[q] = pc[q] /\ exit'[q] = exit[q]
    BY <1>0, <1>1 DEF Driving, Check, CommandFails, Put, Trim, RunReturns, ReportOK,
       WorkloadDelete, WorkloadsCleaned, Exit
  <2> QED BY <2>1 DEF Slots, sweepVars
<1>2. CASE StartCleaner(p) \/ Interrupt(p) \/ Kill(p)
  <2>1. UNCHANGED sweepVars /\ pc'[q] = pc[q] /\ exit'[q] = exit[q]
    BY <1>0, <1>2 DEF StartCleaner, Interrupt, Kill, Exit
  <2> QED BY <2>1 DEF Slots, sweepVars
<1>3. CASE NextPage(p) \/ SweepReturns(p) \/ CleaningFails(p)
  <2>1. UNCHANGED sweepVars /\ pc'[q] = pc[q] /\ exit'[q] = exit[q]
    BY <1>0, <1>3 DEF NextPage, SweepReturns, CleaningFails, Exit
  <2> QED BY <2>1 DEF Slots, sweepVars
<1>4. CASE ListPage(p)
  <2>1. /\ exit' = exit /\ \E x : page' = [page EXCEPT ![p] = x]
        /\ \E x : token' = [token EXCEPT ![p] = x]
        /\ \E x : more' = [more EXCEPT ![p] = x]
        /\ pc' = [pc EXCEPT ![p] = "delete"]
    BY <1>4 DEF ListPage
  <2>2. page'[q] = page[q] /\ token'[q] = token[q] /\ pc'[q] = pc[q]
    BY <1>0, <2>1
  <2>3. more'[q] = more[q]
    BY <1>0, <2>1, Zenon
  <2> QED BY <2>1, <2>2, <2>3 DEF Slots
<1>5. CASE SweepDelete(p)
  <2>1. UNCHANGED <<pc, exit, token, more>> /\ \E x : page' = [page EXCEPT ![p] = x]
    BY <1>5 DEF SweepDelete
  <2> QED BY <1>0, <2>1 DEF Slots
<1> QED BY <1>1, <1>2, <1>3, <1>4, <1>5 DEF Sweeping

\* The steps of a sweep move it past nothing that is due.
LEMMA SweepOnward ==
    ASSUME Frame, [Next]_vars, NEW p \in Procs, Reach(p), SweptBy(p), Sweeping(p)
    PROVE  SweptBy(p)'
<1>0. /\ pc \in [Procs -> Places] /\ exit \in [Procs -> Ends]
      /\ more \in [Procs -> BOOLEAN] /\ token \in [Procs -> Strings]
      /\ page \in [Procs -> SUBSET Strings]
      /\ exit[p] # "none" <=> pc[p] = "exited"
  BY DEF Frame, Control
<1>1. ASSUME NEW o \in Due(p), pc[p] \in {"list", "delete"}
      PROVE  /\ o \in bucket /\ o.key \in Strings
             /\ IsPrefix(Key(p, SweepPrefix(p)), o.key) /\ Key(p, o.key) = o.key
  BY DueShape
<1>2. ASSUME pc[p] \in {"list", "delete"} PROVE Due(p)' \subseteq Due(p)
  BY <1>2, DueShrinks
<1>3. CASE ListPage(p)
  <2> DEFINE keys == Listed(p, SweepPrefix(p), token[p])
             got == FirstOf(keys, PageSize)
  <2>1. /\ pc[p] = "list" /\ page' = [page EXCEPT ![p] = got]
        /\ more' = [more EXCEPT ![p] = Truncated(keys)]
        /\ token' = [token EXCEPT ![p] = IF got = {} THEN token[p] ELSE Greatest(got)]
        /\ pc' = [pc EXCEPT ![p] = "delete"] /\ exit' = exit
    BY <1>0, <1>3 DEF ListPage
  <2>2. page'[p] = got /\ pc'[p] = "delete" /\ exit'[p] # "ok"
    BY <1>0, <2>1
  <2>3. token'[p] = IF got = {} THEN token[p] ELSE Greatest(got)
    BY <1>0, <2>1
  <2>4. more'[p] = Truncated(keys)
    BY <1>0, <2>1, Zenon
  <2>5. ASSUME NEW o \in Due(p)'
        PROVE  o.key \in page'[p] \/ (more'[p] /\ Before(token'[p], o.key))
    <3>1. o \in Due(p)
      BY <1>2, <2>1
    <3>2. Before(token[p], o.key)
      BY <2>1, <3>1 DEF SweptBy
    <3>3. o.key \in keys
      BY <1>1, <2>1, <3>1, <3>2 DEF Listed
    <3>4. keys \in SUBSET Strings /\ IsFiniteSet(keys)
      BY ListedTypes DEF Frame
    <3> HIDE DEF keys
    <3>5. o.key \in got \/ (got # {} /\ Truncated(keys) /\ Before(Greatest(got), o.key))
      BY <3>3, <3>4, PageCut
    <3> HIDE DEF got
    <3> QED BY <2>2, <2>3, <2>4, <3>5, Zenon
  <2> QED BY <2>2, <2>5 DEF SweptBy
<1>4. CASE SweepDelete(p)
  <2>1. PICK k \in FirstOf(page[p], 1) : /\ bucket' = Removed(Key(p, k))
                                         /\ page' = [page EXCEPT ![p] = page[p] \ {k}]
    BY <1>0, <1>4 DEF SweepDelete, DeleteOK
  <2>2. pc[p] = "delete" /\ UNCHANGED <<pc, exit, token, more>>
    BY <1>4 DEF SweepDelete
  <2>3. page'[p] = page[p] \ {k}
    BY <1>0, <2>1
  <2>4. ASSUME NEW o \in Due(p)'
        PROVE  o.key \in page'[p] \/ (more'[p] /\ Before(token'[p], o.key))
    <3>1. o \in Due(p) /\ o \in bucket'
      BY <1>2, <2>2 DEF Due, Mine
    <3>2. o.key # k
      BY <1>1, <2>1, <2>2, <3>1 DEF Removed
    <3>3. o.key \in page[p] \/ (more[p] /\ Before(token[p], o.key))
      BY <2>2, <3>1 DEF SweptBy
    <3> QED BY <2>2, <2>3, <3>2, <3>3
  <2> QED BY <1>0, <2>2, <2>4 DEF SweptBy
<1>5. CASE NextPage(p)
  <2>1. /\ pc[p] = "delete" /\ page[p] = {} /\ pc'[p] = "list"
        /\ UNCHANGED <<exit, token>>
    BY <1>0, <1>5 DEF NextPage, sweepVars
  <2> QED BY <1>0, <1>2, <2>1 DEF SweptBy
<1>6. CASE SweepReturns(p)
  <2>1. pc[p] = "delete" /\ page[p] = {} /\ ~more[p] /\ pc'[p] = "exited"
    BY <1>0, <1>6 DEF SweepReturns, Exit
  <2>2. Due(p) = {}
    BY <2>1 DEF SweptBy
  <2>3. Due(p)' = {}
    BY <1>2, <2>1, <2>2
  <2> QED BY <2>1, <2>3 DEF SweptBy
<1>7. CASE CleaningFails(p)
  <2>1. pc'[p] = "exited" /\ exit'[p] = "error"
    BY <1>0, <1>7 DEF CleaningFails, Exit
  <2> QED BY <2>1, EarlyOrEnded
<1> QED BY <1>3, <1>4, <1>5, <1>6, <1>7 DEF Sweeping

\* Until its sweep begins a command holds no continuation.
LEMMA SweepAhead ==
    ASSUME Frame, [Next]_vars, NEW p \in Procs, SweptBy(p),
           (p \in Runs /\ Driving(p)) \/ StartCleaner(p)
    PROVE  SweptBy(p)'
<1>0. /\ pc \in [Procs -> Places] /\ exit \in [Procs -> Ends]
      /\ exit[p] # "none" <=> pc[p] = "exited"
  BY DEF Frame, Control
<1>1. CASE Check(p) \/ CommandFails(p) \/ RunReturns(p) \/ ReportOK(p)
  <2>1. pc[p] \in {"start", "drive", "report"} /\ token' = token
    BY <1>1 DEF Check, CommandFails, RunReturns, ReportOK, sweepVars
  <2>2. token[p] = <<>> /\ exit[p] # "ok"
    BY <1>0, <2>1 DEF SweptBy
  <2>3. CASE Check(p) \/ CommandFails(p) \/ RunReturns(p)
    BY <1>0, <2>1, <2>2, <2>3, EarlyOrEnded
    DEF Check, CommandFails, RunReturns, Exit
  <2>4. CASE ReportOK(p)
    <3>1. p \in Runs
      BY <2>4, <1>0, <2>1, Frame DEF ReportOK, Frame, Control, Procs
    <3> QED BY <1>0, <2>1, <2>2, <2>4, <3>1, EarlyOrEnded DEF ReportOK, Exit
  <2> QED BY <1>1, <2>3, <2>4
<1>2. ASSUME \/ (\E n \in Objects : Put(p, n))
             \/ Trim(p) \/ WorkloadDelete(p)
      PROVE  SweptBy(p)'
  <2>1. UNCHANGED <<pc, exit, sweepVars>>
    BY <1>2 DEF Put, Trim, WorkloadDelete
  <2>2. UNCHANGED Slots(p)
    BY <2>1 DEF Slots, sweepVars
  <2> QED BY <2>2, SlotsStay
<1>3. CASE WorkloadsCleaned(p)
  <2>1. pc[p] = "cleanup" /\ pc'[p] = "list" /\ exit'[p] # "ok" /\ token'[p] = <<>>
    BY <1>0, <1>3 DEF WorkloadsCleaned, sweepVars, SweptBy
  <2>2. ASSUME NEW o \in Due(p)' PROVE Before(<<>>, o.key)
    <3>1. o \in Due(p)
      BY <2>1, DueShrinks
    <3> QED BY <3>1, DueShape, EmptyFirst
  <2> QED BY <2>1, <2>2 DEF SweptBy
<1>4. CASE StartCleaner(p)
  <2>1. /\ pc[p] = "start" /\ pc'[p] = "list" /\ exit'[p] # "ok" /\ token'[p] = <<>>
        /\ p \in Cleaners /\ bucket' = bucket
    BY <1>0, <1>4 DEF StartCleaner, sweepVars, SweptBy
  <2>2. ASSUME NEW o \in Due(p)' PROVE Before(<<>>, o.key)
    <3>1. o \in bucket /\ o.by \in Runs
      BY <2>1 DEF Due, Mine
    <3>2. o \in Own
      BY <3>1, ObjectTypes DEF Frame, Stock, Known
    <3>3. PICK r \in Runs, n \in Objects : o = Obj(r, n)
      BY <3>2 DEF Own
    <3>4. o.key \in Strings /\ o.key # <<>>
      BY <3>3, OwnKey DEF Obj
    <3> QED BY <3>4, EmptyFirst
  <2> QED BY <2>1, <2>2 DEF SweptBy
<1> QED BY <1>1, <1>2, <1>3, <1>4 DEF Driving

\* A sweep leaves nothing behind it, whatever the other commands do meanwhile.
LEMMA SweptStep ==
    ASSUME Frame, Swept, [Next]_vars
    PROVE  Swept'
<1> SUFFICES ASSUME NEW p \in Procs, Reach(p)
             PROVE  SweptBy(p)'
  BY DEF Swept, Reach, Key, SweepPrefix, CfgPrefix
<1>1. SweptBy(p)
  BY DEF Swept
<1>2. ASSUME NEW q \in Procs,
             \/ q \in Runs /\ Driving(q)
             \/ StartCleaner(q) \/ Sweeping(q) \/ Interrupt(q) \/ Kill(q)
      PROVE  SweptBy(p)'
  <2>1. CASE q # p
    BY <1>1, <1>2, <2>1, OthersStay, SlotsStay
  <2>2. CASE q = p /\ Interrupt(p)
    <3>1. UNCHANGED Slots(p)
      BY <2>2 DEF Interrupt, Slots, sweepVars
    <3> QED BY <1>1, <3>1, SlotsStay
  <2>3. CASE q = p /\ Kill(p)
    <3>1. pc'[p] = "exited" /\ exit'[p] = "killed"
      BY <2>3 DEF Kill, Exit, Frame, Control
    <3> QED BY <3>1, EarlyOrEnded
  <2>4. CASE q = p /\ Sweeping(p)
    BY <1>1, <2>4, SweepOnward
  <2>5. CASE q = p /\ ((p \in Runs /\ Driving(p)) \/ StartCleaner(p))
    BY <1>1, <2>5, SweepAhead
  <2> QED BY <1>2, <2>1, <2>2, <2>3, <2>4, <2>5
<1>3. ASSUME (\E o \in limbo : Land(o)) \/ UNCHANGED vars
      PROVE  SweptBy(p)'
  <2>1. UNCHANGED Slots(p)
    BY <1>3 DEF Land, vars, sweepVars, Slots
  <2> QED BY <1>1, <2>1, SlotsStay
<1>4. Runs \subseteq Procs /\ Cleaners \subseteq Procs
  BY DEF Procs
<1> QED BY <1>2, <1>3, <1>4 DEF Next, Terminated

\* At any time a sweep has deleted what it has to find, holds it in its page or
\* has it still ahead of its continuation token.
THEOREM SweptHolds == Spec => []Swept
<1>1. Init => Swept
  BY DEF Init, Swept, SweptBy, Procs
<1>2. Frame /\ Swept /\ [Next]_vars => Swept'
  BY SweptStep
<1> QED BY <1>1, <1>2, FrameHolds, PTL DEF Spec

\* CleanExit for every prefix that does not start with a separator: a run that
\* succeeded with cleanup on has left nothing but what took effect late.
THEOREM CleanExits ==
    ASSUME Base = <<>> \/ Base[1] # Slash
    PROVE  Spec => []CleanExit
<1>1. Swept => CleanExit
  <2> SUFFICES ASSUME Swept, CleanupOn, NEW r \in Runs, exit[r] = "ok"
               PROVE  Mine(r) \subseteq late
    BY DEF CleanExit
  <2>1. r \in Procs /\ Reach(r)
    BY RunReaches DEF Procs
  <2> QED BY <2>1 DEF Swept, SweptBy, Due
<1> QED BY <1>1, SweptHolds, PTL

\* CleanupRecovers for every prefix that names a directory, as the default does:
\* a `cleanup` that succeeded has deleted what runs had left when it started.
THEOREM RecoveryComplete ==
    ASSUME Base = <<>> \/ (Directory(Base) /\ Base[1] # Slash)
    PROVE  Spec => []CleanupRecovers
<1>1. Swept => CleanupRecovers
  <2> SUFFICES ASSUME Swept, NEW c \in Cleaners, exit[c] = "ok",
                      NEW o \in before[c], IsPrefix(Base, o.key), o.by \in Runs
               PROVE  o \notin bucket
    BY DEF CleanupRecovers
  <2>1. c \in Procs /\ c \notin Runs /\ Reach(c)
    BY RunCommandAssumption, CleanerReaches DEF Procs
  <2> QED BY <2>1 DEF Swept, SweptBy, Due
<1> QED BY <1>1, SweptHolds, PTL
=============================================================================
