-------------------------- MODULE KeyPrefixProofs ---------------------------
(***************************************************************************)
(* Facts about keys: prefixes and the order of a listing, place by place,  *)
(* and what joinPrefix returns.                                            *)
(***************************************************************************)
EXTENDS KeyPrefix, SequenceTheorems, WellFoundedInduction, FiniteSetTheorems, TLAPS

Strings == Seq(Nat)

(***************************************************************************)
(* Prefixes.                                                               *)
(***************************************************************************)

\* A prefix is shorter and agrees place by place.
LEMMA PrefixMeans ==
    ASSUME NEW s \in Strings, NEW t \in Strings
    PROVE  IsPrefix(s, t) <=> Len(s) <= Len(t) /\ \A i \in 1 .. Len(s) : s[i] = t[i]
<1>1. Len(s) \in Nat /\ Len(t) \in Nat /\ s \in Seq(Nat) /\ t \in Seq(Nat)
  BY DEF Strings
<1> SUFFICES ASSUME Len(s) <= Len(t)
             PROVE  SubSeq(s, 1, Len(s)) = SubSeq(t, 1, Len(s))
                        <=> \A i \in 1 .. Len(s) : s[i] = t[i]
  BY DEF IsPrefix
<1> DEFINE a == SubSeq(s, 1, Len(s))
           b == SubSeq(t, 1, Len(s))
           n == Len(s)
<1>2. a = [i \in 1 .. n |-> s[i]]
  BY <1>1, SMTT(30)
<1>3. b = [i \in 1 .. n |-> t[i]]
  BY <1>1, SMTT(30)
<1> HIDE DEF a, b, n
<1>4. a = b <=> \A i \in 1 .. n : s[i] = t[i]
  BY <1>2, <1>3
<1> QED BY <1>4 DEF a, b, n

\* Prefixes are transitive, and every key has itself as a prefix.
LEMMA PrefixOrder ==
    ASSUME NEW a \in Strings, NEW b \in Strings, NEW c \in Strings
    PROVE  /\ IsPrefix(a, a)
           /\ IsPrefix(a, b) /\ IsPrefix(b, c) => IsPrefix(a, c)
<1>1. Len(a) \in Nat /\ Len(b) \in Nat /\ Len(c) \in Nat
  BY DEF Strings
<1> QED BY <1>1, PrefixMeans

\* A concatenation, place by place.
LEMMA JoinedShape ==
    ASSUME NEW s \in Strings, NEW t \in Strings
    PROVE  /\ s \o t \in Strings /\ Len(s \o t) = Len(s) + Len(t)
           /\ \A i \in 1 .. Len(s) : (s \o t)[i] = s[i]
           /\ \A i \in 1 .. Len(t) : (s \o t)[Len(s) + i] = t[i]
           /\ IsPrefix(s, s \o t)
<1>1. s \in Seq(Nat) /\ t \in Seq(Nat) /\ Len(s) \in Nat /\ Len(t) \in Nat
  BY DEF Strings
<1>2. /\ s \o t \in Strings /\ Len(s \o t) = Len(s) + Len(t)
      /\ \A i \in 1 .. Len(s) + Len(t) : (s \o t)[i] =
            IF i <= Len(s) THEN s[i] ELSE t[i - Len(s)]
  BY <1>1, ConcatProperties DEF Strings
<1>3. \A i \in 1 .. Len(s) : (s \o t)[i] = s[i]
  BY <1>1, <1>2
<1>4. ASSUME NEW i \in 1 .. Len(t) PROVE (s \o t)[Len(s) + i] = t[i]
  <2> DEFINE j == Len(s) + i
  <2>1. j \in 1 .. Len(s) + Len(t) /\ ~(j <= Len(s)) /\ j - Len(s) = i
    BY <1>1
  <2> HIDE DEF j
  <2>2. (s \o t)[j] = t[i]
    BY <1>2, <2>1
  <2> QED BY <2>2 DEF j
<1>5. IsPrefix(s, s \o t)
  <2>1. Len(s) <= Len(s \o t) /\ s \o t \in Strings
    BY <1>1, <1>2
  <2> DEFINE st == s \o t
  <2> HIDE DEF st
  <2>2. st \in Strings /\ Len(s) <= Len(st) /\ \A i \in 1 .. Len(s) : s[i] = st[i]
    BY <1>3, <2>1 DEF st
  <2>3. IsPrefix(s, st)
    BY <2>2, PrefixMeans
  <2> QED BY <2>3 DEF st
<1> QED BY <1>2, <1>3, <1>4, <1>5

(***************************************************************************)
(* joinPrefix.                                                             *)
(***************************************************************************)

\* A directory is a prefix that ends in the separator.
Directory(d) == d \in Strings /\ d # <<>> /\ d[Len(d)] = Slash

\* Slashed makes a directory of a prefix and leaves a directory alone.
LEMMA SlashedShape ==
    ASSUME NEW p \in Strings
    PROVE  /\ Slashed(p) \in Strings /\ Directory(Slashed(p)) /\ IsPrefix(p, Slashed(p))
           /\ Directory(p) => Slashed(p) = p
<1>1. CASE Directory(p)
  BY <1>1, PrefixOrder DEF Slashed, Directory
<1>2. CASE ~Directory(p)
  <2>1. Slashed(p) = Append(p, Slash)
    BY <1>2 DEF Slashed, Directory
  <2>2. p \in Seq(Nat) /\ Slash \in Nat /\ Len(p) \in Nat
    BY DEF Strings, Slash
  <2>3. /\ Append(p, Slash) \in Seq(Nat) /\ Append(p, Slash) # <<>>
        /\ Len(Append(p, Slash)) = Len(p) + 1
        /\ \A i \in 1 .. Len(p) : Append(p, Slash)[i] = p[i]
        /\ Append(p, Slash)[Len(p) + 1] = Slash
    BY <2>2, AppendProperties
  <2>4. Slashed(p) \in Strings /\ Directory(Slashed(p))
    BY <2>1, <2>3 DEF Directory, Strings
  <2>5. IsPrefix(p, Slashed(p))
    <3> DEFINE q == Slashed(p)
    <3> HIDE DEF q
    <3>1. q \in Strings /\ Len(p) <= Len(q) /\ \A i \in 1 .. Len(p) : p[i] = q[i]
      BY <2>1, <2>2, <2>3, <2>4 DEF q
    <3>2. IsPrefix(p, q)
      BY <3>1, PrefixMeans
    <3> QED BY <3>2 DEF q
  <2> QED BY <1>2, <2>4, <2>5
<1> QED BY <1>1, <1>2

\* Trimmed returns a key again.
LEMMA TrimmedShape ==
    ASSUME NEW k \in Strings
    PROVE  /\ Trimmed(k) \in Strings
           /\ k # <<>> /\ k[1] # Slash => Trimmed(k) = k
<1>1. k # <<>> => Tail(k) \in Strings
  BY HeadTailProperties DEF Strings
<1> QED BY <1>1 DEF Trimmed

\* What joinPrefix returns is inside the directory of the prefix.
LEMMA JoinInside ==
    ASSUME NEW p \in Strings, NEW k \in Strings
    PROVE  /\ JoinPrefix(p, k) \in Strings
           /\ p # <<>> => IsPrefix(Slashed(p), JoinPrefix(p, k))
<1>1. Trimmed(k) \in Strings /\ Slashed(p) \in Strings
  BY SlashedShape, TrimmedShape
<1>2. /\ Slashed(p) \o Trimmed(k) \in Strings
      /\ IsPrefix(Slashed(p), Slashed(p) \o Trimmed(k))
  BY <1>1, JoinedShape
<1> QED BY <1>1, <1>2 DEF JoinPrefix

\* A key that is inside already is left alone, unless it starts with a separator.
LEMMA JoinKeeps ==
    ASSUME NEW p \in Strings, NEW k \in Strings, k # <<>>, k[1] # Slash,
           p = <<>> \/ IsPrefix(Slashed(p), k)
    PROVE  JoinPrefix(p, k) = k
BY TrimmedShape DEF JoinPrefix

(***************************************************************************)
(* The order of a listing.                                                 *)
(***************************************************************************)

\* A set of natural numbers has a least element.
LEMMA Least ==
    ASSUME NEW T \in SUBSET Nat, T # {}
    PROVE  \E x \in T : \A y \in T : ~(y < x)
<1>1. PICK n \in Nat : n \in T
  OBVIOUS
<1> DEFINE S == 0 .. n
           Below == {U \in SUBSET S : \E k \in T : k <= n /\ U = 0 .. k}
           R == StrictSubsetOrdering(S)
           F == FiniteSubsetsOf(S)
<1>2. IsFiniteSet(S)
  BY FS_Interval
<1>3. IsWellFoundedOn(R, F) /\ F = SUBSET S
  <2> HIDE DEF S
  <2> QED BY <1>2, FS_StrictSubsetOrderingWellFounded, FS_FiniteSubsetsOfFinite
<1>4. PICK U \in Below : \A V \in Below : ~(<<V, U>> \in R)
  <2>1. 0 .. n \in Below
    BY <1>1
  <2> HIDE DEF Below, R, F
  <2>2. Below \subseteq F /\ Below # {}
    BY <1>3, <2>1 DEF Below
  <2> QED BY <1>3, <2>2, WFMin
<1>5. PICK x \in T : x <= n /\ U = 0 .. x
  BY <1>4
<1>6. ASSUME NEW y \in T, y < x PROVE FALSE
  <2>1. y \in Nat /\ x \in Nat /\ y <= n
    BY <1>1, <1>5, <1>6
  <2>2. 0 .. y \in Below /\ 0 .. x \in SUBSET S
    BY <1>1, <1>5, <2>1
  <2>3. 0 .. y \subseteq 0 .. x /\ x \in 0 .. x /\ x \notin 0 .. y
    BY <1>6, <2>1
  <2>4. 0 .. y \in SUBSET S
    BY <2>2
  <2>5. <<0 .. y, 0 .. x>> \in R
    <3> HIDE DEF S
    <3> QED BY <2>2, <2>3, <2>4, Zenon DEF StrictSubsetOrdering
  <2> HIDE DEF Below, R
  <2> QED BY <1>4, <1>5, <2>2, <2>5
<1> QED BY <1>6

\* Before, place by place.
LEMMA BeforeMeans ==
    ASSUME NEW j \in Strings, NEW k \in Strings
    PROVE  Before(j, k) <=> \E i \in 1 .. Len(k) :
                               /\ i <= Len(j) + 1
                               /\ \A x \in 1 .. i - 1 : j[x] = k[x]
                               /\ Len(j) >= i => j[i] < k[i]
<1>1. Len(j) \in Nat /\ Len(k) \in Nat /\ j \in Seq(Nat) /\ k \in Seq(Nat)
  BY DEF Strings
<1>2. ASSUME NEW i \in 1 .. Len(k), i <= Len(j) + 1
      PROVE  SubSeq(j, 1, i - 1) = SubSeq(k, 1, i - 1)
                 <=> \A x \in 1 .. i - 1 : j[x] = k[x]
  <2> DEFINE a == SubSeq(j, 1, i - 1)
             b == SubSeq(k, 1, i - 1)
             n == i - 1
  <2>0. n \in Nat /\ n <= Len(j) /\ n <= Len(k)
    BY <1>1, <1>2
  <2> HIDE DEF n
  <2>1. SubSeq(j, 1, n) = [x \in 1 .. n |-> j[x]]
    BY <1>1, <2>0, SMTT(30)
  <2>2. SubSeq(k, 1, n) = [x \in 1 .. n |-> k[x]]
    BY <1>1, <2>0, SMTT(30)
  <2>3. SubSeq(j, 1, n) = SubSeq(k, 1, n) <=> \A x \in 1 .. n : j[x] = k[x]
    BY <2>1, <2>2
  <2> QED BY <2>3 DEF n
<1> QED BY <1>2 DEF Before

\* Keys are totally ordered, and the empty one comes first.
LEMMA BeforeOrder ==
    ASSUME NEW a \in Strings, NEW b \in Strings, NEW c \in Strings
    PROVE  /\ ~Before(a, a)
           /\ Before(a, b) /\ Before(b, c) => Before(a, c)
           /\ a = b \/ Before(a, b) \/ Before(b, a)
<1>1. /\ Len(a) \in Nat /\ Len(b) \in Nat /\ Len(c) \in Nat
      /\ \A i \in 1 .. Len(a) : a[i] \in Nat
      /\ \A i \in 1 .. Len(b) : b[i] \in Nat
      /\ \A i \in 1 .. Len(c) : c[i] \in Nat
      /\ a = [i \in 1 .. Len(a) |-> a[i]] /\ b = [i \in 1 .. Len(b) |-> b[i]]
  BY DEF Strings
<1>2. ~Before(a, a)
  BY <1>1, BeforeMeans
<1>3. ASSUME Before(a, b), Before(b, c) PROVE Before(a, c)
  <2>1. PICK i \in 1 .. Len(b) : /\ i <= Len(a) + 1
                                 /\ \A x \in 1 .. i - 1 : a[x] = b[x]
                                 /\ Len(a) >= i => a[i] < b[i]
    BY <1>3, BeforeMeans
  <2>2. PICK h \in 1 .. Len(c) : /\ h <= Len(b) + 1
                                 /\ \A x \in 1 .. h - 1 : b[x] = c[x]
                                 /\ Len(b) >= h => b[h] < c[h]
    BY <1>3, BeforeMeans
  <2>3. CASE i < h
    <3>1. i \in 1 .. Len(c) /\ b[i] = c[i]
      BY <1>1, <2>1, <2>2, <2>3
    <3>2. \A x \in 1 .. i - 1 : a[x] = c[x]
      BY <1>1, <2>1, <2>2, <2>3
    <3> QED BY <2>1, <3>1, <3>2, BeforeMeans
  <2>4. CASE h < i
    <3>1. h \in 1 .. Len(a) /\ h \in 1 .. Len(b) /\ a[h] = b[h] /\ b[h] < c[h]
      BY <1>1, <2>1, <2>2, <2>4
    <3>2. \A x \in 1 .. h - 1 : a[x] = c[x]
      BY <1>1, <2>1, <2>2, <2>4
    <3>3. h <= Len(a) + 1 /\ a[h] < c[h]
      BY <1>1, <3>1
    <3> QED BY <3>2, <3>3, BeforeMeans
  <2>5. CASE h = i
    <3>1. h \in 1 .. Len(b) /\ b[h] < c[h]
      BY <1>1, <2>1, <2>2, <2>5
    <3>2. \A x \in 1 .. h - 1 : a[x] = c[x]
      BY <1>1, <2>1, <2>2, <2>5
    <3>3. h <= Len(a) + 1 /\ (Len(a) >= h => a[h] < c[h])
      BY <1>1, <2>1, <2>5, <3>1
    <3> QED BY <3>2, <3>3, BeforeMeans
  <2> QED BY <2>3, <2>4, <2>5
<1>4. ASSUME a # b PROVE Before(a, b) \/ Before(b, a)
  <2> DEFINE D == {i \in Nat : /\ i >= 1 /\ i <= Len(a) + 1 /\ i <= Len(b) + 1
                               /\ i > Len(a) \/ i > Len(b) \/ a[i] # b[i]}
  <2>1. D # {}
    <3>1. CASE Len(a) <= Len(b)
      <4>1. Len(a) + 1 \in D
        BY <1>1, <3>1
      <4> QED BY <4>1
    <3>2. CASE Len(b) < Len(a)
      <4>1. Len(b) + 1 \in D
        BY <1>1, <3>2
      <4> QED BY <4>1
    <3> QED BY <1>1, <3>1, <3>2
  <2>2. PICK m \in D : \A y \in D : ~(y < m)
    <3> HIDE DEF D
    <3>1. D \in SUBSET Nat
      BY DEF D
    <3> QED BY <2>1, <3>1, Least
  <2>3. /\ m \in Nat /\ m >= 1 /\ m <= Len(a) + 1 /\ m <= Len(b) + 1
        /\ m > Len(a) \/ m > Len(b) \/ a[m] # b[m]
    BY <2>2
  <2>4. \A x \in 1 .. m - 1 : x \in 1 .. Len(a) /\ x \in 1 .. Len(b) /\ a[x] = b[x]
    <3> SUFFICES ASSUME NEW x \in 1 .. m - 1
                 PROVE  x \in 1 .. Len(a) /\ x \in 1 .. Len(b) /\ a[x] = b[x]
      OBVIOUS
    <3>1. x \notin D
      <4> HIDE DEF D
      <4> QED BY <2>2, <2>3
    <3>2. x \in Nat /\ x >= 1 /\ x <= Len(a) /\ x <= Len(b)
      BY <1>1, <2>3
    <3> QED BY <1>1, <3>1, <3>2
  <2> HIDE DEF D
  <2>5. CASE m > Len(a) /\ m > Len(b)
    <3>1. Len(a) = m - 1 /\ Len(b) = m - 1
      BY <1>1, <2>3, <2>5
    <3>2. a = b
      BY <1>1, <2>4, <3>1
    <3> QED BY <1>4, <3>2
  <2>6. CASE m > Len(a) /\ m <= Len(b)
    <3>1. m \in 1 .. Len(b) /\ ~(Len(a) >= m)
      BY <1>1, <2>3, <2>6
    <3> QED BY <2>3, <2>4, <3>1, BeforeMeans
  <2>7. CASE m <= Len(a) /\ m > Len(b)
    <3>1. m \in 1 .. Len(a) /\ ~(Len(b) >= m)
      BY <1>1, <2>3, <2>7
    <3> QED BY <2>3, <2>4, <3>1, BeforeMeans
  <2>8. CASE m <= Len(a) /\ m <= Len(b)
    <3>1. m \in 1 .. Len(a) /\ m \in 1 .. Len(b) /\ a[m] # b[m]
      BY <1>1, <2>3, <2>8
    <3>2. a[m] < b[m] \/ b[m] < a[m]
      BY <1>1, <3>1
    <3> QED BY <2>3, <2>4, <3>1, <3>2, BeforeMeans
  <2> QED BY <1>1, <2>3, <2>5, <2>6, <2>7, <2>8
<1> QED BY <1>2, <1>3, <1>4

\* The empty key, which no continuation token is, comes before every other one.
LEMMA EmptyFirst ==
    ASSUME NEW k \in Strings, k # <<>>
    PROVE  Before(<<>>, k)
<1>1. <<>> \in Strings /\ Len(<<>>) = 0 /\ Len(k) \in Nat /\ Len(k) # 0
  BY DEF Strings
<1>2. 1 \in 1 .. Len(k) /\ 1 <= Len(<<>>) + 1 /\ ~(Len(<<>>) >= 1) /\ 1 .. 1 - 1 = {}
  BY <1>1
<1> QED BY <1>1, <1>2, BeforeMeans

\* A finite nonempty set of keys has a last and a first element.
LEMMA Extremes ==
    ASSUME NEW es \in SUBSET Strings, es # {}, IsFiniteSet(es)
    PROVE  /\ \E e \in es : \A d \in es : ~Before(e, d)
           /\ \E e \in es : \A d \in es : ~Before(d, e)
<1> DEFINE Has(T) == /\ \E e \in T : \A d \in T : ~Before(e, d)
                     /\ \E e \in T : \A d \in T : ~Before(d, e)
           Lacking == {T \in SUBSET es : T # {} /\ ~Has(T)}
           R == StrictSubsetOrdering(es)
           F == FiniteSubsetsOf(es)
<1>1. IsWellFoundedOn(R, F) /\ F = SUBSET es
  BY FS_StrictSubsetOrderingWellFounded, FS_FiniteSubsetsOfFinite
<1>2. ASSUME Lacking # {} PROVE FALSE
  <2>1. PICK T \in Lacking : \A U \in Lacking : ~(<<U, T>> \in R)
    <3> HIDE DEF Lacking, R, F
    <3>1. Lacking \subseteq F
      BY <1>1 DEF Lacking
    <3> QED BY <1>1, <1>2, <3>1, WFMin
  <2>2. PICK x \in T : TRUE
    BY <2>1
  <2> DEFINE U == T \ {x}
  <2>3. <<U, T>> \in R
    BY <2>1, <2>2 DEF StrictSubsetOrdering
  <2>4. U \in SUBSET es /\ U \notin Lacking
    BY <2>1, <2>3
  <2>5. CASE U = {}
    <3>1. T = {x} /\ x \in Strings
      BY <2>1, <2>2, <2>5
    <3>2. Has(T)
      BY <3>1, BeforeOrder
    <3> QED BY <2>1, <3>2
  <2>6. CASE U # {}
    <3>1. Has(U)
      BY <2>4, <2>6
    <3>2. PICK hi \in U : \A d \in U : ~Before(hi, d)
      BY <3>1
    <3>3. PICK lo \in U : \A d \in U : ~Before(d, lo)
      BY <3>1
    <3> HIDE DEF Has
    <3>4. T = U \cup {x} /\ U \in SUBSET Strings /\ x \in Strings /\ hi \in Strings /\ lo \in Strings
      BY <2>1, <2>2
    <3> HIDE DEF U
    <3>5. \E e \in T : \A d \in T : ~Before(e, d)
      <4>1. CASE Before(hi, x)
        <5>1. \A d \in U : ~Before(x, d)
          BY <3>2, <3>4, <4>1, BeforeOrder
        <5> QED BY <3>4, <5>1, BeforeOrder
      <4>2. CASE ~Before(hi, x)
        BY <3>2, <3>4, <4>2
      <4> QED BY <4>1, <4>2
    <3>6. \E e \in T : \A d \in T : ~Before(d, e)
      <4>1. CASE Before(x, lo)
        <5>1. \A d \in U : ~Before(d, x)
          BY <3>3, <3>4, <4>1, BeforeOrder
        <5> QED BY <3>4, <5>1, BeforeOrder
      <4>2. CASE ~Before(x, lo)
        BY <3>3, <3>4, <4>2
      <4> QED BY <4>1, <4>2
    <3>7. Has(T)
      BY <3>5, <3>6 DEF Has
    <3> QED BY <2>1, <3>7
  <2> QED BY <2>5, <2>6
<1> QED BY <1>2

=============================================================================
