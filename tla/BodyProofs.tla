----------------------------- MODULE BodyProofs -----------------------------
(***************************************************************************)
(* Proofs about BodyReader: a body is what its caller asked for, whatever  *)
(* the block, the buffers and the seeks.  The inductive invariant says who *)
(* has each reader, and ties a reader's fields to what its caller has had. *)
(***************************************************************************)
EXTENDS BodyReader, SequenceTheorems, TLAPS

Types ==
    /\ size \in [Readers -> Nat] /\ offset \in [Readers -> Nat] /\ pool \subseteq Readers
    /\ held \in [Callers -> SUBSET Readers] /\ wanted \in [Callers -> Nat]
    /\ from \in [Callers -> Nat] /\ got \in [Callers -> Seq(Nat)]

\* A reader is in the pool or with one caller, who has no other.
Owned ==
    \A c \in Callers :
        /\ held[c] \cap pool = {}
        /\ \A r, s \in held[c] : r = s
        /\ \A d \in Callers : d # c => held[c] \cap held[d] = {}

\* The i-th byte after place a of the unrolled ring.
Unrolled(s, a) == \A i \in 1 .. Len(s) : s[i] = (a + i - 1) % Block

\* The reader of a caller is where its caller has read to.
Follows(c, r) ==
    /\ size[r] = wanted[c] /\ offset[r] <= size[r]
    /\ offset[r] = from[c] + Len(got[c]) /\ Unrolled(got[c], from[c])

Inv == Types /\ Owned /\ \A c \in Callers : \A r \in held[c] : Follows(c, r)

\* A place of the unrolled ring is its distance from the last turn.
LEMMA RingPlace ==
    ASSUME NEW a \in Nat, NEW s \in 0 .. Block - 1, NEW q \in Int, a = (Block * q) + s
    PROVE  a % Block = s
<1>0. Block \in Nat \ {0}
  BY BodyReaderAssumption
<1>1. /\ (a % Block) \in 0 .. Block - 1 /\ a \div Block \in Int
      /\ a = (Block * (a \div Block)) + (a % Block)
  BY <1>0
<1>2. PICK p \in Int, r \in 0 .. Block - 1 : a = (Block * p) + r /\ r = a % Block
  BY <1>1
<1>3. (Block * p) + r = (Block * q) + s
  BY <1>2
<1>4. p = q
  BY <1>0, <1>3
<1>5. PICK x \in Int : x = Block * p /\ x = Block * q
  BY <1>0, <1>4
<1>6. x + r = x + s
  BY <1>3, <1>5
<1>7. r = s
  BY <1>6
<1> QED BY <1>2, <1>7

\* A part of the ring that does not wrap.
LEMMA SliceShape ==
    ASSUME NEW a \in Nat, NEW n \in Nat
    PROVE  /\ Slice(a, a + n) \in Seq(Nat) /\ Len(Slice(a, a + n)) = n
           /\ \A i \in 1 .. n : Slice(a, a + n)[i] = a + i - 1
<1>1. (a + n) - a = n
  OBVIOUS
<1>2. Slice(a, a + n) = [i \in 1 .. n |-> a + i - 1]
  BY <1>1 DEF Slice
<1>3. \A i \in 1 .. n : a + i - 1 \in Nat
  OBVIOUS
<1> QED BY <1>2, <1>3

\* The two parts that Read copies are the next n bytes of the unrolled ring.
LEMMA PartsUnroll ==
    ASSUME NEW a \in Nat, NEW n \in Nat,
           n - Lesser(n, Block - (a % Block)) <= Block
    PROVE  LET start == a % Block
               first == Lesser(n, Block - start)
               s == Slice(start, start + first) \o Rest(start, n - first)
           IN s \in Seq(Nat) /\ Len(s) = n /\ Unrolled(s, a)
<1>0. Block \in Nat \ {0}
  BY BodyReaderAssumption
<1>1. PICK start \in 0 .. Block - 1, q \in Int : start = a % Block /\ a = (Block * q) + start
  <2>1. /\ (a % Block) \in 0 .. Block - 1 /\ a \div Block \in Int
        /\ a = (Block * (a \div Block)) + (a % Block)
    BY <1>0
  <2> QED BY <2>1
<1>2. PICK first \in Nat : /\ first = Lesser(n, Block - start) /\ first <= n
                           /\ first <= Block - start /\ n - first <= Block
                           /\ first = n \/ first = Block - start
  BY <1>0, <1>1 DEF Lesser
<1> DEFINE s1 == Slice(start, start + first)
           s2 == Rest(start, n - first)
<1>3. /\ s1 \in Seq(Nat) /\ Len(s1) = first
      /\ \A i \in 1 .. first : s1[i] = start + i - 1
  <2>1. start \in Nat /\ first \in Nat
    BY <1>0, <1>1, <1>2
  <2> QED BY <2>1, SliceShape
<1>4. /\ s2 \in Seq(Nat) /\ Len(s2) = n - first
      /\ \A i \in 1 .. n - first : s2[i] = i - 1
  <2>1. PICK m \in Nat : m = n - first
    BY <1>2
  <2>2. s2 = Slice(0, 0 + m)
    BY <2>1 DEF Rest
  <2>3. /\ s2 \in Seq(Nat) /\ Len(s2) = m
        /\ \A i \in 1 .. m : s2[i] = 0 + i - 1
    BY <2>2, SliceShape
  <2> QED BY <2>1, <2>3
<1> HIDE DEF s1, s2
<1>5. /\ s1 \o s2 \in Seq(Nat) /\ Len(s1 \o s2) = Len(s1) + Len(s2)
      /\ \A i \in 1 .. Len(s1) + Len(s2) :
            (s1 \o s2)[i] = IF i <= Len(s1) THEN s1[i] ELSE s2[i - Len(s1)]
  BY <1>3, <1>4, ConcatProperties
<1>6. Len(s1 \o s2) = n
  BY <1>2, <1>3, <1>4, <1>5
<1>7. ASSUME NEW i \in 1 .. n PROVE (s1 \o s2)[i] = (a + i - 1) % Block
  <2>0. a + i - 1 \in Nat
    OBVIOUS
  <2>1. CASE i <= first
    <3>1. (s1 \o s2)[i] = start + i - 1
      BY <1>2, <1>3, <1>4, <1>5, <2>1
    <3>2. /\ a + i - 1 = (Block * q) + (start + i - 1)
          /\ start + i - 1 \in 0 .. Block - 1
      BY <1>0, <1>1, <1>2, <2>1
    <3> QED BY <2>0, <3>1, <3>2, RingPlace
  <2>2. CASE ~(i <= first)
    <3>1. PICK j \in 1 .. n - first : j = i - first
      BY <1>2, <2>2
    <3>2. (s1 \o s2)[i] = j - 1
      <4>1. i \in 1 .. Len(s1) + Len(s2) /\ ~(i <= Len(s1)) /\ i - Len(s1) = j
        BY <1>2, <1>3, <1>4, <2>2, <3>1
      <4>2. (s1 \o s2)[i] = s2[j]
        BY <1>5, <4>1
      <4> QED BY <1>4, <4>2
    <3>3. first = Block - start
      BY <1>2, <2>2
    <3>4. /\ a + i - 1 = (Block * (q + 1)) + (j - 1)
          /\ j - 1 \in 0 .. Block - 1 /\ q + 1 \in Int
      BY <1>0, <1>1, <1>2, <3>1, <3>3
    <3>5. PICK b \in Nat : b = a + i - 1
      BY <2>0
    <3>6. b % Block = j - 1
      BY <3>4, <3>5, RingPlace
    <3> QED BY <3>2, <3>5, <3>6
  <2> QED BY <1>2, <2>1, <2>2
<1> QED BY <1>1, <1>2, <1>5, <1>6, <1>7 DEF Unrolled, s1, s2

\* What is read on from an unrolled part of the ring is unrolled too.
LEMMA UnrolledOn ==
    ASSUME NEW a \in Nat, NEW s \in Seq(Nat), NEW r \in Seq(Nat),
           Unrolled(s, a), Unrolled(r, a + Len(s))
    PROVE  /\ s \o r \in Seq(Nat) /\ Len(s \o r) = Len(s) + Len(r)
           /\ Unrolled(s \o r, a)
<1>1. /\ s \o r \in Seq(Nat) /\ Len(s \o r) = Len(s) + Len(r)
      /\ \A i \in 1 .. Len(s) + Len(r) :
            (s \o r)[i] = IF i <= Len(s) THEN s[i] ELSE r[i - Len(s)]
  BY ConcatProperties
<1>2. Len(s) \in Nat /\ Len(r) \in Nat
  BY LenProperties
<1>3. ASSUME NEW i \in 1 .. Len(s) + Len(r) PROVE (s \o r)[i] = (a + i - 1) % Block
  <2>1. CASE i <= Len(s)
    <3>1. i \in 1 .. Len(s) /\ (s \o r)[i] = s[i]
      BY <1>1, <1>2, <2>1
    <3> QED BY <3>1 DEF Unrolled
  <2>2. CASE ~(i <= Len(s))
    <3> DEFINE j == i - Len(s)
    <3>1. j \in 1 .. Len(r)
      BY <1>2, <2>2
    <3>2. (s \o r)[i] = r[j] /\ (a + Len(s)) + j - 1 = a + i - 1
      BY <1>1, <1>2, <2>2
    <3> HIDE DEF j
    <3>3. r[j] = ((a + Len(s)) + j - 1) % Block
      BY <3>1 DEF Unrolled
    <3> QED BY <3>2, <3>3
  <2> QED BY <2>1, <2>2
<1> QED BY <1>1, <1>3 DEF Unrolled

\* What Read and Seek do to a caller's reader and to nobody else's.
LEMMA OthersKept ==
    ASSUME Inv, NEW c \in Callers, NEW r \in held[c],
           UNCHANGED <<size, pool, held, wanted>>,
           \A s \in Readers : s # r => offset'[s] = offset[s],
           \A d \in Callers : d # c => from'[d] = from[d] /\ got'[d] = got[d],
           Types', Follows(c, r)'
    PROVE  Inv'
<1>1. Owned'
  BY DEF Inv, Owned
<1>2. ASSUME NEW d \in Callers, NEW s \in held'[d] PROVE Follows(d, s)'
  <2>1. CASE d = c
    BY <1>2, <2>1 DEF Inv, Owned
  <2>2. CASE d # c
    <3>1. s # r /\ s \in Readers /\ Follows(d, s)
      BY <1>2, <2>2 DEF Inv, Owned, Types
    <3> QED BY <2>2, <3>1 DEF Follows, Unrolled
  <2> QED BY <2>1, <2>2
<1> QED BY <1>1, <1>2 DEF Inv

\* Reading and seeking keep a body in step with its reader.
THEOREM InvHolds == Spec => []Inv
<1>0. Block \in Nat \ {0} /\ Sizes \subseteq Nat /\ Buffers \subseteq Nat \ {0}
      /\ Moves \subseteq Int
  BY BodyReaderAssumption
<1>1. Init => Inv
  BY DEF Init, Inv, Types, Owned
<1>2. Inv /\ [Next]_vars => Inv'
  <2> SUFFICES ASSUME Inv, [Next]_vars PROVE Inv'
    OBVIOUS
  <2>0. /\ size \in [Readers -> Nat] /\ offset \in [Readers -> Nat] /\ pool \subseteq Readers
        /\ held \in [Callers -> SUBSET Readers] /\ wanted \in [Callers -> Nat]
        /\ from \in [Callers -> Nat] /\ got \in [Callers -> Seq(Nat)]
    BY DEF Inv, Types
  <2>1. ASSUME NEW c \in Callers, NewReader(c) PROVE Inv'
    <3>1. PICK r \in pool, n \in Sizes :
             /\ size' = [size EXCEPT ![r] = n] /\ offset' = [offset EXCEPT ![r] = 0]
             /\ pool' = pool \ {r} /\ held' = [held EXCEPT ![c] = {r}]
             /\ wanted' = [wanted EXCEPT ![c] = n]
      BY <2>1 DEF NewReader
    <3>2. /\ from' = [from EXCEPT ![c] = 0] /\ got' = [got EXCEPT ![c] = <<>>]
          /\ r \in Readers /\ n \in Nat /\ <<>> \in Seq(Nat)
      BY <1>0, <2>0, <2>1 DEF NewReader
    <3>3. Types'
      BY <2>0, <3>1, <3>2 DEF Types
    <3>4. /\ held'[c] = {r} /\ r \notin pool' /\ pool' \subseteq pool
          /\ \A d \in Callers : d # c => held'[d] = held[d] /\ r \notin held[d]
      BY <2>0, <3>1 DEF Inv, Owned
    <3>5. Owned'
      BY <3>4 DEF Inv, Owned
    <3>6. Follows(c, r)'
      <4>1. /\ size'[r] = n /\ offset'[r] = 0 /\ wanted'[c] = n /\ from'[c] = 0
            /\ got'[c] = <<>>
        BY <2>0, <3>1, <3>2
      <4>2. Len(got'[c]) = 0
        BY <4>1
      <4> QED BY <3>2, <4>1, <4>2 DEF Follows, Unrolled
    <3>7. ASSUME NEW d \in Callers, d # c, NEW s \in held[d] PROVE Follows(d, s)'
      <4>1. s \in Readers /\ s # r /\ Follows(d, s)
        BY <2>0, <3>4, <3>7 DEF Inv
      <4>2. /\ size'[s] = size[s] /\ offset'[s] = offset[s] /\ wanted'[d] = wanted[d]
            /\ from'[d] = from[d] /\ got'[d] = got[d]
        BY <2>0, <3>1, <3>2, <3>7, <4>1
      <4> QED BY <4>1, <4>2 DEF Follows, Unrolled
    <3> QED BY <3>3, <3>4, <3>5, <3>6, <3>7 DEF Inv
  <2>2. ASSUME NEW c \in Callers, Release(c) PROVE Inv'
    <3>1. PICK r \in held[c] :
             /\ size' = [size EXCEPT ![r] = 0] /\ offset' = [offset EXCEPT ![r] = 0]
             /\ pool' = pool \cup {r}
      BY <2>2 DEF Release
    <3>2. held' = [held EXCEPT ![c] = {}] /\ UNCHANGED <<wanted, from, got>> /\ r \in Readers
      BY <2>0, <2>2 DEF Release, hist
    <3>3. Types'
      BY <2>0, <3>1, <3>2 DEF Types
    <3>4. /\ held'[c] = {} /\ \A s \in held[c] : s = r
          /\ \A d \in Callers : d # c => held'[d] = held[d] /\ r \notin held[d]
      BY <2>0, <3>1, <3>2 DEF Inv, Owned
    <3>5. Owned'
      BY <3>1, <3>4 DEF Inv, Owned
    <3>6. ASSUME NEW d \in Callers, d # c, NEW s \in held[d] PROVE Follows(d, s)'
      <4>1. s \in Readers /\ s # r /\ Follows(d, s)
        BY <2>0, <3>4, <3>6 DEF Inv
      <4>2. size'[s] = size[s] /\ offset'[s] = offset[s]
        BY <2>0, <3>1, <4>1
      <4> QED BY <3>2, <4>1, <4>2 DEF Follows, Unrolled
    <3> QED BY <3>3, <3>4, <3>5, <3>6 DEF Inv
  <2>3. ASSUME NEW c \in Callers, NEW p \in Buffers, Read(c, p) PROVE Inv'
    <3>1. PICK r \in held[c] :
             LET n == Lesser(p, size[r] - offset[r])
                 start == offset[r] % Block
                 first == Lesser(n, Block - start)
             IN /\ offset[r] < size[r]
                /\ \/ UNCHANGED <<offset, got>>
                   \/ /\ n - first <= Block
                      /\ offset' = [offset EXCEPT ![r] = offset[r] + n]
                      /\ got' = [got EXCEPT ![c] = got[c] \o Slice(start, start + first)
                                                          \o Rest(start, n - first)]
      BY <2>3 DEF Read
    <3>2. UNCHANGED <<size, pool, held, wanted, from>> /\ r \in Readers
      BY <2>0, <2>3 DEF Read
    <3>3. CASE UNCHANGED <<offset, got>>
      BY <3>2, <3>3 DEF Inv, Types, Owned, Follows, Unrolled
    <3>4. CASE ~UNCHANGED <<offset, got>>
      <4> DEFINE n == Lesser(p, size[r] - offset[r])
                 start == offset[r] % Block
                 first == Lesser(n, Block - start)
                 s1 == Slice(start, start + first)
                 s2 == Rest(start, n - first)
                 s == s1 \o s2
      <4>1. /\ offset[r] < size[r] /\ n - first <= Block
            /\ offset' = [offset EXCEPT ![r] = offset[r] + n]
            /\ got' = [got EXCEPT ![c] = got[c] \o s1 \o s2]
        BY <3>1, <3>4
      <4>2. n \in Nat /\ n <= size[r] - offset[r] /\ offset[r] \in Nat /\ size[r] \in Nat
        BY <1>0, <2>0, <3>2, <4>1 DEF Lesser
      <4> HIDE DEF n
      <4>3. s \in Seq(Nat) /\ Len(s) = n /\ Unrolled(s, offset[r])
        BY <4>1, <4>2, PartsUnroll
      <4>4. s1 \in Seq(Nat) /\ s2 \in Seq(Nat)
        <5>0. start \in 0 .. Block - 1
          BY <1>0, <4>2
        <5> HIDE DEF start
        <5>1. first \in Nat /\ first <= n
          BY <1>0, <4>2, <5>0 DEF Lesser
        <5> HIDE DEF first
        <5> QED BY <4>2, <5>0, <5>1 DEF Slice, Rest
      <4>5. Follows(c, r) /\ got[c] \in Seq(Nat) /\ from[c] \in Nat /\ Len(got[c]) \in Nat
        BY <2>0, LenProperties DEF Inv
      <4> HIDE DEF s1, s2
      <4>6. got[c] \o s1 \o s2 = got[c] \o s
        <5>1. PICK g \in Seq(Nat) : g = got[c]
          BY <4>5
        <5>2. (g \o s1) \o s2 = g \o (s1 \o s2)
          BY <4>4, ConcatAssociative
        <5> QED BY <5>1, <5>2
      <4> HIDE DEF s
      <4>7. /\ got[c] \o s \in Seq(Nat) /\ Len(got[c] \o s) = Len(got[c]) + n
            /\ Unrolled(got[c] \o s, from[c])
        <5>1. Unrolled(got[c], from[c]) /\ Unrolled(s, from[c] + Len(got[c]))
          BY <4>3, <4>5 DEF Follows
        <5> QED BY <4>3, <4>5, <5>1, UnrolledOn
      <4>8. Types'
        BY <2>0, <3>2, <4>1, <4>2, <4>6, <4>7 DEF Types
      <4>9. got'[c] = got[c] \o s /\ offset'[r] = offset[r] + n
        BY <2>0, <3>2, <4>1, <4>6
      <4>10. Follows(c, r)'
        <5>1. size'[r] = wanted'[c] /\ offset'[r] <= size'[r]
          BY <3>2, <4>2, <4>5, <4>9 DEF Follows
        <5>3. offset[r] + n = from[c] + (Len(got[c]) + n)
          BY <4>2, <4>5 DEF Follows
        <5>4. Len(got'[c]) = Len(got[c]) + n
          BY <4>7, <4>9
        <5>5. offset'[r] = from'[c] + Len(got'[c])
          BY <3>2, <4>9, <5>3, <5>4
        <5>2. Unrolled(got[c], from[c])'
          BY <3>2, <4>7, <4>9 DEF Unrolled
        <5> QED BY <5>1, <5>2, <5>5 DEF Follows
      <4>11. /\ \A x \in Readers : x # r => offset'[x] = offset[x]
             /\ \A d \in Callers : d # c => from'[d] = from[d] /\ got'[d] = got[d]
        BY <2>0, <3>2, <4>1
      <4> QED BY <3>2, <4>8, <4>10, <4>11, OthersKept
    <3> QED BY <3>3, <3>4
  <2>4. ASSUME NEW c \in Callers, NEW whence \in {"start", "current", "end"},
               NEW m \in Moves, Seek(c, whence, m) PROVE Inv'
    <3>1. PICK r \in held[c] :
             LET abs == Target(r, whence, m)
             IN /\ abs >= 0 /\ abs <= size[r]
                /\ offset' = [offset EXCEPT ![r] = abs]
                /\ from' = [from EXCEPT ![c] = abs] /\ got' = [got EXCEPT ![c] = <<>>]
      BY <2>4 DEF Seek
    <3>2. UNCHANGED <<size, pool, held, wanted>> /\ r \in Readers
      BY <2>0, <2>4 DEF Seek
    <3>3. Target(r, whence, m) \in Int
      <4>1. m \in Int /\ offset[r] \in Int /\ size[r] \in Int
        BY <1>0, <2>0, <3>2
      <4> QED BY <4>1 DEF Target
    <3> HIDE DEF Target
    <3> DEFINE abs == Target(r, whence, m)
    <3>4. /\ abs \in Nat /\ abs <= size[r] /\ offset' = [offset EXCEPT ![r] = abs]
          /\ from' = [from EXCEPT ![c] = abs] /\ got' = [got EXCEPT ![c] = <<>>]
      BY <3>1, <3>3
    <3> HIDE DEF abs
    <3>5. Types'
      BY <2>0, <3>2, <3>4 DEF Types
    <3>6. /\ offset'[r] = abs /\ from'[c] = abs /\ got'[c] = <<>>
          /\ \A x \in Readers : x # r => offset'[x] = offset[x]
          /\ \A d \in Callers : d # c => from'[d] = from[d] /\ got'[d] = got[d]
      BY <2>0, <3>2, <3>4
    <3>7. Follows(c, r)'
      <4>1. Len(got'[c]) = 0
        BY <3>6
      <4> QED BY <3>2, <3>4, <3>6, <4>1 DEF Inv, Follows, Unrolled
    <3> QED BY <3>2, <3>5, <3>6, <3>7, OthersKept
  <2>5. CASE UNCHANGED vars
    BY <2>5 DEF vars, fields, hist, Inv, Types, Owned, Follows, Unrolled
  <2> QED BY <2>1, <2>2, <2>3, <2>4, <2>5 DEF Next, Terminated
<1> QED BY <1>1, <1>2, PTL DEF Spec

\* What a caller has read is the ring unrolled from where it last went, and at
\* the end it has had all of the size it asked for and no byte more, whichever
\* readers are reused (bodygen.go, Read, Seek, NewReader and Release).
THEOREM BodiesExact == Spec => []BodyExact
<1>1. Inv => BodyExact
  <2> SUFFICES ASSUME Inv, NEW c \in Callers, NEW r \in held[c]
               PROVE  /\ got[c] = [i \in 1 .. Len(got[c]) |-> (from[c] + i - 1) % Block]
                      /\ from[c] + Len(got[c]) <= wanted[c]
                      /\ offset[r] >= size[r] => from[c] + Len(got[c]) = wanted[c]
    BY DEF BodyExact
  <2>1. /\ Follows(c, r) /\ got[c] \in Seq(Nat) /\ from[c] \in Nat /\ Len(got[c]) \in Nat
        /\ r \in Readers /\ size[r] \in Nat /\ offset[r] \in Nat
    BY LenProperties DEF Inv, Types
  <2>2. got[c] = [i \in 1 .. Len(got[c]) |-> got[c][i]]
    <3>1. got[c] \in [1 .. Len(got[c]) -> Nat]
      BY <2>1, LenProperties
    <3> QED BY <3>1
  <2>3. \A i \in 1 .. Len(got[c]) : got[c][i] = (from[c] + i - 1) % Block
    BY <2>1 DEF Follows, Unrolled
  <2>4. got[c] = [i \in 1 .. Len(got[c]) |-> (from[c] + i - 1) % Block]
    BY <2>2, <2>3
  <2> QED BY <2>1, <2>4 DEF Follows
<1> QED BY <1>1, InvHolds, PTL

\* No read overruns the ring, as the package's comment takes for granted
\* (bodygen.go 21-22), provided that no body, or no buffer, is longer than it.
THEOREM ShortReadsSafe ==
    ASSUME \A p \in Buffers, n \in Sizes : p <= Block \/ n <= Block
    PROVE  Spec => []NeverOverruns
<1> DEFINE Bounded == \A c \in Callers : held[c] # {} => wanted[c] \in Sizes
<1>0. Block \in Nat \ {0} /\ Sizes \subseteq Nat /\ Buffers \subseteq Nat \ {0}
  BY BodyReaderAssumption
<1>1. Init => NeverOverruns /\ Bounded
  BY DEF Init, NeverOverruns
<1>2. Inv /\ NeverOverruns /\ Bounded /\ [Next]_vars => NeverOverruns' /\ Bounded'
  <2> SUFFICES ASSUME Inv, NeverOverruns, Bounded, [Next]_vars
               PROVE  NeverOverruns' /\ Bounded'
    OBVIOUS
  <2>0. held \in [Callers -> SUBSET Readers] /\ wanted \in [Callers -> Nat]
    BY DEF Inv, Types
  <2>1. ASSUME NEW c \in Callers, NewReader(c) PROVE NeverOverruns' /\ Bounded'
    BY <2>0, <2>1 DEF NewReader, NeverOverruns
  <2>2. ASSUME NEW c \in Callers, Release(c) PROVE NeverOverruns' /\ Bounded'
    BY <2>0, <2>2 DEF Release, NeverOverruns, hist
  <2>3. ASSUME NEW c \in Callers, NEW p \in Buffers, Read(c, p)
        PROVE  NeverOverruns' /\ Bounded'
    <3>1. ASSUME NEW r \in held[c], offset[r] < size[r]
          PROVE  LET n == Lesser(p, size[r] - offset[r])
                     first == Lesser(n, Block - (offset[r] % Block))
                 IN ~(n - first > Block)
      <4>1. /\ size[r] = wanted[c] /\ size[r] \in Nat /\ offset[r] \in Nat
            /\ size[r] \in Sizes
        BY <3>1 DEF Inv, Types, Follows
      <4>2. (offset[r] % Block) \in 0 .. Block - 1
        BY <1>0, <4>1
      <4>3. PICK n \in Nat : n = Lesser(p, size[r] - offset[r]) /\ n <= p /\ n <= size[r]
        BY <1>0, <3>1, <4>1 DEF Lesser
      <4>4. n <= Block
        BY <1>0, <4>1, <4>3
      <4> QED BY <1>0, <4>2, <4>3, <4>4 DEF Lesser
    <3>2. ~panicked'
      BY <2>3, <3>1 DEF Read, NeverOverruns
    <3>3. UNCHANGED <<held, wanted>>
      BY <2>3 DEF Read
    <3> QED BY <3>2, <3>3 DEF NeverOverruns
  <2>4. ASSUME NEW c \in Callers, NEW whence \in {"start", "current", "end"},
               NEW m \in Moves, Seek(c, whence, m) PROVE NeverOverruns' /\ Bounded'
    BY <2>4 DEF Seek, NeverOverruns
  <2>5. CASE UNCHANGED vars
    BY <2>5 DEF vars, hist, NeverOverruns
  <2> QED BY <2>1, <2>2, <2>3, <2>4, <2>5 DEF Next, Terminated
<1> QED BY <1>1, <1>2, InvHolds, PTL DEF Spec
=============================================================================
