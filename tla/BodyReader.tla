----------------------------- MODULE BodyReader -----------------------------
(***************************************************************************)
(* The bodies of PUT requests (internal/bodygen): pooled readers that      *)
(* stream one process-wide ring of random bytes.  Bytes are named by their *)
(* place in the ring.  A step is one call of the package; a reader belongs *)
(* to one goroutine, so calls on it do not overlap.                        *)
(*                                                                         *)
(* The callers stand for the workloads, which take and release a reader    *)
(* for each PUT, and for the SDK, which reads it with buffers of its own   *)
(* choice, seeks to find its length, and seeks back to retry.              *)
(***************************************************************************)
EXTENDS Integers, Sequences, FiniteSets

CONSTANTS
    Callers, Readers,      \* goroutines, and Reader structs in the pool
    Block,                 \* blockSize, 1 MiB in the code
    Sizes,                 \* sizes of the bodies
    Buffers,               \* lengths of the buffers the SDK passes to Read
    Moves,                 \* offsets it passes to Seek
    MaxBodies              \* bound: bodies per caller

ASSUME BodyReaderAssumption ==
    /\ IsFiniteSet(Callers) /\ Cardinality(Callers) <= Cardinality(Readers)
    /\ Block \in Nat \ {0} /\ Sizes \subseteq Nat /\ Buffers \subseteq Nat \ {0}
    /\ Moves \subseteq Int /\ MaxBodies \in Nat

VARIABLES
    size, offset,      \* the fields of each Reader
    pool,              \* readers in readerPool
    held,              \* the readers each caller has, none or one
    panicked,          \* a slice expression was out of range: the process is gone
    bodies,            \* bodies each caller has had
    wanted,            \* history: the size its caller asked for
    from, got          \* history: where its last Seek went, the bytes since

fields == <<size, offset>>
hist == <<bodies, wanted, from, got>>
vars == <<fields, pool, held, panicked, hist>>

Init ==
    /\ size = [r \in Readers |-> 0] /\ offset = [r \in Readers |-> 0]
    /\ pool = Readers /\ held = [c \in Callers |-> {}] /\ panicked = FALSE
    /\ bodies = [c \in Callers |-> 0] /\ wanted = [c \in Callers |-> 0]
    /\ from = [c \in Callers |-> 0] /\ got = [c \in Callers |-> <<>>]
-----------------------------------------------------------------------------
\* The pool hands out any reader that was released, or a new one.
NewReader(c) ==
    /\ ~panicked /\ held[c] = {} /\ bodies[c] < MaxBodies
    /\ \E r \in pool, n \in Sizes :
          /\ size' = [size EXCEPT ![r] = n] /\ offset' = [offset EXCEPT ![r] = 0]
          /\ pool' = pool \ {r} /\ held' = [held EXCEPT ![c] = {r}]
          /\ wanted' = [wanted EXCEPT ![c] = n]
    /\ bodies' = [bodies EXCEPT ![c] = @ + 1]
    /\ from' = [from EXCEPT ![c] = 0] /\ got' = [got EXCEPT ![c] = <<>>]
    /\ UNCHANGED panicked

\* The request may be over before the body is read to its end.
Release(c) ==
    /\ ~panicked
    /\ \E r \in held[c] :
          /\ size' = [size EXCEPT ![r] = 0] /\ offset' = [offset EXCEPT ![r] = 0]
          /\ pool' = pool \cup {r}
    /\ held' = [held EXCEPT ![c] = {}]
    /\ UNCHANGED <<panicked, hist>>

Lesser(a, b) == IF a < b THEN a ELSE b

\* entropy[a : b], and the part of the buffer after the end of the ring:
\* it begins again at 0.  RestFromStart would go on where the first part began.
Slice(a, b) == [i \in 1 .. b - a |-> a + i - 1]
RestFromStart(start, n) == Slice(start, start + n)
Rest(start, n) == Slice(0, n)

\* Read with a buffer of length p: up to the end of the ring, then at most one
\* more part from its beginning, which must not be longer than the ring.
Read(c, p) ==
    /\ ~panicked
    /\ \E r \in held[c] :
          LET n == Lesser(p, size[r] - offset[r])
              start == offset[r] % Block
              first == Lesser(n, Block - start)
          IN /\ offset[r] < size[r]
             /\ \/ /\ n - first > Block
                   /\ panicked' = TRUE
                   /\ UNCHANGED <<offset, got>>
                \/ /\ n - first <= Block
                   /\ offset' = [offset EXCEPT ![r] = @ + n]
                   /\ got' = [got EXCEPT ![c] = @ \o Slice(start, start + first)
                                                  \o Rest(start, n - first)]
                   /\ UNCHANGED panicked
    /\ UNCHANGED <<size, pool, held, bodies, wanted, from>>

\* Where Seek goes, by whence; out of range it returns an error.
Target(r, whence, move) ==
    CASE whence = "start" -> move
      [] whence = "current" -> offset[r] + move
      [] whence = "end" -> size[r] + move

Seek(c, whence, move) ==
    /\ ~panicked
    /\ \E r \in held[c] :
          LET abs == Target(r, whence, move) IN
          /\ abs >= 0 /\ abs <= size[r]
          /\ offset' = [offset EXCEPT ![r] = abs]
          /\ from' = [from EXCEPT ![c] = abs] /\ got' = [got EXCEPT ![c] = <<>>]
    /\ UNCHANGED <<size, pool, held, panicked, bodies, wanted>>

Terminated == (panicked \/ \A c \in Callers : held[c] = {}) /\ UNCHANGED vars

Next ==
    \/ \E c \in Callers :
          \/ NewReader(c) \/ Release(c)
          \/ \E p \in Buffers : Read(c, p)
          \/ \E whence \in {"start", "current", "end"}, m \in Moves : Seek(c, whence, m)
    \/ Terminated

Spec == Init /\ [][Next]_vars
-----------------------------------------------------------------------------
(* Properties.                                                             *)

\* Whatever buffers and seeks there are, in whatever order readers are reused:
\* what a caller has read is the ring unrolled from where it last went, and
\* when its reader reports the end it has had all of the size it asked for, no
\* byte more (a retried request sends the same body).
BodyExact ==
    \A c \in Callers : \A r \in held[c] :
        /\ got[c] = [i \in 1 .. Len(got[c]) |-> (from[c] + i - 1) % Block]
        /\ from[c] + Len(got[c]) <= wanted[c]
        /\ offset[r] >= size[r] => from[c] + Len(got[c]) = wanted[c]

\* What the package's comment takes for granted (bodygen.go:21-22): the ring is
\* longer than any part, so no read wraps more than once (violated).
NeverOverruns == ~panicked
=============================================================================
