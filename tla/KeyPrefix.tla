----------------------------- MODULE KeyPrefix ------------------------------
(***************************************************************************)
(* The prefix guard of the object-store client (internal/s3client): every  *)
(* key handed to the client goes through joinPrefix.  A key is a sequence  *)
(* of tokens, numbers ordered as their texts are; Slash is the separator.  *)
(***************************************************************************)
EXTENDS Naturals, Sequences, SequencesExt

Slash == 0

\* prefix, ending in a separator (strings.HasSuffix and +=).
Slashed(prefix) ==
    IF prefix # <<>> /\ prefix[Len(prefix)] = Slash THEN prefix ELSE Append(prefix, Slash)

\* strings.TrimPrefix(key, "/") removes one separator.
Trimmed(key) == IF key # <<>> /\ key[1] = Slash THEN Tail(key) ELSE key

\* joinPrefix; JoinAlways is joinPrefix without "exactly once" and Unprefixed
\* without the prefix.
Unprefixed(prefix, key) == Trimmed(key)

JoinAlways(prefix, key) ==
    IF prefix = <<>> THEN Trimmed(key) ELSE Slashed(prefix) \o Trimmed(key)

JoinPrefix(prefix, key) ==
    IF prefix = <<>> \/ IsPrefix(Slashed(prefix), Trimmed(key))
    THEN Trimmed(key)
    ELSE Slashed(prefix) \o Trimmed(key)

\* The order in which the store lists its keys.
Before(j, k) ==
    \E i \in 1 .. Len(k) :
        /\ i <= Len(j) + 1
        /\ SubSeq(j, 1, i - 1) = SubSeq(k, 1, i - 1)
        /\ Len(j) >= i => j[i] < k[i]
=============================================================================
