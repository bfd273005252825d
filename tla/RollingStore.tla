---------------------------- MODULE RollingStore ----------------------------
(***************************************************************************)
(* What the checkpoint workload promises its bucket, without saying how:   *)
(* an object is written at most once, a written object is published at     *)
(* most once, and until the store is closed the Retain objects published   *)
(* last stay in the bucket.                                                *)
(*                                                                         *)
(* Checkpoint.tla implements this specification (RollingStoreSpec there).  *)
(***************************************************************************)
EXTENDS Naturals, Sequences, Functions

CONSTANTS
    Names,     \* the names an object can have
    Retain     \* how many of the published objects are protected

VARIABLES
    used,      \* names for which a write has been attempted
    objects,   \* names of the objects in the bucket
    log,       \* names in the order in which they were published
    closed     \* TRUE once protected objects may be deleted too

vars == <<used, objects, log, closed>>

Init == used = {} /\ objects = {} /\ log = <<>> /\ closed = FALSE

\* The last n elements of a sequence, or all of it.
Youngest(s, n) == IF Len(s) > n THEN SubSeq(s, Len(s) - n + 1, Len(s)) ELSE s

\* One attempt to write a fresh object, which may or may not take effect.
Write == \E k \in Names \ used :
    /\ used' = used \cup {k}
    /\ objects' \in {objects, objects \cup {k}}
    /\ UNCHANGED <<log, closed>>

Publish == \E k \in objects \ Range(log) :
    /\ ~closed
    /\ log' = Append(log, k)
    /\ UNCHANGED <<used, objects, closed>>

Remove == \E k \in objects :
    /\ k \notin Range(Youngest(log, Retain)) \/ closed
    /\ objects' = objects \ {k}
    /\ UNCHANGED <<used, log, closed>>

Close == closed' = TRUE /\ UNCHANGED <<used, objects, log>>

Next == Write \/ Publish \/ Remove \/ Close

Spec == Init /\ [][Next]_vars
=============================================================================
