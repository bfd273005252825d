---------------------------- MODULE MCCheckpoint ----------------------------
(***************************************************************************)
(* Instances of Checkpoint for TLC.  Two writers are enough for every race *)
(* on counter and versions; the third actor is Prepopulate or the resume   *)
(* reader.  MaxKey 4 lets a window of two turn over completely.            *)
(***************************************************************************)
EXTENDS Checkpoint

CONSTANTS w1, w2

MCWriters == {w1, w2}
=============================================================================
