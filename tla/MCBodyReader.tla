---------------------------- MODULE MCBodyReader ----------------------------
(***************************************************************************)
(* An instance of BodyReader for TLC.  The bodies are shorter than the     *)
(* ring, longer than it and longer than twice the ring; so are the         *)
(* buffers, except that one is longer than a part of the ring and all of   *)
(* it again.                                                               *)
(***************************************************************************)
EXTENDS BodyReader

MCCallers == {1, 2}
MCReaders == {1, 2, 3}
MCMoves == -1 .. 1
=============================================================================
