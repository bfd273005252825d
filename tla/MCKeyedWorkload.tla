-------------------------- MODULE MCKeyedWorkload ---------------------------
(***************************************************************************)
(* Instances of KeyedWorkload for TLC.  Two threads show every race on the *)
(* counter; three or four indices let reads, writes and failures mix.      *)
(***************************************************************************)
EXTENDS KeyedWorkload

CONSTANTS t1, t2

MCThreads == {t1, t2}
=============================================================================
