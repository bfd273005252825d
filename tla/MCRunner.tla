------------------------------ MODULE MCRunner ------------------------------
(***************************************************************************)
(* An instance of Runner for TLC: a checkpoint and another workload before *)
(* the mix, two children of which one has no weight of its own.  The       *)
(* numbers of threads are one that the shares divide, one that they do     *)
(* not, and none at all; one workload may have a setting of its own.       *)
(***************************************************************************)
EXTENDS Runner

MCWorkloads == <<"checkpoint", "small_objects", "mix">>
MCChildren == <<"lancedb", "metadata">>
MCPlanWeight == [lancedb |-> 2, metadata |-> 0]
=============================================================================
