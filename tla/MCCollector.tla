----------------------------- MODULE MCCollector ----------------------------
(***************************************************************************)
(* Instances of Collector for TLC.  Prepopulate records through the        *)
(* Collector itself; the runner runs the workloads "a" and "b" at once and *)
(* each numbers its goroutines from 0, so IDs repeat across workloads.     *)
(***************************************************************************)
EXTENDS Collector, TLC

CONSTANTS prep, a0, a1, b0, a, b, fallback

MCWorkers == {prep, a0, a1, b0}
MCWorkloadOf == (prep :> a) @@ (a0 :> a) @@ (a1 :> a) @@ (b0 :> b)
MCShardIdOf == (prep :> fallback) @@ (a0 :> 0) @@ (a1 :> 1) @@ (b0 :> 0)
=============================================================================
