----------------------------- MODULE MCDatasets -----------------------------
(***************************************************************************)
(* Instances of Datasets for TLC.  Two threads show every race on the      *)
(* counter; the datasets are small enough for sequential access to wrap    *)
(* round and large enough for a listing to have pages.                     *)
(***************************************************************************)
EXTENDS Datasets

CONSTANTS t1, t2

MCThreads == {t1, t2}
BothCommands == {"run", "prepopulate"}
AllKinds == {"lancedb", "training_data", "metadata"}
=============================================================================
