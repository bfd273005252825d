---------------------------- MODULE MCRunCommand ----------------------------
(***************************************************************************)
(* Instances of RunCommand for TLC.  Tokens are numbers: 0 is the          *)
(* separator, 1 and 2 name objects, 5 is the text of the plan's prefix, 7  *)
(* and 8 are the run ids.                                                  *)
(***************************************************************************)
EXTENDS RunCommand

Bench == 5

SlashedBase == <<Bench, Slash>>       \* "s3aibench/", the default
BareBase == <<Bench>>                 \* "s3aibench", accepted as well

NoForeign == {}

\* A key that is called like an object of the workloads, and one that starts
\* with the text of the prefix without being in its directory.
SomeForeign == {<<1>>, <<Bench, 6>>}
=============================================================================
