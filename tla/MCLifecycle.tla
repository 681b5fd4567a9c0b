---------------------------- MODULE MCLifecycle ----------------------------
(* Instances of Lifecycle for TLC: see the .cfg files for the constants.   *)
EXTENDS Lifecycle, TLC

ToolSymmetry == Permutations(Tools)
=============================================================================
