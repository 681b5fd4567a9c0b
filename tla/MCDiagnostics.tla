--------------------------- MODULE MCDiagnostics ----------------------------
(* Instances of Diagnostics for TLC: see the .cfg files for the constants. *)
EXTENDS Diagnostics, TLC

Symmetries == Permutations(Queries) \cup Permutations(Items)
=============================================================================
