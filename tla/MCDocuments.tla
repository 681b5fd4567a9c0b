---------------------------- MODULE MCDocuments -----------------------------
(* Instances of Documents for TLC: see the .cfg files for the constants.   *)
EXTENDS Documents, TLC

QuerySymmetry == Permutations(Queries)
TextSymmetry == Permutations(Texts)
Symmetries == QuerySymmetry \cup TextSymmetry
=============================================================================
