--------------------------- MODULE MCRenameApply ----------------------------
(* Instances of RenameApply for TLC: see the .cfg file for the constants.  *)
EXTENDS RenameApply, TLC
=============================================================================
