----------------------------- MODULE MCRequests -----------------------------
(* Instances of Requests for TLC: see the .cfg files for the constants.    *)
EXTENDS Requests, TLC
=============================================================================
