---------------------------- MODULE MCMergeLane ----------------------------
(* Small instances of the merge lane; all constants are numbers.             *)
EXTENDS MergeLane
=============================================================================
