---------------------------- MODULE MCRefinement ----------------------------
(* Small instances of the cluster with the history of what was chosen. *)
EXTENDS RaftRefinement, MCRaft
=============================================================================
