----------------------------- MODULE MCRecovery -----------------------------
(* Small instances of the in-process cluster for TLC. *)
EXTENDS InProcess

CONSTANTS n1, n2, n3

AllVote == [i \in Server |-> Server]
=============================================================================
