------------------------------ MODULE MCSession ------------------------------
(* Small instances of the put clients for TLC. *)
EXTENDS SessionClients, TLC

CONSTANTS p1, p2, p3, s1, s2

Symmetric == Permutations(Replica) \cup Permutations(Cli)
=============================================================================
