------------------------------ MODULE MCStorage ------------------------------
(* Small instances of the log's storage for TLC. *)
EXTENDS LogStorage

CONSTANT v1
=============================================================================
