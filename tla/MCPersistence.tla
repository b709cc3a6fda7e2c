---------------------------- MODULE MCPersistence ----------------------------
(* Calls are numbered in the order they begin, so no symmetry is left.     *)
EXTENDS Persistence
=============================================================================
