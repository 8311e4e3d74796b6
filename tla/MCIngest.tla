------------------------------- MODULE MCIngest -------------------------------
(* Symmetry for the model checker. *)
EXTENDS Ingest, TLC

Perms == Permutations(Clients)
===============================================================================
