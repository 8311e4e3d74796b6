------------------------------ MODULE MCFanOut ------------------------------
(* TLC instance of FanOut: every consumer but the chosen one is like the others. *)
EXTENDS FanOutQueue

Perms == Permutations(Readers) \cup Permutations(Consumers \ {Chosen}) \cup Permutations(Frames)
=============================================================================
