---------------------------- MODULE MCPublication ----------------------------
(* The symmetry of the sessions and of the setups, for the model checker. *)
EXTENDS Publication, TLC

Sym == Permutations(Procs) \cup Permutations(Setups)
=============================================================================
