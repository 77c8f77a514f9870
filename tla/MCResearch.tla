---------------------------- MODULE MCResearch ----------------------------
(* An instance of ResearchLifecycle for TLC. *)
EXTENDS ResearchLifecycle, TLC

Symmetry == Permutations(Process) \cup Permutations(Agent)
=============================================================================
