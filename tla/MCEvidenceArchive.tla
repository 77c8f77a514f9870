------------------------- MODULE MCEvidenceArchive -------------------------
(* The symmetry of the processes and of the items, for the model checker. *)
EXTENDS EvidenceArchive, TLC

Sym == Permutations(Procs) \cup Permutations(Items)
=============================================================================
