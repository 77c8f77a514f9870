---------------------------- MODULE MCMarketData ----------------------------
(* Ranges of backfill, and the symmetry of the processes, for the      *)
(* model checker; and what the theorem about CursorCovered asks of the *)
(* constants.                                                          *)
EXTENDS MarketData, TLC

LongRange == {<<0, 4>>}
ShortRange == {<<0, 3>>}

ASSUME MCCovering == Exclusive \/ OneDate

Sym == Permutations(Procs)
=============================================================================
