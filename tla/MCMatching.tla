------------------------------ MODULE MCMatching -------------------------------
(* Four orders on two instruments that share the recent-trades queue.       *)
EXTENDS MatchingEngine, TLC

MCSymmetry == Permutations(Instruments)
=============================================================================
