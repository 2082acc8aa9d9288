--------------------- MODULE MC_ParticipationEstimator ---------------------
(* Two trusted nodes, a price interval of two blocks, a lookback of two  *)
(* intervals and a six-bit word.                                         *)
EXTENDS ParticipationEstimator, TLC

CONSTANTS a, b

Symm == Permutations({a, b})
=============================================================================
