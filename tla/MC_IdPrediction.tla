--------------------------- MODULE MC_IdPrediction ---------------------------
(* One caller making two calls in a row, as the auction test creates     *)
(* lot1 and lot2.                                                         *)
EXTENDS IdPrediction

CONSTANTS p1
=============================================================================
