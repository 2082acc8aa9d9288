--------------------------- MODULE MC_BatchFetch ---------------------------
(* Three possible members, at most three at once, batches of two.         *)
EXTENDS BatchFetch

CONSTANTS a, b, c
=============================================================================
