-------------------------- MODULE MC_ProposalFetch --------------------------
(* Two DAOs, up to three proposals, batches of two.                       *)
EXTENDS ProposalFetch

CONSTANTS d1, d2
=============================================================================
