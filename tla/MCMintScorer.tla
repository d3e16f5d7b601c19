---------------------------- MODULE MCMintScorer ----------------------------
(* Small instances of MintScorer for TLC. *)
EXTENDS MintScorer, TLC

Symmetry == Permutations(Tasks)
=============================================================================
