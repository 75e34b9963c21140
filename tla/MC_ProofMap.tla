---------------------------- MODULE MC_ProofMap ----------------------------
(* Instantiates ProofMap for TLC: four keys so that a queried key can lie  *)
(* before, between and after the keys of the tree, two values.             *)
EXTENDS ProofMap

MC_Keys == 1..4
=============================================================================
