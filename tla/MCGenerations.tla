-------------------------- MODULE MCGenerations --------------------------
(* Small instances of Generations for TLC. *)
EXTENDS GenerationsInv, TLC

Symmetry == Permutations(Ingests) \cup Permutations(Collectors)
=============================================================================
