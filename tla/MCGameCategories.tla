-------------------------- MODULE MCGameCategories --------------------------
(* Small values for the constants of GameCategories.                       *)
EXTENDS GameCategories, TLC

MCSymmetry == Permutations(Proc) \cup Permutations(Name)
=============================================================================
