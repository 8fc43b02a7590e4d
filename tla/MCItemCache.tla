---------------------------- MODULE MCItemCache ----------------------------
(***************************************************************************)
(* Instances of ItemCache for TLC.                                         *)
(***************************************************************************)
EXTENDS ItemCache

Symmetry == Permutations(Item) \cup Permutations(Player) \cup Permutations(Data)
=============================================================================
