--------------------------- MODULE MCItemIdRange ---------------------------
(***************************************************************************)
(* Instances of ItemIdRange for TLC.  With slots of three ids, the slots   *)
(* are 4..6, 7..9, ...; the award interval 6..9 covers the second and      *)
(* touches the first, as 2,000,000,000 touches 1,990,000,001..2,000,000,000*)
(* in the code.                                                            *)
(***************************************************************************)
EXTENDS ItemIdRange, TLC

Symmetry == Permutations(Core) \cup Permutations(Peer)
=============================================================================
