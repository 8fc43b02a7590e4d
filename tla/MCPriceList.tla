---------------------------- MODULE MCPriceList ----------------------------
(***************************************************************************)
(* An instance of PriceList for TLC: shops opened with one kind.           *)
(***************************************************************************)
EXTENDS PriceList

OneKind == {<<[vnum |-> v, price |-> p]>> : v \in Vnum, p \in Price}
=============================================================================
