--------------------------- MODULE MCLoginSession ---------------------------
(***************************************************************************)
(* Instances of LoginSession for TLC: two cores, one with two clients.     *)
(***************************************************************************)
EXTENDS LoginSession, TLC

CONSTANTS c1, c2, d1, d2, d3

TwoCores == d1 :> c1 @@ d2 :> c1 @@ d3 :> c2
=============================================================================
