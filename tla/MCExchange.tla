----------------------------- MODULE MCExchange -----------------------------
(***************************************************************************)
(* Instances of Exchange for TLC: three characters, two of them with items *)
(* of different sizes, on a page of two columns and four rows.             *)
(***************************************************************************)
EXTENDS Exchange, TLC

CONSTANTS a, b, c, one, block, two, three

Sizes == one :> 1 @@ block :> 2 @@ two :> 2 @@ three :> 3

Owners == one :> a @@ block :> a @@ two :> b @@ three :> b

Cells == one :> 0 @@ block :> 5 @@ two :> 0 @@ three :> 1

Purses == a :> 1 @@ b :> 1 @@ c :> 3

Floor == <<2>>
=============================================================================
