----------------------------- MODULE MCOmsIndex -----------------------------
(***************************************************************************)
(* Four references, three of which hash to the last entry and wrap around, *)
(* and a capacity that is a power of two: the table can fill up.           *)
(***************************************************************************)
EXTENDS OmsIndex, TLC

CONSTANTS r1, r2, r3, r4

MCHome == r1 :> 3 @@ r2 :> 3 @@ r3 :> 1 @@ r4 :> 1
=============================================================================
