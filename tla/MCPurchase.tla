---------------------------- MODULE MCPurchase ----------------------------
(* Small instances of Purchase for TLC. *)
EXTENDS Purchase, TLC

CONSTANTS p1, p2
MCPrice == p1 :> 1 @@ p2 :> 3
=============================================================================
