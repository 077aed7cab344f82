---------------------------- MODULE MCCatalogue ----------------------------
(* Small instances of Catalogue for TLC: two products without an id. *)
EXTENDS Catalogue, TLC

CONSTANTS r1, r2, r3
MCId == r1 :> 0 @@ r2 :> 0 @@ r3 :> 1
=============================================================================
