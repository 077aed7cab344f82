---------------------------- MODULE MCCartScreen ----------------------------
(* Small instances of CartScreen for TLC. *)
EXTENDS CartScreen, TLC

MCSymmetry == Permutations(Users)
=============================================================================
