----------------------------- MODULE MCCheckout -----------------------------
(* Small instances of Checkout for TLC. *)
EXTENDS Checkout, TLC

MCFullCart == {[p \in Products |-> MaxQty]}

MCSymmetry == Permutations(Products) \cup Permutations(Orders)
=============================================================================
