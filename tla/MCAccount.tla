----------------------------- MODULE MCAccount -----------------------------
(* Small instances of Account for TLC. *)
EXTENDS Account, TLC

MCSymmetry == Permutations(Users) \cup Permutations(Emails) \cup Permutations(Passwords)
=============================================================================
