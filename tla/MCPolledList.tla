---------------------------- MODULE MCPolledList ----------------------------
(* Small instances of PolledList for TLC. *)
EXTENDS PolledList
=============================================================================
