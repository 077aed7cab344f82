---------------------------- MODULE MCSyncTree ----------------------------
(* Small instances of SyncTree for TLC. *)
EXTENDS SyncTree
=============================================================================
