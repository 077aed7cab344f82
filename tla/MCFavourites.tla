---------------------------- MODULE MCFavourites ----------------------------
(* Small instances of Favourites for TLC. *)
EXTENDS Favourites
=============================================================================
