-------------------------- MODULE MCFavouriteOutbox --------------------------
(* Small instances of FavouriteOutbox for TLC. *)
EXTENDS FavouriteOutbox, TLC

OutboxSymmetry == Permutations(Users) \cup Permutations(Listings)
==============================================================================
