----------------------------- MODULE MCListings -----------------------------
(* Instances of Listings for TLC. *)
EXTENDS Listings, TLC

Symmetry == Permutations(Listings) \cup Permutations(Bindings) \cup Permutations(Requests)
=============================================================================
