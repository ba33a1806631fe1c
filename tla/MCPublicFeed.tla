----------------------------- MODULE MCPublicFeed -----------------------------
(***************************************************************************)
(* Instances of PublicFeed for TLC.  Buyers, titles and contents are       *)
(* interchangeable; merchants share no state but are followed together.    *)
(***************************************************************************)
EXTENDS PublicFeed, TLC

Symmetry == Permutations(Buyers) \cup Permutations(Titles) \cup Permutations(Contents)
===============================================================================
