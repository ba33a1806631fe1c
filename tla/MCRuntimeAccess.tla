---------------------------- MODULE MCRuntimeAccess ----------------------------
(***************************************************************************)
(* Instances of RuntimeAccess for TLC.  Requests only compare with         *)
(* themselves and may be exchanged; versions are ordered.                  *)
(***************************************************************************)
EXTENDS RuntimeAccess, TLC

Symmetry == Permutations(Calls)
=============================================================================
