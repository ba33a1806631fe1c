---------------------------- MODULE MCProfileFetcher ----------------------------
(***************************************************************************)
(* Instances of ProfileFetcher for TLC.                                    *)
(***************************************************************************)
EXTENDS ProfileFetcher
===============================================================================
