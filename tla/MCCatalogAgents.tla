---------------------------- MODULE MCCatalogAgents ----------------------------
(***************************************************************************)
(* Instances of CatalogAgents for TLC.  Every kind of model value is       *)
(* interchangeable.                                                        *)
(***************************************************************************)
EXTENDS CatalogAgents, TLC

Symmetry ==
    Permutations(Agents) \cup Permutations(Merchants) \cup Permutations(Domains)
    \cup Permutations(Runs) \cup Permutations(Claims)
===============================================================================
