--------------------------- MODULE MCRuntimeBinding ---------------------------
(***************************************************************************)
(* Instances of RuntimeBinding for TLC.  Every kind of model value is      *)
(* interchangeable.                                                        *)
(***************************************************************************)
EXTENDS RuntimeBinding, TLC

Symmetry ==
    Permutations(Runtimes) \cup Permutations(Texts) \cup Permutations(Enrollments)
    \cup Permutations(Requests) \cup Permutations(Calls)
=============================================================================
