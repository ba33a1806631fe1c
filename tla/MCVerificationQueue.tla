------------------------ MODULE MCVerificationQueue ------------------------
(***************************************************************************)
(* Small instances of VerificationQueue for TLC.                           *)
(***************************************************************************)
EXTENDS VerificationQueue, TLC

\* Workers, callers and agents are interchangeable (safety runs only).
Symmetry == Permutations(Agents) \cup Permutations(Workers)
              \cup Permutations(Callers)
=============================================================================
