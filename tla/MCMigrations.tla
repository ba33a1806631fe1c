---------------------------- MODULE MCMigrations ----------------------------
(* Migrations for TLC. *)
EXTENDS Migrations, TLC

CONSTANTS p1, p2, p3

Symmetry == Permutations(Processes)
=============================================================================
