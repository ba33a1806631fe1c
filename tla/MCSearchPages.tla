---------------------------- MODULE MCSearchPages ----------------------------
(***************************************************************************)
(* A small instance of SearchPages for TLC.                                *)
(***************************************************************************)
EXTENDS SearchPages

MCRows == 1 .. 3
=============================================================================
