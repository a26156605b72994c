------------------------------ MODULE MCSearch ------------------------------
(***************************************************************************)
(* A small instance of Search for TLC.                                     *)
(***************************************************************************)
EXTENDS Search
=============================================================================
