------------------------------ MODULE MCUpload ------------------------------
(***************************************************************************)
(* A small instance of Upload for TLC.                                     *)
(***************************************************************************)
EXTENDS Upload
=============================================================================
