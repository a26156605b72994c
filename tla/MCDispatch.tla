----------------------------- MODULE MCDispatch -----------------------------
(***************************************************************************)
(* A small instance of Dispatch for TLC. Clients, threads and names are    *)
(* interchangeable: no property names one.                                 *)
(***************************************************************************)
EXTENDS Dispatch, TLC

Symmetry == Permutations(Clients) \cup Permutations(Threads) \cup Permutations(Filenames)
=============================================================================
