------------------------------ MODULE MCClient ------------------------------
(***************************************************************************)
(* A small instance of Client for TLC: a copy of two blocks and one of one.*)
(***************************************************************************)
EXTENDS Client, TLC

CONSTANTS long, short

MCCopies  == {long, short}
MCSize(c) == IF c = long THEN 2 ELSE 1

Symmetry == Permutations(Fetches) \cup Permutations(Servers)
=============================================================================
