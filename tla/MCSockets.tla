----------------------------- MODULE MCSockets -----------------------------
(***************************************************************************)
(* A small instance of Sockets for TLC: two threads, two sockets of main,  *)
(* and one descriptor less than the threads could use.                     *)
(***************************************************************************)
EXTENDS Sockets, TLC

MCMainSockets == {0, 1}

Symmetry == Permutations(Threads)
=============================================================================
