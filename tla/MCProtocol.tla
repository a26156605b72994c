----------------------------- MODULE MCProtocol -----------------------------
(***************************************************************************)
(* Lengths around every limit: those of data and datagrams, where the sum  *)
(* of header and string wraps around, and where the string's length does.  *)
(***************************************************************************)
EXTENDS Protocol, TLC

CONSTANTS n1, n2, v, w

Lengths  == {0, 2, 65489, 65490, 65518, 65536, 65538}
Symmetry == Permutations({n1, n2}) \cup Permutations({v, w})
=============================================================================
