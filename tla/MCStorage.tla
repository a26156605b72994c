----------------------------- MODULE MCStorage -----------------------------
(***************************************************************************)
(* Small instances of Storage for TLC.                                     *)
(***************************************************************************)
EXTENDS Storage, TLC

(* Workers are interchangeable, and so are filenames: no property names one*)
(* and no temporal property with a liveness part is checked with these.    *)
Symmetry == Permutations(Workers) \cup Permutations(Filenames \ InvalidNames)
=============================================================================
