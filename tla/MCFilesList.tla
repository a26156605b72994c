---------------------------- MODULE MCFilesList ----------------------------
(***************************************************************************)
(* A small instance of FilesList for TLC: names of one, two and three      *)
(* characters.                                                             *)
(***************************************************************************)
EXTENDS FilesList

CONSTANTS a, b, bb, cc, ccc

AllNames  == {a, b, bb, cc, ccc}
MCLength(n) == IF n \in {a, b} THEN 1 ELSE IF n \in {bb, cc} THEN 2 ELSE 3
=============================================================================
