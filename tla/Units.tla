------------------------------- MODULE Units -------------------------------
(***************************************************************************)
(* Sums of bytes, counted one by one. A total is the number of pairs of an *)
(* owner and one of its units, which a proof can reason about with the     *)
(* theorems on finite sets and without induction.                          *)
(***************************************************************************)
EXTENDS Integers, FiniteSets

(* The units of every owner in DOMAIN amount, an amount being at most top. *)
Units(amount, top) == {u \in (DOMAIN amount) \X (1 .. top) : u[2] <= amount[u[1]]}

Total(amount, top) == Cardinality(Units(amount, top))
=============================================================================
