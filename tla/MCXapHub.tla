------------------------------ MODULE MCXapHub ------------------------------
(* XapHub on small instances. *)
EXTENDS XapHub, TLC

Symmetry == Permutations(Clients)
=============================================================================
