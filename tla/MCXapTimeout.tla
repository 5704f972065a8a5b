---------------------------- MODULE MCXapTimeout ----------------------------
(* Instances of XapTimeout for TLC.                                         *)
EXTENDS XapTimeout, TLC

\* Heap cells are interchangeable, and so are callback functions.
Symmetry == Permutations(Cells) \cup Permutations(Funcs)
=============================================================================
