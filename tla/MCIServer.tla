------------------------------ MODULE MCIServer ------------------------------
(* Instances of IServer for TLC.                                            *)
EXTENDS IServer, TLC

\* Heap cells are interchangeable.
Symmetry == Permutations(Cells)
=============================================================================
