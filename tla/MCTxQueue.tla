------------------------------ MODULE MCTxQueue ------------------------------
(* Instances of TxQueue for TLC.  Its run checks liveness, so that threads, *)
(* items and cells are not taken for one another.                           *)
EXTENDS TxQueue
=============================================================================
