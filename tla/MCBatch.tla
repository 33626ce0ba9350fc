------------------------------- MODULE MCBatch -------------------------------
(* Batch for TLC: the threads of the pool are alike. *)
EXTENDS Batch, TLC

Symmetry == Permutations(Workers)
=============================================================================
