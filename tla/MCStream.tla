------------------------------ MODULE MCStream ------------------------------
(* Stream for TLC: producers are alike. *)
EXTENDS StreamInvariant, TLC

Symmetry == Permutations(Producers)
=============================================================================
