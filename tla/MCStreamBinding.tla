--------------------------- MODULE MCStreamBinding ---------------------------
(* StreamBinding for TLC: readers are alike. *)
EXTENDS StreamBinding, TLC

Symmetry == Permutations(Readers)
=============================================================================
