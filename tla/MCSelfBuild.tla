----------------------------- MODULE MCSelfBuild -----------------------------
(* SelfBuild for TLC: the processes of a binding are alike. *)
EXTENDS SelfBuild, TLC

Symmetry == Permutations(Go) \cup Permutations(Py)
===============================================================================
