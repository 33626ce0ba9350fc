---------------------------- MODULE MCWorkerPool ----------------------------
(* WorkerPool for TLC: callers are alike, and so are workers. *)
EXTENDS WorkerPoolInvariant, TLC

Symmetry == Permutations(Callers) \cup Permutations(Workers)
=============================================================================
