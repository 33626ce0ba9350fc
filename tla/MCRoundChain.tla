------------------------------ MODULE MCRoundChain ------------------------------
(* RoundChain for model checking: short samples, small pages.              *)
EXTENDS RoundInvariant
===============================================================================
