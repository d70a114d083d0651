-------------------------- MODULE MCOverdrawStats --------------------------
(* OverdrawStats on small instances; rental names are interchangeable. *)
EXTENDS OverdrawStats, TLC

Symmetry == Permutations(Overdrawns)
=============================================================================
