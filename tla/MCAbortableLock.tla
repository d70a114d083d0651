-------------------------- MODULE MCAbortableLock --------------------------
(* AbortableLock on small instances; threads are interchangeable. *)
EXTENDS AbortableLockTheorems, TLC

Symmetry == Permutations(Threads)
=============================================================================
