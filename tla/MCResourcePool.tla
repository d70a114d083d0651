--------------------------- MODULE MCResourcePool ---------------------------
(* ResourcePool on small instances: symmetry for the runs without liveness. *)
EXTENDS ResourcePoolTheorems, TLC

Symmetry == Permutations(Threads) \cup Permutations(Lockeds) \cup Permutations(Weaks)
            \cup Permutations(Spares) \cup Permutations(Overdrawns)
=============================================================================
