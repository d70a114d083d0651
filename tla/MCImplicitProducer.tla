------------------------- MODULE MCImplicitProducer -------------------------
\* ImplicitProducer for TLC: consumers differ only in name, and so do blocks.
EXTENDS ImplicitProducer, TLC

Symmetry == Permutations(Consumers) \cup Permutations(Blocks)

=============================================================================
