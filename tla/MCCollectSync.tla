--------------------------- MODULE MCCollectSync ---------------------------
EXTENDS CollectSync, TLC

Symmetry == Permutations(Requests)
=============================================================================
