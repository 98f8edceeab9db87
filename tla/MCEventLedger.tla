--------------------------- MODULE MCEventLedger ---------------------------
EXTENDS EventLedger, TLC

Symmetry == Permutations(Requests) \union Permutations(Tags)
=============================================================================
