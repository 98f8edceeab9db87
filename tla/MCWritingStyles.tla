-------------------------- MODULE MCWritingStyles --------------------------
EXTENDS WritingStyles, TLC
CONSTANTS formal, technical
BuiltinStyles == <<formal, technical>>
Symmetry == Permutations(Requests)
=============================================================================
