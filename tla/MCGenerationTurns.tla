------------------------- MODULE MCGenerationTurns -------------------------
(***************************************************************************)
(* Instances of GenerationTurns for TLC.                                   *)
(***************************************************************************)
EXTENDS GenerationTurns, TLC

Symmetry == Permutations(Requests) \cup Permutations(Stoppers) \cup Permutations(Archivers)
=============================================================================
