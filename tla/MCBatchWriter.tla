--------------------------- MODULE MCBatchWriter ---------------------------
(* Instances of BatchWriter for TLC.                                       *)
EXTENDS BatchWriter

\* Events and fences are interchangeable.
Symmetry == Permutations(Events) \cup Permutations(Fences)
=============================================================================
