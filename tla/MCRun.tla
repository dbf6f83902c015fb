------------------------------- MODULE MCRun -------------------------------
(* Run on a small instance. *)
EXTENDS Run, TLC

Symmetry == Permutations(Publishers) \cup Permutations(Subs)
=============================================================================
