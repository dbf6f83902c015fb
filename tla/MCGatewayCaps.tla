--------------------------- MODULE MCGatewayCaps ---------------------------
(* Gateway with more runs than either cap admits. *)
EXTENDS Gateway, TLC

CONSTANTS
  MaxCreated   \* bound: a behaviour ends when this many runs were created

Symmetry == Permutations(Runs) \cup Permutations(Tenants)

MCNext == Cardinality(created) < MaxCreated /\ GwNext

MCSpec == GwInit /\ [][MCNext]_gwVars
=============================================================================
