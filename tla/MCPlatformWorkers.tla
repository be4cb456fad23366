-------------------------- MODULE MCPlatformWorkers --------------------------
(***************************************************************************)
(* Instances of PlatformWorkers: one pool, which every worker serves.      *)
(***************************************************************************)
EXTENDS PlatformWorkers

MCPoolOf == [w \in Worker |-> CHOOSE pool \in Pool : TRUE]
MCSymmetry == Permutations(Worker)
==============================================================================
