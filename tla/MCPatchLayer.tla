---------------------------- MODULE MCPatchLayer ----------------------------
(***************************************************************************)
(* PatchLayer for TLC: one planner has a team, obstacles interchange.      *)
(***************************************************************************)
EXTENDS PatchLayer, TLC

CONSTANT Leader

OneTeam == [w \in Workers |-> Leader]
ObstacleSymmetry == Permutations(Obstacles)
=============================================================================
