------------------------------ MODULE MCWorld ------------------------------
(***************************************************************************)
(* WorldModel for TLC: elevation layers and obstacles are interchangeable. *)
(***************************************************************************)
EXTENDS WorldModel, TLC

WorldSymmetry == Permutations(Elevations) \cup Permutations(Obstacles)
StartWithAZone == <<CHOOSE z \in Zones : TRUE>>
=============================================================================
