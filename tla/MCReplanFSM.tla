---------------------------- MODULE MCReplanFSM ----------------------------
(***************************************************************************)
(* Instances of ReplanFSM for TLC.  The two named missions are only ever   *)
(* compared for equality, so they are interchangeable in the safety runs.  *)
(***************************************************************************)
EXTENDS ReplanFSM, TLC

MissionSymmetry == Permutations(Missions)
=============================================================================
