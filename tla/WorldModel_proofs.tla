------------------------- MODULE WorldModel_proofs -------------------------
(***************************************************************************)
(* Proofs that WorldModel keeps its invariants for every set of maps,      *)
(* obstacles and zones and without the bounds the model checker needs.     *)
(*                                                                         *)
(* The inductive invariant adds to the properties: the latch sdf_built_ is *)
(* set exactly while a map is loaded; the memo and the snapshot never hold *)
(* a stamp of the future; and while its two stamps match, a valid snapshot *)
(* is a copy of what the searcher and the zone list hold now.              *)
(***************************************************************************)
EXTENDS WorldModel, TLAPS

\* The latch and the grid follow the terrain.
GridInv ==
  /\ sdf_built <=> terrain # NoMap
  /\ GridCoversTerrain

\* Obstacles: none deferred once there is a grid, none of another geometry.
ObstacleInv == DeferredAreFlushed /\ ObstaclesOfThisWorld

\* The memo is never from a later generation.
MemoInv == memo.generation <= terrain_generation /\ MemoFresh

\* The front end's stamp is never ahead of the data; when it is level, the
\* searcher is bound to the zones of this moment.
SearchInv ==
  /\ epoch_generation \in Nat
  /\ epoch_generation <= zone_policy_generation
  /\ epoch_generation = zone_policy_generation => searcher.zones = risk_zones

\* The frozen policy as zonePolicySnapshot would copy it now.
CurrentPolicy ==
  [i \in DOMAIN risk_zones |->
     [zone |-> risk_zones[i], disposition |-> Disposition(searcher, i)]]

\* The snapshot's stamps are not of the future; while they match and it is
\* valid, it says what is so now.
SnapshotInv ==
  /\ snapshot.generation \in Nat
  /\ snapshot.epoch \in Nat
  /\ snapshot.generation <= zone_policy_generation
  /\ snapshot.epoch <= zone_policy_epoch
  /\ /\ snapshot.valid
     /\ snapshot.generation = zone_policy_generation
     /\ snapshot.epoch = zone_policy_epoch
     => snapshot.zones = CurrentPolicy /\ SnapshotValid

Inv ==
  /\ TypeOK
  /\ GridInv
  /\ ObstacleInv
  /\ DerivedFromCurrentDem
  /\ MemoInv
  /\ SearchInv
  /\ SnapshotInv

-----------------------------------------------------------------------------
(***************************************************************************)
(* The steps, without their bounds.                                        *)
(***************************************************************************)

Step ==
  \/ ClearWorld
  \/ \E map \in Maps : AcceptMap(map)
  \/ \E geo \in Geometries : RefuseMap(geo)
  \/ \E replace \in BOOLEAN, batch \in SUBSET (Obstacles \ Requested) :
       LoadObstacles(replace, batch)
  \/ \E replace \in BOOLEAN, batch \in Batches : LoadRiskZones(replace, batch)
  \/ \E legs \in 1..MaxLegs : Plan(legs)
  \/ Snapshot

\* The model's steps are the unbounded ones.
LEMMA NextIsStep == Next => Step
  BY DEF Next, Step

\* Every zone batch of the model is a sequence of zones.
LEMMA BatchesAreSequences == \A batch \in Batches : batch \in Seq(Zones)
  <1>1. <<>> \in Seq(Zones)
    OBVIOUS
  <1>2. \A z \in Zones : <<z>> \in Seq(Zones)
    OBVIOUS
  <1> QED BY <1>1, <1>2 DEF Batches

\* Grounding a list of zones keeps its indices.
LEMMA GroundedType ==
  ASSUME NEW raw \in Seq(Zones), NEW map \in Grounds
  PROVE  /\ GroundedZones(raw, map) \in Seq(Shapes)
         /\ DOMAIN GroundedZones(raw, map) = DOMAIN raw
  <1>1. \A i \in DOMAIN raw : [zone |-> raw[i], ground |-> map] \in Shapes
    BY DEF Shapes
  <1>2. DOMAIN raw = 1..Len(raw) /\ Len(raw) \in Nat
    OBVIOUS
  <1> QED BY <1>1, <1>2 DEF GroundedZones

-----------------------------------------------------------------------------

\* The start of the node satisfies the invariant.
LEMMA InitInv == Init => Inv
  <1> SUFFICES ASSUME Init PROVE Inv
    OBVIOUS
  <1> USE DEF Init, PolicyInit
  <1>1. StartupZones \in Seq(Zones) /\ NoMap \in Grounds
    BY ZonesAssumption DEF Grounds
  <1>2. risk_zones \in Seq(Shapes)
    BY <1>1, GroundedType
  <1>3. TypeOK
    <2>1. /\ terrain \in Grounds /\ terrain_generation \in Nat
          /\ sdf_built \in BOOLEAN /\ grid \in Maps \cup {NoGrid, MissionGrid}
      BY <1>1
    <2>2. /\ sdf_voxel_size \in Geometries \cup {NoVoxel}
          /\ optimizer_pitch \in Geometries \cup {NoVoxel}
          /\ terrain_ready \in Geometries \cup {NoVoxel}
      BY VoxelAssumption
    <2>3. /\ obstacles \subseteq [id : Obstacles, ground : Grounds]
          /\ pending_obstacles \subseteq Obstacles
      OBVIOUS
    <2>4. memo \in [generation : Nat \cup {-1}, map : Grounds]
      BY <1>1
    <2>5. /\ risk_zones_raw \in Seq(Zones) /\ active_risk_zones \in Seq(Zones)
          /\ zone_policy_generation \in Nat /\ zone_policy_epoch \in Nat
      BY <1>1
    <2> QED BY <1>2, <2>1, <2>2, <2>3, <2>4, <2>5 DEF TypeOK
  <1>4. GridInv
    BY DEF GridInv, GridCoversTerrain
  <1>5. ObstacleInv
    BY DEF ObstacleInv, DeferredAreFlushed, ObstaclesOfThisWorld
  <1>6. DerivedFromCurrentDem
    BY DEF DerivedFromCurrentDem
  <1>7. MemoInv
    BY DEF MemoInv, MemoFresh
  <1>8. SearchInv
    BY DEF SearchInv
  <1>9. SnapshotInv
    BY DEF SnapshotInv, NoSnapshot
  <1> QED BY <1>3, <1>4, <1>5, <1>6, <1>7, <1>8, <1>9 DEF Inv

\* Every step keeps the types.
LEMMA TypeStep == Inv /\ Step => TypeOK'
  <1> SUFFICES ASSUME Inv, Step PROVE TypeOK'
    OBVIOUS
  <1> USE DEF Inv, TypeOK
  <1>0. NoMap \in Grounds /\ terrain \in Grounds /\ Maps \subseteq Grounds
    BY DEF Grounds
  <1>1. CASE ClearWorld
    <2>1. risk_zones' \in Seq(Shapes)
      BY <1>0, <1>1, GroundedType DEF ClearWorld, RederiveZones, RefreshZones
    <2>2. /\ terrain' = NoMap /\ sdf_built' = FALSE /\ grid' = NoGrid
          /\ optimizer_pitch' = NoVoxel
          /\ obstacles' = {} /\ pending_obstacles' = {}
      BY <1>1 DEF ClearWorld
    <2>4. terrain_generation' \in Nat
      BY <1>1 DEF ClearWorld
    <2>3. /\ zone_policy_generation' \in Nat
          /\ UNCHANGED <<sdf_voxel_size, risk_zones_raw, active_risk_zones,
                         memo, terrain_ready, zone_policy_epoch>>
      BY <1>1 DEF ClearWorld, RederiveZones, RefreshZones
    <2>5. obstacles' \subseteq [id : Obstacles, ground : Grounds]
      BY <2>2
    <2>6. terrain' \in Grounds
      BY <1>0, <2>2
    <2> QED BY <2>1, <2>2, <2>3, <2>4, <2>5, <2>6
  <1>2. ASSUME NEW map \in Maps, AcceptMap(map) PROVE TypeOK'
    <2>1. risk_zones' \in Seq(Shapes)
      BY <1>0, <1>2, GroundedType DEF AcceptMap, RederiveZones, RefreshZones
    <2>2. map.geo \in Geometries
      BY DEF Maps
    <2>3. obstacles' \subseteq [id : Obstacles, ground : Grounds]
      BY <1>0, <1>2 DEF AcceptMap, Flushed, Grounded, KeptObstacles, KeptPending
    <2>4. pending_obstacles' \subseteq Obstacles
      BY <1>2 DEF AcceptMap, KeptPending
    <2>5. /\ terrain' \in Grounds /\ terrain_generation' \in Nat
          /\ sdf_built' \in BOOLEAN /\ grid' \in Maps \cup {NoGrid, MissionGrid}
          /\ sdf_voxel_size' \in Geometries \cup {NoVoxel}
          /\ optimizer_pitch' \in Geometries \cup {NoVoxel}
          /\ terrain_ready' \in Geometries \cup {NoVoxel}
      BY <1>0, <1>2, <2>2 DEF AcceptMap
    <2>6. /\ zone_policy_generation' \in Nat
          /\ UNCHANGED <<risk_zones_raw, active_risk_zones, memo,
                         zone_policy_epoch>>
      BY <1>2 DEF AcceptMap, RederiveZones, RefreshZones
    <2> QED BY <2>1, <2>3, <2>4, <2>5, <2>6
  <1>3. ASSUME NEW geo \in Geometries, RefuseMap(geo) PROVE TypeOK'
    BY <1>3 DEF RefuseMap, zoneVars, policyVars
  <1>4. ASSUME NEW replace \in BOOLEAN,
               NEW batch \in SUBSET (Obstacles \ Requested),
               LoadObstacles(replace, batch)
        PROVE  TypeOK'
    <2>1. /\ obstacles' \subseteq [id : Obstacles, ground : Grounds]
          /\ pending_obstacles' \subseteq Obstacles
      BY <1>0, <1>4 DEF LoadObstacles, Grounded
    <2> QED BY <1>4, <2>1 DEF LoadObstacles, terrainVars, zoneVars, policyVars
  <1>5. ASSUME NEW replace \in BOOLEAN, NEW batch \in Batches,
               LoadRiskZones(replace, batch)
        PROVE  TypeOK'
    <2>1. active_risk_zones' \in Seq(Zones)
      BY <1>5, BatchesAreSequences DEF LoadRiskZones
    <2>2. risk_zones' \in Seq(Shapes)
      BY <1>0, <1>5, <2>1, GroundedType
         DEF LoadRiskZones, RederiveZones, RefreshZones
    <2> QED BY <1>5, <2>1, <2>2
            DEF LoadRiskZones, RederiveZones, RefreshZones, terrainVars,
                obstacleVars
  <1>6. ASSUME NEW legs \in 1..MaxLegs, Plan(legs) PROVE TypeOK'
    <2>1. /\ obstacles' \subseteq [id : Obstacles, ground : Grounds]
          /\ pending_obstacles' \subseteq Obstacles
      BY <1>0, <1>6 DEF Plan, Flushed, Grounded
    <2>2. grid' \in Maps \cup {NoGrid, MissionGrid} /\ sdf_built' \in BOOLEAN
      BY <1>6 DEF Plan, GridForPlan, Grounds
    <2>3. memo' \in [generation : Nat \cup {-1}, map : Grounds]
      BY <1>6 DEF Plan, Remember
    <2>4. /\ zone_policy_epoch' \in Nat
          /\ UNCHANGED <<terrainVars, sdf_voxel_size, zoneVars, risk_zones,
                         zone_policy_generation>>
      BY <1>6 DEF Plan, PlanFrontEnd
    <2> QED BY <2>1, <2>2, <2>3, <2>4 DEF terrainVars, zoneVars
  <1>7. CASE Snapshot
    BY <1>7 DEF Snapshot, TakeSnapshot, terrainVars, obstacleVars, zoneVars
  <1> QED BY <1>1, <1>2, <1>3, <1>4, <1>5, <1>6, <1>7 DEF Step

\* The grid, the latch and the obstacles on it.
LEMMA GridStep == Inv /\ Step => GridInv' /\ ObstacleInv'
  <1> SUFFICES ASSUME Inv, Step PROVE GridInv' /\ ObstacleInv'
    OBVIOUS
  <1>0. /\ terrain # NoMap => terrain \in Maps
        /\ terrain # NoMap <=> sdf_built
        /\ terrain # NoMap => grid \in Maps /\ grid.geo = terrain.geo
        /\ terrain = NoMap => grid \in {NoGrid, MissionGrid}
        /\ grid # NoGrid => pending_obstacles = {}
        /\ \A o \in obstacles : o.ground # NoMap =>
             terrain # NoMap /\ o.ground.geo = terrain.geo
    BY DEF Inv, TypeOK, Grounds, GridInv, GridCoversTerrain, ObstacleInv,
           DeferredAreFlushed, ObstaclesOfThisWorld, HasData
  <1>1. CASE ClearWorld
    BY <1>1 DEF ClearWorld, GridInv, GridCoversTerrain, ObstacleInv,
                DeferredAreFlushed, ObstaclesOfThisWorld
  <1>2. ASSUME NEW map \in Maps, AcceptMap(map) PROVE GridInv' /\ ObstacleInv'
    <2> DEFINE built == sdf_built /\ ~GeometryChanged(map)
    <2>1. map # NoMap
      BY MapAssumption
    <2>2. /\ terrain' = map
          /\ sdf_built'
          /\ grid' = IF built THEN grid ELSE map
          /\ obstacles' = KeptObstacles(map)
               \cup IF built THEN {} ELSE Flushed(KeptPending(map), map)
          /\ pending_obstacles' = IF built THEN KeptPending(map) ELSE {}
      BY <1>2 DEF AcceptMap
    <2>3. built => terrain # NoMap /\ terrain.geo = map.geo
      BY <1>0 DEF GeometryChanged
    <2>4. GridInv'
      BY <1>0, <2>1, <2>2, <2>3 DEF GridInv, GridCoversTerrain
    <2>5. DeferredAreFlushed'
      BY <1>0, <2>2, <2>3, GridAssumption
         DEF DeferredAreFlushed, HasData, KeptPending
    <2>6. \A o \in KeptObstacles(map) : o.ground # NoMap => o.ground.geo = map.geo
      BY <1>0 DEF KeptObstacles, GeometryChanged
    <2>7. \A o \in Flushed(KeptPending(map), map) : o.ground = map
      BY DEF Flushed, Grounded
    <2>8. ObstaclesOfThisWorld'
      BY <2>1, <2>2, <2>6, <2>7 DEF ObstaclesOfThisWorld
    <2> QED BY <2>4, <2>5, <2>8 DEF ObstacleInv
  <1>3. ASSUME NEW geo \in Geometries, RefuseMap(geo)
        PROVE  GridInv' /\ ObstacleInv'
    BY <1>0, <1>3 DEF RefuseMap, GridInv, GridCoversTerrain, ObstacleInv,
                      DeferredAreFlushed, ObstaclesOfThisWorld, HasData
  <1>4. ASSUME NEW replace \in BOOLEAN,
               NEW batch \in SUBSET (Obstacles \ Requested),
               LoadObstacles(replace, batch)
        PROVE  GridInv' /\ ObstacleInv'
    <2>1. UNCHANGED <<terrain, sdf_built, grid>>
      BY <1>4 DEF LoadObstacles, terrainVars
    <2>2. GridInv'
      BY <1>0, <2>1 DEF GridInv, GridCoversTerrain
    <2>3. DeferredAreFlushed'
      BY <1>0, <1>4, <2>1 DEF LoadObstacles, DeferredAreFlushed, HasData
    <2>4. ObstaclesOfThisWorld'
      BY <1>0, <1>4, <2>1 DEF LoadObstacles, ObstaclesOfThisWorld, Grounded
    <2> QED BY <2>2, <2>3, <2>4 DEF ObstacleInv
  <1>5. ASSUME NEW replace \in BOOLEAN, NEW batch \in Batches,
               LoadRiskZones(replace, batch)
        PROVE  GridInv' /\ ObstacleInv'
    BY <1>0, <1>5 DEF LoadRiskZones, terrainVars, obstacleVars, GridInv,
                      GridCoversTerrain, ObstacleInv, DeferredAreFlushed,
                      ObstaclesOfThisWorld, HasData
  <1>6. ASSUME NEW legs \in 1..MaxLegs, Plan(legs)
        PROVE  GridInv' /\ ObstacleInv'
    <2>1. /\ terrain' = terrain
          /\ grid' = GridForPlan
          /\ sdf_built' = (sdf_built \/ terrain # NoMap)
          /\ obstacles' = obstacles \cup Flushed(pending_obstacles, terrain)
          /\ pending_obstacles' = {}
      BY <1>6 DEF Plan, terrainVars
    <2>2. GridInv'
      BY <1>0, <2>1 DEF GridInv, GridCoversTerrain, GridForPlan
    <2>3. ObstacleInv'
      BY <1>0, <2>1 DEF ObstacleInv, DeferredAreFlushed, ObstaclesOfThisWorld,
                        Flushed, Grounded
    <2> QED BY <2>2, <2>3
  <1>7. CASE Snapshot
    BY <1>0, <1>7 DEF Snapshot, terrainVars, obstacleVars, GridInv,
                      GridCoversTerrain, ObstacleInv, DeferredAreFlushed,
                      ObstaclesOfThisWorld, HasData
  <1> QED BY <1>1, <1>2, <1>3, <1>4, <1>5, <1>6, <1>7 DEF Step

\* What is derived from the terrain, and the elevation memo.
LEMMA DerivedStep == Inv /\ Step => DerivedFromCurrentDem' /\ MemoInv'
  <1> SUFFICES ASSUME Inv, Step PROVE DerivedFromCurrentDem' /\ MemoInv'
    OBVIOUS
  <1>0. /\ memo \in [generation : Nat \cup {-1}, map : Grounds]
        /\ terrain_generation \in Nat
        /\ memo.generation <= terrain_generation
        /\ memo.generation = terrain_generation => memo.map = terrain
        /\ DerivedFromCurrentDem
    BY DEF Inv, TypeOK, MemoInv, MemoFresh
  <1>1. CASE ClearWorld
    BY <1>0, <1>1 DEF ClearWorld, RederiveZones, RefreshZones,
                      DerivedFromCurrentDem, MemoInv, MemoFresh
  <1>2. ASSUME NEW map \in Maps, AcceptMap(map)
        PROVE  DerivedFromCurrentDem' /\ MemoInv'
    BY <1>0, <1>2, MapAssumption
       DEF AcceptMap, RederiveZones, RefreshZones, DerivedFromCurrentDem,
           MemoInv, MemoFresh
  <1>3. ASSUME NEW geo \in Geometries, RefuseMap(geo)
        PROVE  DerivedFromCurrentDem' /\ MemoInv'
    BY <1>0, <1>3 DEF RefuseMap, zoneVars, policyVars, DerivedFromCurrentDem,
                      MemoInv, MemoFresh, GroundedZones
  <1>4. ASSUME NEW replace \in BOOLEAN,
               NEW batch \in SUBSET (Obstacles \ Requested),
               LoadObstacles(replace, batch)
        PROVE  DerivedFromCurrentDem' /\ MemoInv'
    BY <1>0, <1>4 DEF LoadObstacles, terrainVars, zoneVars, policyVars,
                      DerivedFromCurrentDem, MemoInv, MemoFresh, GroundedZones
  <1>5. ASSUME NEW replace \in BOOLEAN, NEW batch \in Batches,
               LoadRiskZones(replace, batch)
        PROVE  DerivedFromCurrentDem' /\ MemoInv'
    BY <1>0, <1>5 DEF LoadRiskZones, RederiveZones, RefreshZones, terrainVars,
                      DerivedFromCurrentDem, MemoInv, MemoFresh
  <1>6. ASSUME NEW legs \in 1..MaxLegs, Plan(legs)
        PROVE  DerivedFromCurrentDem' /\ MemoInv'
    <2>1. UNCHANGED <<terrain, terrain_generation, optimizer_pitch,
                      risk_zones_raw, risk_masks, risk_zones>> /\ Remember
      BY <1>6 DEF Plan, PlanFrontEnd, terrainVars, zoneVars
    <2>2. DerivedFromCurrentDem'
      BY <1>0, <2>1 DEF DerivedFromCurrentDem, GroundedZones
    <2>3. MemoInv'
      BY <1>0, <2>1 DEF Remember, MemoInv, MemoFresh
    <2> QED BY <2>2, <2>3
  <1>7. CASE Snapshot
    BY <1>0, <1>7 DEF Snapshot, TakeSnapshot, terrainVars, zoneVars,
                      DerivedFromCurrentDem, MemoInv, MemoFresh, GroundedZones
  <1> QED BY <1>1, <1>2, <1>3, <1>4, <1>5, <1>6, <1>7 DEF Step

-----------------------------------------------------------------------------
(***************************************************************************)
(* The policy.  To it a step is one of four: the zones are re-derived, the *)
(* front end runs, a snapshot is taken, or nothing happens.                *)
(***************************************************************************)

\* A step does one thing to the policy, or nothing.
LEMMA PolicyStepKinds ==
  Step => \/ \E zones : RefreshZones(zones)
          \/ \E legs \in 1..MaxLegs : PlanFrontEnd(legs)
          \/ TakeSnapshot
          \/ UNCHANGED policyVars
  BY DEF Step, ClearWorld, AcceptMap, RefuseMap, LoadObstacles, LoadRiskZones,
         Plan, Snapshot, RederiveZones

\* The searcher's binding and the frozen policy stay true.
LEMMA PolicyStep == Inv /\ Step => SearchInv' /\ SnapshotInv'
  <1> SUFFICES ASSUME Inv, Step PROVE SearchInv' /\ SnapshotInv'
    OBVIOUS
  <1>0. /\ zone_policy_generation \in Nat /\ zone_policy_epoch \in Nat
        /\ SearchInv /\ SnapshotInv
    BY DEF Inv, TypeOK
  <1>1. ASSUME NEW zones, RefreshZones(zones) PROVE SearchInv' /\ SnapshotInv'
    BY <1>0, <1>1 DEF RefreshZones, SearchInv, SnapshotInv
  <1>2. ASSUME NEW legs \in 1..MaxLegs, PlanFrontEnd(legs)
        PROVE  SearchInv' /\ SnapshotInv'
    <2>1. searcher'.zones = risk_zones
      BY <1>2 DEF PlanFrontEnd, SearchOutcomes
    <2>2. SearchInv'
      BY <1>0, <1>2, <2>1 DEF PlanFrontEnd, SearchInv
    <2>3. SnapshotInv'
      BY <1>0, <1>2 DEF PlanFrontEnd, SnapshotInv
    <2> QED BY <2>2, <2>3
  <1>3. CASE TakeSnapshot
    <2>1. SearchInv'
      BY <1>0, <1>3 DEF TakeSnapshot, SearchInv
    <2>2. /\ snapshot'.generation = zone_policy_generation
          /\ snapshot'.epoch = zone_policy_epoch
          /\ snapshot'.valid => SnapshotValid
          /\ snapshot'.zones = CurrentPolicy
      BY <1>3 DEF TakeSnapshot, CurrentPolicy
    <2>3. CurrentPolicy' = CurrentPolicy /\ (SnapshotValid' <=> SnapshotValid)
      BY <1>3 DEF TakeSnapshot, CurrentPolicy, SnapshotValid, Disposition
    <2>4. SnapshotInv'
      BY <1>0, <1>3, <2>2, <2>3 DEF TakeSnapshot, SnapshotInv
    <2> QED BY <2>1, <2>4
  <1>4. CASE UNCHANGED policyVars
    BY <1>0, <1>4 DEF policyVars, SearchInv, SnapshotInv, CurrentPolicy,
                      SnapshotValid, Disposition
  <1> QED BY <1>1, <1>2, <1>3, <1>4, PolicyStepKinds

\* A stuttering step changes nothing the invariant reads.
LEMMA StutterInv == Inv /\ UNCHANGED vars => Inv'
  <1> SUFFICES ASSUME Inv, UNCHANGED vars PROVE Inv'
    OBVIOUS
  <1> USE DEF vars, terrainVars, obstacleVars, zoneVars, policyVars, Inv
  <1>1. TypeOK'
    BY DEF TypeOK
  <1>2. GridInv'
    BY DEF GridInv, GridCoversTerrain
  <1>3. ObstacleInv'
    BY DEF ObstacleInv, DeferredAreFlushed, ObstaclesOfThisWorld, HasData
  <1>4. DerivedFromCurrentDem'
    BY DEF DerivedFromCurrentDem, GroundedZones
  <1>5. MemoInv'
    BY DEF MemoInv, MemoFresh
  <1>6. SearchInv'
    BY DEF SearchInv
  <1>7. SnapshotInv'
    BY DEF SnapshotInv, CurrentPolicy, SnapshotValid, Disposition
  <1> QED BY <1>1, <1>2, <1>3, <1>4, <1>5, <1>6, <1>7

\* The invariant holds always.
LEMMA InductiveInv == Spec => []Inv
  <1>1. Inv /\ [Next]_vars => Inv'
    BY NextIsStep, TypeStep, GridStep, DerivedStep, PolicyStep, StutterInv
       DEF Inv
  <1> QED BY InitInv, <1>1, PTL DEF Spec

-----------------------------------------------------------------------------

\* The world's state keeps its types (members of PathManager).
THEOREM WorldTypeCorrect == Spec => []TypeOK
  <1>1. Inv => TypeOK
    BY DEF Inv
  <1> QED BY InductiveInv, <1>1, PTL

\* Once there is a grid no obstacle is deferred any more, whatever order maps,
\* batches and plans come in (flushPendingObstacles).
THEOREM NothingStaysDeferred == Spec => []DeferredAreFlushed
  <1>1. Inv => DeferredAreFlushed
    BY DEF Inv, ObstacleInv
  <1> QED BY InductiveInv, <1>1, PTL

\* No obstacle grounded on one map stands in a world of another geometry, and
\* the grid is that of the loaded terrain (setTerrainData's latches).
THEOREM ObstaclesMatchTheMap ==
  Spec => []ObstaclesOfThisWorld /\ []GridCoversTerrain
  <1>1. Inv => ObstaclesOfThisWorld /\ GridCoversTerrain
    BY DEF Inv, ObstacleInv, GridInv
  <1> QED BY InductiveInv, <1>1, PTL

\* Zones, masks and sampling pitch are always those of the loaded terrain
\* (refreshEffectiveRiskZones and rebuildTerrainRiskMasks).
THEOREM NothingDerivedIsStale == Spec => []DerivedFromCurrentDem
  <1>1. Inv => DerivedFromCurrentDem
    BY DEF Inv
  <1> QED BY InductiveInv, <1>1, PTL

\* The elevation memo never answers for a map that was replaced or cleared
\* (getElevationAndGrad).
THEOREM MemoNeverStale == Spec => []MemoFresh
  <1>1. Inv => MemoFresh
    BY DEF Inv, MemoInv
  <1> QED BY InductiveInv, <1>1, PTL

\* A zone contact is judged only against the policy of the one search that ran
\* on the present zones (zoneContact, zoneExposureRaw).
THEOREM PolicyNeverStale == Spec => []JudgedByTheOneSearch
  <1>1. Inv => JudgedByTheOneSearch
    <2> SUFFICES ASSUME Inv, NEW i \in DOMAIN snapshot.zones,
                        Judged(snapshot, i)
                 PROVE  /\ searcher.zones = risk_zones
                        /\ searcher.pass # 0
                        /\ epoch_searches = 1
                        /\ snapshot.zones[i].disposition
                             = Disposition(searcher, i)
      BY DEF JudgedByTheOneSearch
    <2>1. snapshot.zones = CurrentPolicy /\ SnapshotValid /\ i \in DOMAIN risk_zones
      BY DEF Inv, SnapshotInv, Judged, ZoneSnapshotCurrent
    <2>2. risk_zones # <<>>
      BY <2>1
    <2>3. searcher.zones = risk_zones
      BY <2>1 DEF Inv, SearchInv, SnapshotValid
    <2> QED BY <2>1, <2>2, <2>3 DEF SnapshotValid, CurrentPolicy
  <1> QED BY InductiveInv, <1>1, PTL

\* A judged zone stands on the terrain that is loaded (zoneSnapshotCurrent).
THEOREM JudgedZonesAreCurrent == Spec => []JudgedOnCurrentWorld
  <1>1. Inv => JudgedOnCurrentWorld
    <2> SUFFICES ASSUME Inv, NEW i \in DOMAIN snapshot.zones,
                        Judged(snapshot, i)
                 PROVE  snapshot.zones[i].zone.ground = terrain
      BY DEF JudgedOnCurrentWorld
    <2>1. snapshot.zones = CurrentPolicy /\ i \in DOMAIN risk_zones
      BY DEF Inv, SnapshotInv, Judged, ZoneSnapshotCurrent
    <2>2. snapshot.zones[i].zone = risk_zones[i]
      BY <2>1 DEF CurrentPolicy
    <2>3. risk_zones[i].ground = terrain
      BY <2>1 DEF Inv, DerivedFromCurrentDem, GroundedZones
    <2> QED BY <2>2, <2>3
  <1> QED BY InductiveInv, <1>1, PTL

-----------------------------------------------------------------------------

\* What the obstacles of a world are, in one sentence that distributes.
LEMMA RequestsOf ==
  /\ \A r, m : {o.id : o \in Grounded(r, m)} = r
  /\ \A a, b : {o.id : o \in a \cup b} = {o.id : o \in a} \cup {o.id : o \in b}
  <1>1. ASSUME NEW r, NEW m PROVE {o.id : o \in Grounded(r, m)} = r
    <2> DEFINE G == Grounded(r, m)
    <2>1. \A x : x \in G => x.id \in r
      BY DEF Grounded
    <2>2. \A x \in r : \E o \in G : o.id = x
      <3> SUFFICES ASSUME NEW x \in r PROVE \E o \in G : o.id = x
        OBVIOUS
      <3>1. [id |-> x, ground |-> m] \in G
        BY DEF Grounded
      <3> QED
        BY <3>1
    <2> HIDE DEF G
    <2>3. {o.id : o \in G} = r
      BY <2>1, <2>2
    <2> QED
      BY <2>3 DEF G
  <1>2. ASSUME NEW a, NEW b
        PROVE  {o.id : o \in a \cup b} = {o.id : o \in a} \cup {o.id : o \in b}
    OBVIOUS
  <1> QED
    BY <1>1, <1>2

\* A plan puts what was deferred on the grid and drops nothing.
LEMMA PlanKeepsRequests ==
  ASSUME NEW legs, Plan(legs)
  PROVE  Requested \subseteq Requested'
  <1>1. /\ obstacles' = obstacles \cup Grounded(pending_obstacles, terrain)
        /\ pending_obstacles' = {}
    BY DEF Plan, Flushed
  <1>2. {o.id : o \in obstacles'} = {o.id : o \in obstacles} \cup pending_obstacles
    BY <1>1, RequestsOf
  <1> QED
    BY <1>1, <1>2 DEF Requested

\* So does a map of the geometry that is loaded, or the first one.
LEMMA MapKeepsRequests ==
  ASSUME NEW map, AcceptMap(map), ~GeometryChanged(map)
  PROVE  Requested \subseteq Requested'
  <1>1. CASE sdf_built
    BY <1>1 DEF AcceptMap, KeptObstacles, KeptPending, Requested
  <1>2. CASE ~sdf_built
    <2>1. /\ obstacles' = obstacles \cup Grounded(pending_obstacles, map)
          /\ pending_obstacles' = {}
      BY <1>2 DEF AcceptMap, KeptObstacles, KeptPending, Flushed
    <2>2. {o.id : o \in obstacles'}
            = {o.id : o \in obstacles} \cup pending_obstacles
      BY <2>1, RequestsOf
    <2> QED
      BY <2>1, <2>2 DEF Requested
  <1> QED
    BY <1>1, <1>2

\* No obstacle that was asked for is lost by a plan, by the first map of a
\* world or by a refresh of the same map (flushPendingObstacles and the
\* latches of setTerrainData).
THEOREM NoObstacleIsLost == Spec => ObstaclesSurvive
  <1> DEFINE planned == zone_policy_epoch' # zone_policy_epoch
             refreshed == /\ terrain_generation' # terrain_generation
                          /\ terrain' # NoMap
                          /\ terrain # NoMap => terrain'.geo = terrain.geo
             kept == Requested \subseteq Requested'
  <1>1. Inv /\ Step => (planned \/ refreshed => kept)
    <2> SUFFICES ASSUME Inv, Step, planned \/ refreshed PROVE kept
      OBVIOUS
    <2>0. zone_policy_epoch \in Nat
      BY DEF Inv, TypeOK
    <2>1. CASE ClearWorld
      BY <2>1 DEF ClearWorld, RederiveZones, RefreshZones
    <2>2. ASSUME NEW map \in Maps, AcceptMap(map) PROVE kept
      <3>1. refreshed
        BY <2>2 DEF AcceptMap, RederiveZones, RefreshZones
      <3>2. ~GeometryChanged(map)
        BY <2>2, <3>1 DEF GeometryChanged, AcceptMap
      <3> QED
        BY <2>2, <3>2, MapKeepsRequests
    <2>3. ASSUME NEW geo \in Geometries, RefuseMap(geo) PROVE kept
      BY <2>3 DEF RefuseMap, Requested
    <2>4. ASSUME NEW replace \in BOOLEAN,
                 NEW batch \in SUBSET (Obstacles \ Requested),
                 LoadObstacles(replace, batch)
          PROVE  kept
      BY <2>4 DEF LoadObstacles, terrainVars, policyVars
    <2>5. ASSUME NEW replace \in BOOLEAN, NEW batch \in Batches,
                 LoadRiskZones(replace, batch)
          PROVE  kept
      BY <2>5 DEF LoadRiskZones, obstacleVars, Requested
    <2>6. ASSUME NEW legs \in 1..MaxLegs, Plan(legs) PROVE kept
      BY <2>6, PlanKeepsRequests
    <2>7. CASE Snapshot
      BY <2>7 DEF Snapshot, obstacleVars, Requested
    <2> QED
      BY <2>1, <2>2, <2>3, <2>4, <2>5, <2>6, <2>7 DEF Step
  <1>2. Inv /\ [Next]_vars => [planned \/ refreshed => kept]_vars
    BY <1>1, NextIsStep
  <1> QED
    BY InductiveInv, <1>2, PTL DEF Spec, ObstaclesSurvive
=============================================================================
