---------------------------- MODULE WorldModel ----------------------------
(***************************************************************************)
(* The planner's world: the terrain (DEM) it was sent, the grid dynamic    *)
(* obstacles live on, the obstacles themselves, the risk zones and all     *)
(* that is derived from them (PathManager, with the callbacks of ReplanFSM *)
(* that feed it).  Every handler runs to its end before the next one: they *)
(* share one mutually exclusive callback group.                            *)
(*                                                                         *)
(* A map is a geometry (extent and resolution) with elevations.  What was  *)
(* computed from a map is recorded as that map: the height an obstacle or  *)
(* a zone stands at is the map it was grounded on, NoMap for sea level or  *)
(* the raw height.  A resolution is recorded as the geometry it belongs    *)
(* to.  X_mutant is a plausible wrong X, used to show that the checks can  *)
(* fail.                                                                   *)
(***************************************************************************)
EXTENDS ZonePolicy, Integers

CONSTANTS
  Geometries,       \* extents with a resolution
  Elevations,       \* elevation layers
  NoMap,            \* no DEM: world=none
  NoVoxel,          \* manager/sdf_voxel_size <= 0, pitch 0
  NoGrid,           \* the obstacle grid before it is built
  MissionGrid,      \* a grid over one mission's box, built without a DEM
  ConfiguredVoxel,  \* manager/sdf_voxel_size: NoVoxel tracks the DEM cell
  Obstacles,        \* dynamic obstacles (identity of the request)
  Zones,            \* risk zones as the operator describes them
  StartupZones,     \* the risk_zones parameter
  MaxZones,         \* bound on the length of the zone list
  MaxGeneration,    \* bound on zone_policy_generation
  MaxEpoch          \* bound on zone_policy_epoch

Maps == [geo : Geometries, elev : Elevations]

ASSUME MapAssumption == NoMap \notin Maps
ASSUME GridAssumption ==
  NoGrid # MissionGrid /\ NoGrid \notin Maps /\ MissionGrid \notin Maps
ASSUME VoxelAssumption ==
  NoVoxel \notin Geometries /\ ConfiguredVoxel \in Geometries \cup {NoVoxel}
ASSUME ZonesAssumption == StartupZones \in Seq(Zones)

VARIABLES
  terrain,             \* terrain_data_: a map, or NoMap when not valid
  terrain_generation,  \* terrain_data_.generation
  sdf_built,           \* the latch of the world-wide grid
  grid,                \* the obstacle grid: none, a mission's box or a map's
  sdf_voxel_size,      \* its xy resolution
  obstacles,           \* active patches with the map they were grounded on
  pending_obstacles,   \* requests deferred until a grid exists
  optimizer_pitch,     \* the optimizer's DEM sampling pitch
  risk_zones_raw,      \* the zones as given
  active_risk_zones,   \* the accumulated set the state machine owns
  risk_masks,          \* what the terrain line-of-sight masks were built from
  memo,                \* the optimizer thread's one-entry elevation memo
  terrain_ready        \* the last ingestion receipt published

terrainVars == <<terrain, terrain_generation, optimizer_pitch, terrain_ready>>
obstacleVars == <<sdf_built, grid, sdf_voxel_size, obstacles,
                  pending_obstacles>>
zoneVars == <<risk_zones_raw, active_risk_zones, risk_masks>>
vars == <<terrainVars, obstacleVars, zoneVars, memo, policyVars>>

AutoVoxel == ConfiguredVoxel = NoVoxel
HasData == grid # NoGrid

\* groundedCenter, for a set of requests.
Grounded(requests, map) == {[id |-> o, ground |-> map] : o \in requests}

\* refreshEffectiveRiskZones' rule: heights are above the given terrain.
GroundedZones(raw, map) ==
  [i \in DOMAIN raw |-> [zone |-> raw[i], ground |-> map]]

\* refreshEffectiveRiskZones and rebuildTerrainRiskMasks, always together.
RederiveZones(raw, map) ==
  /\ RefreshZones(GroundedZones(raw, map))
  /\ risk_masks' = [zones |-> GroundedZones(raw, map), map |-> map]

Init ==
  /\ terrain = NoMap
  /\ terrain_generation = 0
  /\ sdf_built = FALSE
  /\ grid = NoGrid
  /\ sdf_voxel_size = ConfiguredVoxel
  /\ obstacles = {}
  /\ pending_obstacles = {}
  /\ optimizer_pitch = NoVoxel
  /\ risk_zones_raw = StartupZones
  /\ active_risk_zones = <<>>
  /\ risk_masks = [zones |-> GroundedZones(StartupZones, NoMap), map |-> NoMap]
  /\ memo = [generation |-> -1, map |-> NoMap]
  /\ terrain_ready = NoVoxel
  /\ PolicyInit(GroundedZones(StartupZones, NoMap))

-----------------------------------------------------------------------------
(***************************************************************************)
(* setTerrainData, reached from terrainCallback.                           *)
(***************************************************************************)

\* An empty message clears the world.  The obstacles, deferred ones included,
\* and the grid go with it.
ClearWorld ==
  /\ terrain' = NoMap
  /\ terrain_generation' = terrain_generation + 1
  /\ optimizer_pitch' = NoVoxel
  /\ sdf_built' = FALSE
  /\ grid' = NoGrid
  /\ obstacles' = {}
  /\ pending_obstacles' = {}
  /\ RederiveZones(risk_zones_raw, NoMap)
  /\ UNCHANGED <<sdf_voxel_size, risk_zones_raw, active_risk_zones, memo,
                 terrain_ready>>

\* Only a map that follows a map can change the geometry.
GeometryChanged(map) == terrain # NoMap /\ terrain.geo # map.geo

\* The patches of the old map go when the geometry changes; when there are
\* none, deferred requests stay.
KeptObstacles_mutant(map) == obstacles

KeptObstacles(map) == IF GeometryChanged(map) THEN {} ELSE obstacles
KeptPending(map) ==
  IF GeometryChanged(map) /\ obstacles # {} THEN {} ELSE pending_obstacles

\* flushPendingObstacles: deferred requests are added to the grid at last.
Flushed_mutant(requests, map) ==
  IF map = NoMap THEN {} ELSE Grounded(requests, map)

Flushed(requests, map) == Grounded(requests, map)

\* A well-formed map: the latches are reset on a geometry change, the grid is
\* built over the map when there is none, deferred obstacles are added.
AcceptMap_mutant(map) ==
  LET built == sdf_built /\ ~GeometryChanged(map) IN
  /\ terrain' = map
  /\ terrain_generation' = terrain_generation + 1
  /\ optimizer_pitch' = map.geo
  /\ terrain_ready' = map.geo
  /\ sdf_voxel_size' = IF AutoVoxel THEN map.geo ELSE sdf_voxel_size
  /\ sdf_built' = TRUE
  /\ grid' = IF built THEN grid ELSE map
  /\ obstacles' = KeptObstacles(map)
       \cup IF built THEN {} ELSE Flushed(KeptPending(map), map)
  /\ pending_obstacles' = IF built THEN KeptPending(map) ELSE {}
  /\ IF built THEN UNCHANGED <<policyVars, risk_masks>>
              ELSE RederiveZones(risk_zones_raw, map)
  /\ UNCHANGED <<risk_zones_raw, active_risk_zones, memo>>

AcceptMap(map) ==
  LET built == sdf_built /\ ~GeometryChanged(map) IN
  /\ terrain' = map
  /\ terrain_generation' = terrain_generation + 1
  /\ optimizer_pitch' = map.geo
  /\ terrain_ready' = map.geo
  /\ sdf_voxel_size' = IF AutoVoxel THEN map.geo ELSE sdf_voxel_size
  /\ sdf_built' = TRUE
  /\ grid' = IF built THEN grid ELSE map
  /\ obstacles' = KeptObstacles(map)
       \cup IF built THEN {} ELSE Flushed(KeptPending(map), map)
  /\ pending_obstacles' = IF built THEN KeptPending(map) ELSE {}
  /\ RederiveZones(risk_zones_raw, map)
  /\ UNCHANGED <<risk_zones_raw, active_risk_zones, memo>>

\* A map with a resolution and data but without a usable elevation layer is
\* refused: the voxel size has followed it by then, and the receipt goes out.
RefuseMap(geo) ==
  /\ sdf_voxel_size' = IF AutoVoxel THEN geo ELSE sdf_voxel_size
  /\ terrain_ready' = geo
  /\ UNCHANGED <<terrain, terrain_generation, optimizer_pitch, sdf_built, grid,
                 obstacles, pending_obstacles, zoneVars, memo, policyVars>>

-----------------------------------------------------------------------------
(***************************************************************************)
(* loadObstaclesCallback, loadRiskZonesCallback.                           *)
(***************************************************************************)

Requested == {o.id : o \in obstacles} \cup pending_obstacles

\* A batch is deferred as long as there is no grid to put it on.
LoadObstacles_mutant(replace, batch) ==
  LET kept == IF replace THEN {} ELSE obstacles
      waiting == IF replace THEN {} ELSE pending_obstacles
  IN /\ IF sdf_built
        THEN /\ obstacles' = kept \cup Grounded(batch, terrain)
             /\ pending_obstacles' = waiting
        ELSE /\ obstacles' = kept
             /\ pending_obstacles' = waiting \cup batch
     /\ UNCHANGED <<terrainVars, sdf_built, grid, sdf_voxel_size, zoneVars,
                    memo, policyVars>>

LoadObstacles(replace, batch) ==
  LET kept == IF replace THEN {} ELSE obstacles
      waiting == IF replace THEN {} ELSE pending_obstacles
  IN /\ IF HasData
        THEN /\ obstacles' = kept \cup Grounded(batch, terrain)
             /\ pending_obstacles' = waiting
        ELSE /\ obstacles' = kept
             /\ pending_obstacles' = waiting \cup batch
     /\ UNCHANGED <<terrainVars, sdf_built, grid, sdf_voxel_size, zoneVars,
                    memo, policyVars>>

\* A batch replaces or extends the accumulated set, which then replaces the
\* planner's.
LoadRiskZones(replace, batch) ==
  LET active == IF replace THEN batch ELSE active_risk_zones \o batch IN
  /\ Len(active) <= MaxZones
  /\ active_risk_zones' = active
  /\ risk_zones_raw' = active
  /\ RederiveZones(active, terrain)
  /\ UNCHANGED <<terrainVars, obstacleVars, memo>>

-----------------------------------------------------------------------------
(***************************************************************************)
(* planGlobalTraj: the grid, the deferred obstacles, the front end, and    *)
(* the optimizer's elevation queries through the memo.                     *)
(***************************************************************************)

GridForPlan ==
  IF sdf_built THEN grid ELSE IF terrain # NoMap THEN terrain ELSE MissionGrid

\* One optimizer query: a memo of this generation answers it, else the DEM.
Remember ==
  memo' = IF memo.generation = terrain_generation THEN memo
          ELSE [generation |-> terrain_generation, map |-> terrain]

\* Without a voxel size no grid can be built and the plan fails before it
\* changes anything.
Plan(legs) ==
  /\ sdf_built \/ sdf_voxel_size # NoVoxel
  /\ grid' = GridForPlan
  /\ sdf_built' = (sdf_built \/ terrain # NoMap)
  /\ obstacles' = obstacles \cup Flushed(pending_obstacles, terrain)
  /\ pending_obstacles' = {}
  /\ PlanFrontEnd(legs)
  /\ Remember
  /\ UNCHANGED <<terrainVars, sdf_voxel_size, zoneVars>>

\* The transition generator takes a snapshot of the policy.
Snapshot ==
  /\ TakeSnapshot
  /\ UNCHANGED <<terrainVars, obstacleVars, zoneVars, memo>>

Batches == {<<>>} \cup {<<z>> : z \in Zones}

Next ==
  \/ zone_policy_generation < MaxGeneration /\ ClearWorld
  \/ zone_policy_generation < MaxGeneration
       /\ \E map \in Maps : AcceptMap(map)
  \/ \E geo \in Geometries : RefuseMap(geo)
  \/ \E replace \in BOOLEAN, batch \in SUBSET (Obstacles \ Requested) :
       LoadObstacles(replace, batch)
  \/ zone_policy_generation < MaxGeneration
       /\ \E replace \in BOOLEAN, batch \in Batches :
            LoadRiskZones(replace, batch)
  \/ zone_policy_epoch < MaxEpoch /\ \E legs \in 1..MaxLegs : Plan(legs)
  \/ Snapshot

Spec == Init /\ [][Next]_vars

-----------------------------------------------------------------------------
(***************************************************************************)
(* Properties.                                                             *)
(***************************************************************************)

Grounds == Maps \cup {NoMap}
Shapes == [zone : Zones, ground : Grounds]

\* Type invariant of the world's state; the policy's parts are typed as far as
\* the properties look at them.
TypeOK ==
  /\ terrain \in Grounds
  /\ terrain_generation \in Nat
  /\ sdf_built \in BOOLEAN
  /\ grid \in Maps \cup {NoGrid, MissionGrid}
  /\ sdf_voxel_size \in Geometries \cup {NoVoxel}
  /\ obstacles \subseteq [id : Obstacles, ground : Grounds]
  /\ pending_obstacles \subseteq Obstacles
  /\ optimizer_pitch \in Geometries \cup {NoVoxel}
  /\ risk_zones_raw \in Seq(Zones)
  /\ active_risk_zones \in Seq(Zones)
  /\ memo \in [generation : Nat \cup {-1}, map : Grounds]
  /\ terrain_ready \in Geometries \cup {NoVoxel}
  /\ risk_zones \in Seq(Shapes)
  /\ zone_policy_generation \in Nat
  /\ zone_policy_epoch \in Nat

\* No obstacle stays deferred once there is a grid: the next plan or the next
\* map would otherwise be made without it (flushPendingObstacles).
DeferredAreFlushed == HasData => pending_obstacles = {}

\* An obstacle grounded on a map never stands in a world of another geometry
\* (setTerrainData: patches "baked groundedCenter() on the old ground, so they
\* cannot survive a geometry change").
ObstaclesOfThisWorld ==
  \A o \in obstacles : o.ground # NoMap =>
    terrain # NoMap /\ o.ground.geo = terrain.geo

\* The obstacle grid covers the terrain that is loaded, and is a mission's box
\* only while none is (sdf_built_ and the geometry latch).
GridCoversTerrain ==
  /\ terrain # NoMap => grid \in Maps /\ grid.geo = terrain.geo
  /\ terrain = NoMap => grid \in {NoGrid, MissionGrid}

\* The zones stand on the terrain that is loaded, their line-of-sight masks
\* were built from these zones and this terrain, and the optimizer samples it
\* at its own pitch (refreshEffectiveRiskZones, rebuildTerrainRiskMasks,
\* setTerrainHeightmap).
DerivedFromCurrentDem ==
  /\ risk_zones = GroundedZones(risk_zones_raw, terrain)
  /\ risk_masks = [zones |-> risk_zones, map |-> terrain]
  /\ optimizer_pitch = IF terrain = NoMap THEN NoVoxel ELSE terrain.geo

\* The elevation memo never answers for another map than the one loaded
\* (getElevationAndGrad: keyed on the terrain generation).
MemoFresh == memo.generation = terrain_generation => memo.map = terrain

\* A zone contact is judged only on zones that stand on the loaded terrain:
\* a map that arrives after the snapshot turns the answers into STALE.
JudgedOnCurrentWorld ==
  \A i \in DOMAIN snapshot.zones :
    Judged(snapshot, i) => snapshot.zones[i].zone.ground = terrain

\* Planning, the first map of a world and a refresh of the same map lose no
\* obstacle, deferred or active (addDynamicSphere and addDynamicBox promise
\* "deferred (not an error)").
ObstaclesSurvive ==
  [][\/ zone_policy_epoch' # zone_policy_epoch
     \/ /\ terrain_generation' # terrain_generation
        /\ terrain' # NoMap
        /\ terrain # NoMap => terrain'.geo = terrain.geo
     => Requested \subseteq Requested']_vars

\* Appending zones keeps the zones the planner already has
\* (loadRiskZonesCallback: before the accumulated set "Append silently dropped
\* previously loaded zones").
AppendKeepsZones ==
  [][\A batch \in Batches :
       LoadRiskZones(FALSE, batch) =>
         \A i \in DOMAIN risk_zones_raw :
           /\ i \in DOMAIN risk_zones_raw'
           /\ risk_zones_raw'[i] = risk_zones_raw[i]]_vars
=============================================================================
