--------------------------- MODULE RiskHorizon ---------------------------
(***************************************************************************)
(* The terrain and the risk field a plan is made over (path_manager.cpp),  *)
(* in the vertical plane of the route.                                     *)
(*                                                                         *)
(* Columns are steps along the route and heights are whole levels.  The    *)
(* terrain beside the route is the strip y = 1: what the trajectory meets  *)
(* when it drifts sideways.  A zone sees along the terrain's horizon: the  *)
(* mask rebuilt for every terrain or zone change stores, for each range,   *)
(* the height below which nearer terrain hides a point from the zone.      *)
(* The mask's rings are a column apart and its visibility step is sharp:   *)
(* risk_mask_softness_ is taken to its limit 0, so "visibility above one   *)
(* half" is "above the ceiling".                                           *)
(***************************************************************************)
EXTENDS Integers, Sequences, FiniteSets, FiniteSetsExt

CONSTANTS
  Far,               \* the last column of the terrain; outside it is off-DEM
  Water,             \* the mark of a column without elevation, no height
  OptClearance,      \* optimization/obstacle_clearance
  RiskMasked,        \* manager/risk_terrain_mask_enable
  RiskGrounded       \* manager/risk_grounded

ASSUME FarAssumption == Far \in Nat \ {0}
ASSUME WaterAssumption == Water \in Int /\ Water < -100000
ASSUME OptClearanceAssumption == OptClearance \in Nat
ASSUME MaskAssumption == RiskMasked \in BOOLEAN /\ RiskGrounded \in BOOLEAN

VARIABLE scene   \* what the plan is asked: terrain, zones, boxes, mission

\* No ceiling and no floor at all: the code's infinities.
NegInf == -100000
PosInf == 100000

Larger(a, b) == IF a < b THEN b ELSE a
Smaller(a, b) == IF a < b THEN a ELSE b
Abs(n) == IF n < 0 THEN -n ELSE n

\* The height of column x, on the track or in the strip beside it.
Strip == 0..1
Elevation(x, y) ==
  IF ~scene.dem \/ x \notin 0..Far THEN Water
  ELSE IF y = 0 THEN scene.elev[x] ELSE scene.side[x]
Land(x, y) == Elevation(x, y) # Water

\* Everything a mission point or a lift reads of the track.
Ground(x) == IF Land(x, 0) THEN Elevation(x, 0) ELSE 0

-----------------------------------------------------------------------------
\* A zone [x, z, reach, rise]: an ellipsoid round its source.
InMoat(zn, x, z) ==
  (x - zn.x) * (x - zn.x) * zn.rise * zn.rise
    + (z - zn.z) * (z - zn.z) * zn.reach * zn.reach
      < zn.reach * zn.reach * zn.rise * zn.rise

\* The fill of a ray no terrain blocks: far below anything that flies.
ClearCeiling(zn) == zn.z - 2 * zn.reach - 1

\* The ring of the horizon table at column x: the highest line of sight over
\* the samples strictly nearer than x.  Off-DEM samples block nothing.
HorizonRing(zn, x) ==
  LET d == Abs(x - zn.x)
      dir == IF x < zn.x THEN -1 ELSE 1
      nearer == {r \in 1..(d - 1) : Land(zn.x + dir * r, 0)}
  IN IF nearer = {} THEN ClearCeiling(zn)
     ELSE Max({zn.z + (d * (Elevation(zn.x + dir * r, 0) - zn.z)) \div r :
               r \in nearer})

\* riskShadowCeiling: nothing at the source itself or beyond the mask.
ShadowCeiling(zn, x) ==
  IF \/ ~RiskMasked
     \/ ~scene.dem
     \/ x = zn.x
     \/ Abs(x - zn.x) > zn.reach
  THEN NegInf
  ELSE HorizonRing(zn, x)

\* riskGroundedZ: a point is judged no lower than the clearance band.
GroundedZ(x, z) ==
  IF RiskGrounded /\ Land(x, 0)
  THEN Larger(z, Elevation(x, 0) + OptClearance) ELSE z

\* riskVisibilityValue > 0.5
Visible(zn, x, z) ==
  \/ ShadowCeiling(zn, x) = NegInf
  \/ GroundedZ(x, z) > ShadowCeiling(zn, x)

\* Inside a zone that sees the point.
InSight(zn, x, z) == InMoat(zn, x, z) /\ Visible(zn, x, z)

-----------------------------------------------------------------------------
\* Reference: the straight line from the zone to the point meets no terrain.
LineOfSight(zn, x, z) ==
  \A k \in (0..Far) \ {x, zn.x} :
    /\ Land(k, 0)
    /\ Abs(k - zn.x) < Abs(x - zn.x)
    /\ (k < zn.x) = (x < zn.x)
    => (Elevation(k, 0) - zn.z) * Abs(x - zn.x) < (z - zn.z) * Abs(k - zn.x)
=============================================================================
