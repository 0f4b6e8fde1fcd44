--------------------------- MODULE SeedCorridor ---------------------------
(***************************************************************************)
(* The optimizer's seed (PolyTrajOptimizer::optimizeFromPath): the route   *)
(* vertices become piece boundaries, with a midpoint for a single segment  *)
(* and a lead-in point along the start velocity, and the corridor the      *)
(* solve is kept in is frozen round them: which zone barriers are exempt,  *)
(* a per-piece altitude cap, the floors that taper down to pinned ends,    *)
(* and, with H4, a committed height profile found by dynamic programming.  *)
(*                                                                         *)
(* The solve itself is module SolveLoop; here it succeeds or fails.  Piece *)
(* times, the roughness table and the logged diagnostics are left out.     *)
(*                                                                         *)
(* X_mutant is a plausible wrong X, used to show that the checks can fail. *)
(***************************************************************************)
EXTENDS GuidedRoute

CONSTANTS
  LeadInTime,    \* optimization/lead_in_time
  CapSlope,      \* optimization/alt_cap_slope, levels per column
  ZoneRelax,     \* optimization/alt_cap_zone_relax
  ShadowMargin,  \* optimization/alt_cap_shadow_margin; 0 turns it off
  TaperLen,      \* the end taper's radius
  CommitSwath,   \* optimization/h4_commit_swath
  ClimbSlope,    \* optimization/h4_climb_slope, levels per column
  MinWidth,      \* the narrowest H5 box
  Cruise         \* max_vel

ASSUME SlopeAssumption == {CommitSwath, ClimbSlope, ShadowMargin} \subseteq Nat
ASSUME ScaleAssumption ==
  {LeadInTime, CapSlope, ZoneRelax, TaperLen} \subseteq Int

VARIABLES
  path,     \* clean_path with the inserted vertices
  ref,      \* cap_ref, mirrored insertion by insertion
  inserted, \* how many vertices were inserted after the first
  exempt,   \* zones whose barrier is not raised in this solve
  commit,   \* the H4 profile found with its cost; none when infeasible
  caps,     \* alt_zhi_pieces_; empty: the scalar cap rules
  tail,     \* the end velocity, level
  bounds    \* the H5 box of each inner vertex

seedVars == <<path, ref, inserted, exempt, commit, caps, tail, bounds>>

Goal == Last(job.wps)

-----------------------------------------------------------------------------
\* prepareRiskBarrier and markFrontEndCrossings: a zone that sees the start or
\* a waypoint is exempt, and one that sees a vertex of the committed route,
\* unless the route is pass 1's full avoidance.
HoldsMission ==
  {i \in DOMAIN scene.zones : \E p \in {job.from} \cup Range(job.wps) :
     InSight(scene.zones[i], p.x, p.z)}

RouteCrosses ==
  {i \in DOMAIN scene.zones : \E p \in Range(fe.clean) :
     InSight(scene.zones[i], p.x, p.z)}

\* A reference that does not pair with the route is dropped.
Paired(cap, route) == IF Len(cap) = Len(route) THEN cap ELSE <<>>

\* Mirrored on the reference by the larger neighbour.
Mirrored_mutant(r) == IF r = <<>> THEN r ELSE InsertAt(r, 2, r[1])
Mirrored(r) == IF r = <<>> THEN r ELSE InsertAt(r, 2, Larger(r[1], r[2]))

WithMid(route) ==
  IF Len(route) >= 3 THEN route
  ELSE InsertAt(route, 2, [x |-> (route[1].x + route[2].x) \div 2,
                           z |-> (route[1].z + route[2].z) \div 2])

LeadIn == LeadInTime > 0 /\ head # 0

WithLead(route) ==
  IF ~LeadIn THEN route
  ELSE InsertAt(route, 2, [x |-> route[1].x + head * LeadInTime,
                           z |-> route[1].z])

Plant ==
  /\ stage = "seed"
  /\ exempt' = HoldsMission \cup IF band.suppress THEN {} ELSE RouteCrosses
  /\ path' = WithLead(WithMid(fe.clean))
  /\ LET r0 == Paired(fe.cap, fe.clean)
         r1 == IF Len(fe.clean) < 3 THEN Mirrored(r0) ELSE r0
     IN ref' = IF LeadIn THEN Mirrored(r1) ELSE r1
  /\ inserted' = Len(path') - Len(fe.clean)
  /\ stage' = "commit"
  /\ UNCHANGED <<scene, job, box, sdf_built, leg, fe, pass, last, head, band,
                 commit, caps, tail, bounds>>

-----------------------------------------------------------------------------
\* setupTerrainTaper: an end pinned inside the clearance band, or below the
\* altitude floor, tapers what is demanded near it.  Off the DEM an end counts
\* as over the sea.
Ends == <<job.from, Goal>>
EndAgl(e) == Ends[e].z - Ground(Ends[e].x)
TerrTaperOn(e) == EndAgl(e) < OptClearance
FloorTaperOn(e) == Ends[e].z < band.lo

TaperRadius ==
  LET armed == {e \in {1, 2} : TerrTaperOn(e) \/ FloorTaperOn(e)}
      span == Abs(Goal.x - job.from.x)
  IN IF armed = {} \/ span = 0 THEN TaperLen
     ELSE Smaller(TaperLen, Larger(2, span \div (IF Cardinality(armed) = 2
                                                 THEN 4 ELSE 2)))

\* taperedTarget: from low at the end to high beyond the radius, smoothly.
Tapered(x, y, e, low, high) ==
  LET d == Abs(x - Ends[e].x) + y
      n == TaperRadius
  IN IF d >= n THEN high
     ELSE low + ((high - low) * d * d * (3 * n - 2 * d)) \div (n * n * n)

TerrainClearanceTarget(x, y) ==
  Min({OptClearance} \cup
      {Tapered(x, y, e, Larger(0, EndAgl(e)), OptClearance) :
       e \in {e \in {1, 2} : TerrTaperOn(e)}})

AltitudeFloorTarget(x, y) ==
  Min({band.lo} \cup {Tapered(x, y, e, Ends[e].z, band.lo) :
                      e \in {e \in {1, 2} : FloorTaperOn(e)}})

\* What the solve is pressed to stay above.
FloorAt(x, y) ==
  Larger(AltitudeFloorTarget(x, y),
         IF Land(x, y) THEN Elevation(x, y) + TerrainClearanceTarget(x, y)
         ELSE NegInf)

-----------------------------------------------------------------------------
\* commitH4Profile: levels one height unit apart from below the lowest to
\* above the highest of floors and route; costs in tenths of a unit.
Disc(x) ==
  {<<x + d[1], d[2]>> :
     d \in {d \in (-CommitSwath..CommitSwath) \X Strip :
              d[1] * d[1] + d[2] * d[2] <= CommitSwath * CommitSwath}}

DiscFloor(x) ==
  LET land == {c \in Disc(x) : Land(c[1], c[2])}
  IN Larger(AltitudeFloorTarget(x, 0),
            IF land = {} THEN NegInf
            ELSE Max({Elevation(c[1], c[2]) : c \in land})
                   + TerrainClearanceTarget(x, 0))

\* The lowest ceiling that hides the disc from every zone in reach of it;
\* none reaches it, or one sees all of it: PosInf, nothing to stay under.
DiscCeiling(x) ==
  LET seen == {cz \in {d[1] : d \in Disc(x)} \X Range(scene.zones) :
                 Abs(cz[1] - cz[2].x) <= cz[2].reach}
      low == Min({ShadowCeiling(cz[2], cz[1]) : cz \in seen})
  IN IF seen = {} \/ low = NegInf THEN PosInf ELSE low - 1

Anchored(i) == i \in {1, Len(path)} \/ (LeadIn /\ i = 2)

Levels ==
  LET zs == Heights(path) \cup {DiscFloor(p.x) : p \in Range(path)}
  IN (Min(zs) - 1)..(Max(zs) + 2)

Allowed(i) ==
  IF Anchored(i) THEN {path[i].z}
  ELSE {z \in Levels : z >= DiscFloor(path[i].x)}

SiteCost(i, z) ==
  IF Anchored(i) THEN 0
  ELSE 10 * Abs(z - path[i].z)
         + 100 * Larger(0, z - DiscCeiling(path[i].x))

Window(i) == ClimbSlope * Abs(path[i].x - path[i - 1].x) + 1

\* One station: every allowed level, from the cheapest one in its window.
Reached(front, i, z) == {f \in front : Abs(z - Last(f.zs)) <= Window(i)}
StepCost(f, z) == f.cost + Abs(z - Last(f.zs))

Station_mutant(front, i) ==
  {LET best == CHOOSE f \in Reached(front, i, z) :
                 \A g \in Reached(front, i, z) : Last(f.zs) >= Last(g.zs)
   IN [zs |-> Append(best.zs, z), cost |-> StepCost(best, z) + SiteCost(i, z)] :
   z \in {z \in Allowed(i) : Reached(front, i, z) # {}}}
Station(front, i) ==
  {LET best == CHOOSE f \in Reached(front, i, z) :
                 \A g \in Reached(front, i, z) :
                   \/ StepCost(f, z) < StepCost(g, z)
                   \/ /\ StepCost(f, z) = StepCost(g, z)
                      /\ Last(f.zs) <= Last(g.zs)
   IN [zs |-> Append(best.zs, z), cost |-> StepCost(best, z) + SiteCost(i, z)] :
   z \in {z \in Allowed(i) : Reached(front, i, z) # {}}}

Anchor == [zs |-> <<path[1].z>>, cost |-> 0]

Profiles ==
  LET front[i \in 1..Len(path)] ==
        IF i = 1 THEN {Anchor} ELSE Station(front[i - 1], i)
  IN front[Len(path)]

\* Infeasible: the seed flies unchanged.  A vertex moves only when the profile
\* differs from it by more than a level.
CommitProfile ==
  /\ stage = "commit"
  /\ IF ~scene.h4 \/ Len(path) < 3 \/ (LeadIn /\ Len(path) < 4)
     THEN UNCHANGED <<path, commit>>
     ELSE LET found == Profiles
          IN /\ commit' = found
             /\ path' = IF found = {} THEN path
                        ELSE LET zs == (CHOOSE f \in found : TRUE).zs
                             IN [i \in DOMAIN path |->
                                   IF Abs(zs[i] - path[i].z) > 1
                                   THEN [path[i] EXCEPT !.z = zs[i]]
                                   ELSE path[i]]
  /\ stage' = "cap"
  /\ UNCHANGED <<scene, job, box, sdf_built, leg, fe, pass, last, head, band,
                 ref, inserted, exempt, caps, tail, bounds>>

-----------------------------------------------------------------------------
\* The arc-varying cap: the reference dilated along the route at CapSlope,
\* exact in a forward and a backward pass.
Bleed(r, drop) ==
  LET high[i \in 1..Len(r)] ==
        IF i = 1 THEN r[1] ELSE Larger(r[i], high[i - 1] - drop[i])
  IN high

Dilated(r, drop) ==
  Reverse(Bleed(Reverse(Bleed(r, drop)),
                [i \in 2..Len(r) |-> drop[Len(r) + 2 - i]]))

Envelope ==
  Dilated(ref, [i \in 2..Len(path) |->
                  CapSlope * Abs(path[i].x - path[i - 1].x)])

\* The terrain within the corridor's lateral slack, and the clearance.
SwathTerrain(a, b) ==
  Max({NegInf} \cup {Elevation(c[1], c[2]) :
        c \in {c \in Between(a.x, b.x) \X Strip : Land(c[1], c[2])}})

SwathFloor_mutant(a, b) ==
  Larger(IF Land(a.x, 0) THEN Elevation(a.x, 0) + OptClearance ELSE NegInf,
         IF Land(b.x, 0) THEN Elevation(b.x, 0) + OptClearance ELSE NegInf)
SwathFloor(a, b) ==
  IF SwathTerrain(a, b) = NegInf THEN NegInf
  ELSE SwathTerrain(a, b) + OptClearance

\* How near column x comes to the piece, and the relaxation it earns there:
\* all of it inside a zone's reach, fading to none at one and a half.
GapTo(a, b, x) ==
  IF x \in Between(a.x, b.x) THEN 0 ELSE Smaller(Abs(x - a.x), Abs(x - b.x))

Relaxation(a, b) ==
  Max({0} \cup {(ZoneRelax * Smaller(zn.reach, 3 * zn.reach
                                       - 2 * GapTo(a, b, zn.x))) \div zn.reach :
                 zn \in Range(scene.zones)})

\* What hides the whole piece from every zone in reach of it; one sample no
\* terrain hides, and the piece keeps its cap.
ShadowCeil_mutant(a, b) ==
  LET lit == {xz \in Between(a.x, b.x) \X Range(scene.zones) :
                Abs(xz[1] - xz[2].x) <= xz[2].reach}
  IN IF ShadowMargin = 0 \/ lit = {} THEN NegInf
     ELSE Max({ShadowCeiling(xz[2], xz[1]) : xz \in lit})
ShadowCeil(a, b) ==
  LET lit == {xz \in Between(a.x, b.x) \X Range(scene.zones) :
                Abs(xz[1] - xz[2].x) <= xz[2].reach}
  IN IF ShadowMargin = 0 \/ lit = {} THEN NegInf
     ELSE Min({ShadowCeiling(xz[2], xz[1]) : xz \in lit})

\* The band's cap of piece i, and what occlusion makes of it.
BandCap(i) ==
  Larger(Larger(Envelope[i], Envelope[i + 1]),
         SwathFloor(path[i], path[i + 1]))
    + CapHeadroom + Relaxation(path[i], path[i + 1])

PieceCap(i) ==
  Larger(BandCap(i), ShadowCeil(path[i], path[i + 1]) - ShadowMargin)

CapPieces ==
  /\ stage = "cap"
  /\ caps' = IF ref = <<>> THEN <<>>
             ELSE [i \in 1..(Len(path) - 1) |-> PieceCap(i)]
  /\ stage' = "freeze"
  /\ UNCHANGED <<scene, job, box, sdf_built, leg, fe, pass, last, head, band,
                 path, ref, inserted, exempt, commit, tail, bounds>>

CapOf(i) == IF caps = <<>> THEN band.hi ELSE caps[i]

-----------------------------------------------------------------------------
\* The tail: a junction's, verbatim; else level at cruise along the last
\* chord that is not vertical.
Approach ==
  LET turns == {k \in 1..(Len(path) - 1) : path[k].x # Goal.x}
  IN IF turns = {} THEN 1 ELSE Sign(Goal.x - path[Max(turns)].x)

\* buildH5Bounds: the box of each inner vertex, floor to the looser of its
\* two caps; where the floor is above the cap only the top is raised.
H5Box(i) ==
  LET p == path[i]
      lo == FloorAt(p.x, 0)
      hi == Larger(CapOf(i - 1), CapOf(i))
  IN [lo |-> lo, hi |-> Larger(hi, lo + MinWidth)]

Freeze ==
  /\ stage = "freeze"
  /\ \E v \in scene.speeds :
       tail' = IF job.kind # "mission" /\ Goal # Last(fe.route)
               THEN v ELSE Approach * Cruise
  /\ bounds' = [i \in 2..(Len(path) - 1) |-> H5Box(i)]
  /\ stage' = "solve"
  /\ UNCHANGED <<scene, job, box, sdf_built, leg, fe, pass, last, head, band,
                 path, ref, inserted, exempt, commit, caps>>

\* The solve: a failure stores nothing; a slice's result goes to its caller.
Solve ==
  /\ stage = "solve"
  /\ stage' \in {"done", "failed"}
  /\ UNCHANGED <<scene, job, box, sdf_built, leg, fe, pass, last, head, band,
                 path, ref, inserted, exempt, commit, caps, tail, bounds>>

-----------------------------------------------------------------------------
vars == <<guideVars, seedVars>>

SeedInit ==
  /\ path = <<>> /\ ref = <<>> /\ inserted = 0 /\ exempt = {}
  /\ commit = {} /\ caps = <<>> /\ tail = 0 /\ bounds = <<>>

Init == GuideInit /\ SeedInit

Next ==
  \/ GuideNext /\ UNCHANGED seedVars
  \/ Plant \/ CommitProfile \/ CapPieces \/ Freeze \/ Solve

Spec == Init /\ [][Next]_vars

-----------------------------------------------------------------------------
\* What the front end decided at column x, before the filter.
RawAt(x) ==
  Max({ChordAt(fe.raw[i], fe.raw[i + 1], x) :
       i \in {i \in 1..(Len(fe.raw) - 1) :
               x \in Between(fe.raw[i].x, fe.raw[i + 1].x)}})

Frozen == stage \in {"freeze", "solve"}

\* A vertex of the seed comes from this one of the route, an inserted one from
\* the first.
Origin(i, j) == IF i <= j + 1 THEN 1 ELSE i - j

\* The cap of every piece leaves the headroom above what the front end
\* committed to at both kept vertices round the piece, whatever the filter
\* planed off, whichever vertices were inserted and however the route was
\* sliced (poly_traj_optimizer.cpp:100-118, path_manager.cpp:1438-1450).
CapCoversCommitment ==
  Frozen =>
    \A i \in 1..(Len(path) - 1) :
      LET k == Origin(i, inserted)
      IN CapOf(i) >= CapHeadroom + Larger(RawAt(fe.clean[k].x),
                                          RawAt(fe.clean[k + 1].x))

\* The decision at every piece boundary of the mission, before the filter, and
\* where among them the route of this solve begins: a slice is a prefix or a
\* suffix of it.
DecidedOf(raw) == Pieces(raw, [i \in DOMAIN raw |-> raw[i].z])
Decided == DecidedOf(fe.raw)
Offset == IF job.junction THEN Len(Decided) - Len(fe.clean) ELSE 0

\* The same by vertex, also where the mission turns back over a column: each
\* cap is over the decision at the two boundaries its own piece comes from, so
\* neither a slice nor an insertion shifts the references against the route
\* (poly_traj_optimizer.cpp:32-57, path_manager.cpp:1524-1562).
CapIsOverDecision ==
  Frozen =>
    \A i \in 1..(Len(path) - 1) :
      LET k == Offset + Origin(i, inserted)
      IN CapOf(i) >= CapHeadroom + Larger(Decided[k].cap, Decided[k + 1].cap)

\* Nowhere on a piece, nor beside it within the lateral slack, is the cap
\* below the floor the solve is pressed above: the two never squeeze the
\* trajectory from both sides (poly_traj_optimizer.cpp:128-143).
CorridorOpen ==
  Frozen =>
    \A i \in 1..(Len(path) - 1) :
      \A x \in Between(path[i].x, path[i + 1].x), y \in Strip :
        FloorAt(x, y) <= CapOf(i)

\* A cap lifted above its band lets nothing be seen: no zone in reach has a
\* straight line to any height of its moat under the cap, anywhere along the
\* piece (poly_traj_optimizer.cpp:217-231, path_manager.cpp:2076-2096).
LiftsAreHidden ==
  stage = "freeze" =>
    \A i \in DOMAIN caps :
      caps[i] # BandCap(i) =>
        \A zn \in Range(scene.zones) :
          \A x \in Between(path[i].x, path[i + 1].x) :
            \A z \in (zn.z - zn.rise)..caps[i] :
              ~(InMoat(zn, x, z) /\ LineOfSight(zn, x, z))

\* The committed profile costs no more than any other that keeps its floors,
\* anchors and climb window, and the seed is left alone only when there is
\* none (poly_traj_optimizer.cpp:1398-1470).
Extended(front, i) ==
  UNION {{[zs |-> Append(f.zs, z), cost |-> StepCost(f, z) + SiteCost(i, z)] :
          z \in {z \in Allowed(i) : f \in Reached({f}, i, z)}} : f \in front}

EveryProfile ==
  LET front[i \in 1..Len(path)] ==
        IF i = 1 THEN {Anchor} ELSE Extended(front[i - 1], i)
  IN front[Len(path)]

CommitIsCheapest ==
  [][CommitProfile /\ scene.h4 /\ Len(path) >= 3 /\ (LeadIn => Len(path) >= 4)
     => /\ (commit' = {}) = (EveryProfile = {})
        /\ \A f \in commit', g \in EveryProfile : f.cost <= g.cost]_vars
=============================================================================
