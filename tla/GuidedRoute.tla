--------------------------- MODULE GuidedRoute ---------------------------
(***************************************************************************)
(* The front half of one plan (PathManager::planGlobalTraj, planFrontEnd,  *)
(* optimizeStage, solveSlice): a mission becomes a searched route, the     *)
(* route's height profile is filtered and cut into pieces, and each piece  *)
(* boundary keeps the height the front end committed to, which is what the *)
(* optimizer's altitude cap is measured from.                              *)
(*                                                                         *)
(* The routes are those the front end can return (module FrontEnd): clear  *)
(* of the terrain between their vertices, the ends as commanded.  Piece    *)
(* boundaries sit on even columns, so that a piece has an inside.  A plan  *)
(* may be followed by one that inherits a slice of its committed route, as *)
(* the chain planner's segments do.  Corner fillets (off by default), the  *)
(* parameters pushed into the searcher and the drawing are left out.       *)
(*                                                                         *)
(* X_mutant is a plausible wrong X, used to show that the checks can fail. *)
(***************************************************************************)
EXTENDS RiskHorizon, SequencesExt

CONSTANTS
  Scenes,        \* the missions and worlds planned for
  Clearance,     \* manager/obstacle_clearance, above OptClearance
  MinGoalAgl,    \* manager/min_goal_agl
  CapHeadroom,   \* optimization/alt_cap_headroom
  FloorHeadroom, \* optimization/alt_floor_headroom
  GroundHeight,  \* manager/ground_height; NegInf when there is no plane
  StallFloor,    \* the platform's slowest speed, in columns per second
  XyMargin,      \* the box's margin round the mission points
  ZBelow, ZAbove,   \* and its margins below and above them
  MidLevels      \* the heights a searched route may take between its ends

Point == [x : Int, z : Int]
Zone == [x : Int, z : Int, reach : Nat \ {0}, rise : Nat \ {0}]

\* Where terrain masks a zone its vertical ratio is at most two, so that the
\* clear ceiling lies under the moat: 0.35 as shipped, and the one test that
\* takes 3 turns the mask off (chain_experiment_test.cpp:325-334).  NegInf is
\* below everything, and no end sits inside the ground plane
\* (optimizer_params.yaml:507-509), a lifted goal neither.
IsScene(s) ==
  /\ s.dem \in BOOLEAN
  /\ s.elev \in [0..Far -> Int] /\ s.side \in [0..Far -> Int]
  /\ s.zones \in Seq(Zone)
  /\ \A zn \in Range(s.zones) :
       /\ RiskMasked /\ s.dem => zn.rise <= 2 * zn.reach
       /\ NegInf < zn.z - zn.rise
  /\ \A x \in 0..Far : \A h \in {s.elev[x], s.side[x]} : h # Water => NegInf < h
  /\ s.start \in Point /\ s.goals \in Seq(Point) /\ s.speeds \subseteq Int
  /\ s.start.z >= GroundHeight
  /\ IF s.dem
     THEN \A x \in 0..Far :
            s.elev[x] # Water => s.elev[x] + MinGoalAgl >= GroundHeight
     ELSE \A i \in DOMAIN s.goals : s.goals[i].z >= GroundHeight

ASSUME ScenesAssumption == \A s \in Scenes : IsScene(s)
ASSUME LevelsAssumption ==
  MidLevels \cup {Clearance, MinGoalAgl, GroundHeight, StallFloor} \subseteq Int
\* The searcher refuses what is below the plane (dyn_a_star.cpp:382), and the
\* cushion over it, half the floor's headroom, is within the cap's.
ASSUME HeadroomAssumption ==
  /\ {CapHeadroom, FloorHeadroom} \subseteq Nat
  /\ FloorHeadroom \div 2 <= CapHeadroom
  /\ \A z \in MidLevels \cup {MinGoalAgl} : z >= GroundHeight

VARIABLES
  stage,      \* what the plan does next
  job,        \* [from, wps, junction, kind]: the request, absolute heights
  box,        \* map bounds [lo, hi, zlo, zhi] and the zones they take in
  sdf_built,  \* a terrain-wide grid exists and is kept
  leg,        \* legs searched
  fe,         \* [route, raw, raw_z, clean, cap, top]: front-end products
  pass,       \* the searcher's pass of its last search
  last,       \* last_clean_path_ and last_cap_ref_
  head,       \* the start velocity, level, in columns per second
  band        \* [lo, hi, suppress]: setAltitudeBand, setSuppressCrossing...

guideVars == <<scene, stage, job, box, sdf_built, leg, fe, pass, last, head,
               band>>

NoProducts == [route |-> <<>>, raw |-> <<>>, raw_z |-> <<>>,
               clean |-> <<>>, cap |-> <<>>, top |-> NegInf]

Heights(path) == {path[i].z : i \in DOMAIN path}
Even(x) == x % 2 = 0
Between(a, b) == Smaller(a, b)..Larger(a, b)

\* The height of the chord from a to b at column x.
ChordAt(a, b, x) ==
  IF a.x = b.x THEN Larger(a.z, b.z)
  ELSE a.z + ((b.z - a.z) * Abs(x - a.x)) \div Abs(b.x - a.x)

-----------------------------------------------------------------------------
\* planGlobalTraj: the request.

\* A waypoint's z is height above terrain; a junction goal's is absolute, as
\* Override's is.
Lifted(g) ==
  IF scene.dem
  THEN [g EXCEPT !.z = Ground(g.x) + Larger(g.z, MinGoalAgl)]
  ELSE g

NoWaypoints ==
  /\ stage = "asked"
  /\ scene.goals = <<>>
  /\ stage' = "failed"
  /\ UNCHANGED <<scene, job, box, sdf_built, leg, fe, pass, last, head, band>>

\* Map bounds: the mission points with their margin, then every zone whose
\* moat touches them, and the zones those reach, until no zone is added.
GrowBy(b, points, margin) ==
  [b EXCEPT !.lo = Min({b.lo} \cup {p.x - margin : p \in points}),
            !.hi = Max({b.hi} \cup {p.x + margin : p \in points}),
            !.zlo = Min({b.zlo} \cup {p.z - ZBelow : p \in points})]

TouchesBox(zn, b) == zn.x + zn.reach + 1 >= b.lo /\ zn.x - zn.reach - 1 <= b.hi

WithZones(b) ==
  LET grown[n \in Nat] ==
        IF n = 0 THEN b
        ELSE LET c == grown[n - 1]
                 touched == {i \in DOMAIN scene.zones \ c.zones :
                               TouchesBox(scene.zones[i], c)}
                 i == Min(touched)
                 zn == scene.zones[i]
             IN IF touched = {} THEN c
                ELSE [c EXCEPT !.lo = Smaller(c.lo, zn.x - zn.reach - 1),
                               !.hi = Larger(c.hi, zn.x + zn.reach + 1),
                               !.zones = @ \cup {i}]
  IN grown[Len(scene.zones)]

\* The berth round the zones that matter, then the terrain under the legs and
\* a margin to either side of them.
MapBounds(pts) ==
  LET b0 == [lo |-> pts[1].x, hi |-> pts[1].x, zlo |-> pts[1].z,
             zhi |-> pts[1].z, zones |-> {}]
      b1 == WithZones(GrowBy(b0, Range(pts), XyMargin))
      reach == {scene.zones[i].reach : i \in b1.zones}
      margin == Max({XyMargin} \cup {r + 1 : r \in reach})
      cols == {x + d : x \in UNION {Between(pts[i].x, pts[i + 1].x) :
                                     i \in 1..(Len(pts) - 1)},
                       d \in {-margin, 0, margin}}
      under == {Elevation(x, 0) : x \in {c \in cols : Land(c, 0)}}
  IN [GrowBy(b1, Range(pts), margin) EXCEPT
        !.zhi = Max({0, @} \cup under) + ZAbove]

\* The lifts, the bounds and, unless a terrain-wide grid is kept, the grid.
Accept ==
  /\ stage = "asked"
  /\ scene.goals # <<>>
  /\ LET wps == [i \in DOMAIN scene.goals |-> Lifted(scene.goals[i])]
     IN /\ job' = [from |-> scene.start, wps |-> wps, junction |-> FALSE,
                   kind |-> "mission"]
        /\ box' = MapBounds(<<scene.start>> \o wps)
  /\ sdf_built' = (sdf_built \/ scene.dem)
  /\ leg' = 0
  /\ fe' = [NoProducts EXCEPT !.route = <<scene.start>>]
  /\ stage' = "search"
  /\ UNCHANGED <<scene, pass, last, head, band>>

GridRefused ==
  /\ stage = "asked"
  /\ scene.goals # <<>>
  /\ ~sdf_built
  /\ stage' = "failed"
  /\ UNCHANGED <<scene, job, box, sdf_built, leg, fe, pass, last, head, band>>

-----------------------------------------------------------------------------
\* planFrontEnd: one search per leg; a leg of no length adds no vertex.  What
\* the searcher may return:

ColumnsInside(a, b) == {x \in Between(a.x, b.x) : x # a.x /\ x # b.x}

SdfDistance(x, z) ==
  Min({PosInf} \cup {Larger(o.lo - z, z - o.hi) :
                     o \in {o \in scene.boxes : o.x = x}})

SegmentClear(a, b) ==
  \A x \in ColumnsInside(a, b) :
    /\ Land(x, 0) => ChordAt(a, b, x) >= Elevation(x, 0) + Clearance
    /\ SdfDistance(x, ChordAt(a, b, x)) >= Clearance

VertexClear(p) ==
  /\ Land(p.x, 0) => p.z >= Elevation(p.x, 0) + Clearance
  /\ SdfDistance(p.x, p.z) >= Clearance

Mids(a, b) ==
  {p \in [x : {x \in ColumnsInside(a, b) : Even(x)}, z : MidLevels] :
     VertexClear(p)}

ClearRoutes(a, b) ==
  LET mids == {<<>>} \cup {<<m>> : m \in Mids(a, b)}
                \cup {mn \in Mids(a, b) \X Mids(a, b) : mn[1].x < mn[2].x}
  IN {r \in {<<a>> \o m \o <<b>> : m \in mids} :
        \A i \in 1..(Len(r) - 1) : SegmentClear(r[i], r[i + 1])}

\* Pass 1 is a route through no zone that sees it, the ends' own excepted.
ZoneFree(r) ==
  \A i \in 1..(Len(r) - 1), zn \in Range(scene.zones) :
    \/ InSight(zn, r[1].x, r[1].z)
    \/ InSight(zn, Last(r).x, Last(r).z)
    \/ \A x \in Between(r[i].x, r[i + 1].x) :
         ~InSight(zn, x, ChordAt(r[i], r[i + 1], x))

LegStart == IF leg = 0 THEN job.from ELSE job.wps[leg]

SearchLeg ==
  /\ stage = "search"
  /\ leg < Len(job.wps)
  /\ \E r \in ClearRoutes(LegStart, job.wps[leg + 1]) :
       /\ fe' = [fe EXCEPT !.route = IF r[2] = Last(@) THEN @
                                    ELSE @ \o Tail(r)]
       /\ pass' = IF ZoneFree(r) THEN 1 ELSE 2
  /\ leg' = leg + 1
  /\ UNCHANGED <<scene, stage, job, box, sdf_built, last, head, band>>

\* A leg without a path ends the plan: nothing is retained or published.
SearchFails ==
  /\ stage = "search"
  /\ leg < Len(job.wps)
  /\ leg' = leg + 1
  /\ stage' = "failed"
  /\ UNCHANGED <<scene, job, box, sdf_built, fe, pass, last, head, band>>

-----------------------------------------------------------------------------
\* Z-DENOISE: a five-vertex moving average of z, held above the terrain by
\* the full clearance, or over water above the mission's lowest height; a
\* vertex that would lose its clearance to an obstacle keeps its own z.
MissionMin == Min({job.from.z} \cup Heights(job.wps))

Average(zs, i) ==
  LET near == ((i - 2)..(i + 2)) \cap DOMAIN zs
      At(j) == IF j \in near THEN zs[j] ELSE 0
  IN (At(i - 2) + At(i - 1) + At(i) + At(i + 1) + At(i + 2))
       \div Cardinality(near)

Filtered(route, i) ==
  LET p == route[i]
      zs == [j \in DOMAIN route |-> route[j].z]
      held == IF ~scene.dem THEN Average(zs, i)
              ELSE IF Land(p.x, 0)
              THEN Larger(Average(zs, i), Elevation(p.x, 0) + Clearance)
              ELSE Larger(Average(zs, i), Larger(0, MissionMin))
  IN IF i \in {1, Len(route)} \/ SdfDistance(p.x, held) < Clearance
     THEN p ELSE [p EXCEPT !.z = held]

\* The committed profile: neither the filter's planing of crests nor its
\* lifts may lower what the front end decided.
Committed_mutant(raw, filtered) == filtered.z
Committed(raw, filtered) == Larger(raw.z, filtered.z)

Denoise ==
  /\ stage = "search"
  /\ leg = Len(job.wps)
  /\ LET r == fe.route
         smooth == IF Len(r) < 3 THEN r
                   ELSE [i \in DOMAIN r |-> Filtered(r, i)]
     IN fe' = [fe EXCEPT !.route = smooth,
                         !.raw = r,
                         !.raw_z = [i \in DOMAIN r |->
                                      Committed(r[i], smooth[i])],
                         !.top = Max(Heights(r))]
  /\ stage' = "cut"
  /\ UNCHANGED <<scene, job, box, sdf_built, leg, pass, last, head, band>>

\* STEP 3: long segments are subdivided; the cap reference mirrors them.
CutPoints(a, b, za, zb) ==
  LET n == Larger(1, Abs(b.x - a.x) \div 2)
  IN [k \in 1..n |->
        [x |-> a.x + ((b.x - a.x) * k) \div n,
         z |-> a.z + ((b.z - a.z) * k) \div n,
         cap |-> za + ((zb - za) * k) \div n]]

Pieces(route, raw_z) ==
  <<[x |-> route[1].x, z |-> route[1].z, cap |-> raw_z[1]]>>
    \o FlattenSeq([i \in 1..(Len(route) - 1) |->
         CutPoints(route[i], route[i + 1], raw_z[i], raw_z[i + 1])])

\* The committed products are retained; a front-end-only plan ends here.
Cut ==
  /\ stage = "cut"
  /\ LET ps == Pieces(fe.route, fe.raw_z)
         clean == [i \in DOMAIN ps |-> [x |-> ps[i].x, z |-> ps[i].z]]
         cap == [i \in DOMAIN ps |-> ps[i].cap]
     IN /\ Len(clean) >= 2
        /\ fe' = [fe EXCEPT !.clean = clean, !.cap = cap]
        /\ last' = [clean |-> clean, cap |-> cap]
  /\ stage' \in {"head", "done"}
  /\ UNCHANGED <<scene, job, box, sdf_built, leg, pass, head, band>>

-----------------------------------------------------------------------------
\* The start velocity.  A synthesized one is turned onto the route; one below
\* the stall floor is raised to it, unless it is a junction's, which another
\* segment's tail already pins and which is never synthesized.
Sign(n) == IF n < 0 THEN -1 ELSE IF n > 0 THEN 1 ELSE 0
RouteSign == Sign(fe.clean[2].x - fe.clean[1].x)

Aimed(v, synthesized) ==
  IF synthesized /\ RouteSign # 0 THEN RouteSign * Abs(v) ELSE v

Floored(v) ==
  IF job.junction \/ Abs(v) >= StallFloor THEN v
  ELSE StallFloor * (IF v # 0 THEN Sign(v)
                     ELSE IF RouteSign # 0 THEN RouteSign ELSE 1)

AimHead ==
  /\ stage = "head"
  /\ \E v \in scene.speeds, synthesized \in IF job.junction THEN {FALSE}
                                              ELSE BOOLEAN :
       head' = Floored(Aimed(v, synthesized))
  /\ stage' = "band"
  /\ UNCHANGED <<scene, job, box, sdf_built, leg, fe, pass, last, band>>

\* optimizeStage and solveSlice: the optimizer's altitude band.  The slice's
\* cap reference stands in for the route's unfiltered maximum.
FloorOf(lowest) ==
  LET lo == lowest - FloorHeadroom
  IN IF GroundHeight = NegInf THEN lo
     ELSE Larger(lo, GroundHeight + FloorHeadroom \div 2)

SetBand ==
  /\ stage = "band"
  /\ LET ends == {job.from.z, Last(job.wps).z} \cup Heights(fe.clean)
         committed == IF job.kind = "slice" THEN Range(fe.cap) ELSE {fe.top}
     IN band' = [lo |-> FloorOf(Min(ends)),
                 hi |-> Max(ends \cup committed) + CapHeadroom,
                 suppress |-> pass = 1]
  /\ stage' = "seed"
  /\ UNCHANGED <<scene, job, box, sdf_built, leg, fe, pass, last, head>>

\* The chain planner hands a slice of the committed route and of its cap
\* reference to planGlobalTraj (route_override), which bounds the world again,
\* or to solveSlice, which leaves everything shared alone.
Slice(cut, front) ==
  IF front THEN <<SubSeq(last.clean, 1, cut), SubSeq(last.cap, 1, cut)>>
  ELSE <<SubSeq(last.clean, cut, Len(last.clean)),
         SubSeq(last.cap, cut, Len(last.clean))>>

Override ==
  /\ stage = "done"
  /\ job.kind = "mission"
  /\ \E cut \in 2..(Len(last.clean) - 1), front \in BOOLEAN :
       LET path == Slice(cut, front)[1]
           cap == Slice(cut, front)[2]
       IN /\ job' = [from |-> path[1], wps |-> <<Last(path)>>,
                     junction |-> ~front, kind |-> "override"]
          /\ box' = MapBounds(<<path[1], Last(path)>>)
          /\ fe' = [fe EXCEPT !.clean = path, !.cap = cap,
                              !.top = Max(Heights(path))]
          /\ last' = [clean |-> path, cap |-> cap]
  /\ sdf_built' = (sdf_built \/ scene.dem)
  /\ stage' = "head"
  /\ UNCHANGED <<scene, leg, pass, head, band>>

SolveSlice ==
  /\ stage = "done"
  /\ job.kind = "mission"
  /\ \E cut \in 2..(Len(last.clean) - 1), front \in BOOLEAN,
        v \in scene.speeds :
       LET path == Slice(cut, front)[1]
       IN /\ job' = [from |-> path[1], wps |-> <<Last(path)>>,
                     junction |-> ~front, kind |-> "slice"]
          /\ fe' = [fe EXCEPT !.clean = path, !.cap = Slice(cut, front)[2]]
          /\ head' = v
  /\ stage' = "band"
  /\ UNCHANGED <<scene, box, sdf_built, leg, pass, last, band>>

GuideInit ==
  /\ scene \in Scenes
  /\ stage = "asked"
  /\ job = [from |-> scene.start, wps |-> <<>>, junction |-> FALSE,
            kind |-> "mission"]
  /\ box = [lo |-> 0, hi |-> 0, zlo |-> 0, zhi |-> 0, zones |-> {}]
  /\ sdf_built = FALSE
  /\ leg = 0
  /\ fe = NoProducts
  /\ pass = 0
  /\ last = [clean |-> <<>>, cap |-> <<>>]
  /\ head = 0
  /\ band = [lo |-> 0, hi |-> 0, suppress |-> FALSE]

GuideNext ==
  \/ NoWaypoints \/ Accept \/ GridRefused
  \/ SearchLeg \/ SearchFails \/ Denoise \/ Cut
  \/ AimHead \/ SetBand \/ Override \/ SolveSlice
=============================================================================
