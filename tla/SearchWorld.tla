--------------------------- MODULE SearchWorld ---------------------------
(***************************************************************************)
(* What a front-end query sees of the world (dyn_a_star.h): the terrain    *)
(* skyline, the boxes of the distance field, the two planes, and the risk  *)
(* zones with their cost.  Both front ends and the route simplifier ask    *)
(* nothing else about a point.                                             *)
(*                                                                         *)
(* Points are <<x, y, z>> in half cells, so cell centres and middles stay  *)
(* whole.  A zone is two boxes: the nominal volume, and the larger hard    *)
(* volume the route must keep out of; terrain shadow is what the boxes     *)
(* leave out.  Costs are whole numbers of the same order as in the code.   *)
(***************************************************************************)
EXTENDS Integers, Sequences, SequencesExt, FiniteSetsExt

VARIABLE scene   \* the query's world, zones and endpoints; it never changes

Axes3 == 1..3
Abs(n) == IF n < 0 THEN -n ELSE n
Sign(n) == CASE n > 0 -> 1 [] n < 0 -> -1 [] OTHER -> 0
Plus(a, b) == <<a[1] + b[1], a[2] + b[2], a[3] + b[3]>>
Minus(a, b) == <<a[1] - b[1], a[2] - b[2], a[3] - b[3]>>
Times(n, a) == <<n * a[1], n * a[2], n * a[3]>>
Half(a) == <<a[1] \div 2, a[2] \div 2, a[3] \div 2>>
Signs(a) == <<Sign(a[1]), Sign(a[2]), Sign(a[3])>>

\* How far a point is outside a box, along the worst axis.
Gap(box, p) ==
  Max({0} \cup {box.low[i] - p[i] : i \in Axes3}
          \cup {p[i] - box.high[i] : i \in Axes3})

Box(low, high) == [low |-> low, high |-> high]

\* The points probed along a segment, both ends with it.
Between(a, b) ==
  LET d == Minus(b, a)
      n == Max({1, Abs(d[1]), Abs(d[3])})
  IN {<<a[1] + (t * d[1]) \div n, 0, a[3] + (t * d[3]) \div n>> : t \in 0..n}

Body(path) ==
  UNION {Between(path[n], path[n + 1]) : n \in 1..(Len(path) - 1)}

-----------------------------------------------------------------------------
(* Occupancy.                                                              *)

InMap(p) == p[1] \in DOMAIN scene.terrain /\ p[3] \in 0..(2 * scene.size[3])

\* terrain_height_; nowhere over water or outside the map.
TerrainKnown(p) == p[1] \in DOMAIN scene.terrain
TerrainHeight(p) == scene.terrain[p[1]]

\* checkOccupancy_esdf: the skyline first, exactly; then the distance field,
\* which takes everything outside the map for blocked, and gives a box that
\* was spawned at run time a berth of its own.
Occupied(p) ==
  \/ TerrainKnown(p) /\ p[3] - TerrainHeight(p) < scene.margin
  \/ /\ scene.sdf
     /\ \/ ~InMap(p)
        \/ \E b \in scene.boxes :
             Gap(b, p) < IF b.dynamic /\ scene.berth > scene.margin
                           THEN scene.berth ELSE scene.margin

\* The planes are off at a height of -1 (any sentinel below -0.5).
OutsidePlanes(p) ==
  \/ scene.ground >= 0 /\ p[3] < scene.ground
  \/ scene.ceiling >= 0 /\ p[3] > scene.ceiling

Gated(p) == OutsidePlanes(p) \/ Occupied(p)

-----------------------------------------------------------------------------
(* Risk zones.                                                             *)

Zones == DOMAIN scene.zones
InNominal(i, p) == Gap(scene.zones[i].nominal, p) = 0
InHard(i, p) == Gap(scene.zones[i].hard, p) = 0

\* prepareBarrier: a zone around an endpoint has to be entered, so it has no
\* wall and its moat fades towards the endpoint inside it.
NoBarrier == {i \in Zones : \E p \in {scene.start, scene.goal} : InNominal(i, p)}

Near(p, q) ==
  \A i \in Axes3 : Abs(p[i] - q[i]) < scene.taper
Tapered(i, p) ==
  \E q \in {scene.start, scene.goal} : InNominal(i, q) /\ Near(p, q)

\* getRiskNorm: overlapping moats compose to no more than one.
Moat(p) ==
  IF \E i \in Zones : InNominal(i, p) /\ ~Tapered(i, p)
    THEN scene.moat ELSE 0

\* getRoughCost: steep ground under a low point, up to a cap.
RoughCost(p) ==
  LET slope == IF {p[1], p[1] + 2} \subseteq DOMAIN scene.terrain
                 THEN Abs(scene.terrain[p[1] + 2] - scene.terrain[p[1]])
                 ELSE 0
      low == TerrainKnown(p) /\ p[3] - TerrainHeight(p) < scene.roughBelow
  IN IF low /\ slope > scene.slope0
       THEN Min({scene.rough * (slope - scene.slope0), 10}) ELSE 0

\* getRiskCost: moat and roughness, and a finite wall around every zone the
\* query need not enter.
RiskCost(p) ==
  Moat(p) + RoughCost(p)
    + IF \E i \in Zones \ NoBarrier : InNominal(i, p) THEN scene.barrier ELSE 0

\* altBandCost: leaving the band between the endpoints' heights upwards is
\* cheap, downwards it is not.
AltBandCost(z) ==
  LET ends == {scene.start[3], scene.goal[3]}
  IN IF z > Max(ends) THEN (z - Max(ends)) \div 4
     ELSE IF z < Min(ends) THEN Min(ends) - z ELSE 0

-----------------------------------------------------------------------------
\* What a query takes for granted: the map has a size and the endpoints have
\* coordinates, heights are known numbers where the terrain is, and no cost of
\* the risk model is a reward (the weights are parameters of the planner, none
\* of which is negative).
IsScene(s) ==
  /\ s.size[1] \in Nat /\ s.size[3] \in Nat
  /\ \A i \in Axes3 : s.start[i] \in Int /\ s.goal[i] \in Int
  /\ DOMAIN s.terrain \subseteq Int
  /\ s.terrain \in [DOMAIN s.terrain -> Int]
  /\ s.moat \in Nat /\ s.barrier \in Nat /\ s.rough \in Nat
  /\ s.slope0 \in Int

=============================================================================
