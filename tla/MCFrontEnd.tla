---------------------------- MODULE MCFrontEnd ----------------------------
(***************************************************************************)
(* Queries for FrontEnd on small maps: every skyline of two heights under  *)
(* a corridor, with and without a box spawned at run time and risk zones.  *)
(* The search meets goals near, far, level, raised and at the start; the   *)
(* march meets endpoints low and high, no zone, one zone and two that      *)
(* overlap, and descents with and without the slope cap.                   *)
(***************************************************************************)
EXTENDS FrontEnd

SmallPool == <<7, 3, 7>>
Heights == {0, 6}
Skyline(sky, n) == [x \in 0..(2 * n) |-> sky[IF x = 2 * n THEN n - 1
                                                          ELSE x \div 2]]

Zone(x, z) ==
  [nominal |-> Box(<<x, -2, z>>, <<x + 2, 2, z + 3>>),
   hard |-> Box(<<x - 1, -2, z - 1>>, <<x + 3, 2, z + 4>>)]

Spawned(x, z) ==
  [low |-> <<x, -2, z>>, high |-> <<x + 1, 2, z + 3>>, dynamic |-> TRUE]

Site(s, g, n, sky, boxes, zones) ==
  [start |-> s, goal |-> g, size |-> <<n, 1, 5>>,
   terrain |-> Skyline(sky, n), margin |-> 1, berth |-> 2, sdf |-> TRUE,
   boxes |-> boxes, ground |-> 1, ceiling |-> 9, zones |-> zones,
   moat |-> 2, barrier |-> 20, taper |-> 2, rough |-> 1, slope0 |-> 2,
   roughBelow |-> 3, slopeCap |-> FALSE]

SearchScenes ==
  {Site(<<2, 0, 4>>, g, 5, sky, b, z) :
     g \in {<<8, 0, 4>>, <<10, 0, 4>>, <<6, 0, 8>>, <<2, 0, 4>>},
     sky \in [0..4 -> Heights], b \in {{}, {Spawned(5, 5)}},
     z \in {<<>>, <<Zone(4, 2)>>}}

\* The last threat is a wall of two zones with a spawned box as its weak spot;
\* a box alone leaves the blended field with hollows of its own.
Threats ==
  {<<{}, <<>>>>, <<{Spawned(7, 5)}, <<>>>>, <<{}, <<Zone(4, 4)>>>>,
   <<{}, <<Zone(4, 1), Zone(5, 6)>>>>, <<{}, <<Zone(4, 4), Zone(5, 3)>>>>,
   <<{Spawned(5, 4)}, <<Zone(4, 1), Zone(4, 6)>>>>}

\* The march starts where a vehicle is, in the air.
MarchScenes ==
  {[Site(<<1, 0, 5>>, <<11, 0, gz>>, 6, sky, t[1], t[2])
      EXCEPT !.slopeCap = cap] :
     gz \in {3, 9}, cap \in BOOLEAN,
     sky \in {k \in [0..5 -> Heights] : k[0] = 0}, t \in Threats}

\* Broken ground between two zones, where the descent goes round in a circle:
\* rescued to a cell reached earlier, it lands where the blend is higher.
BrokenGround == <<8, 3, 6, 0, 6, 6, 8, 0, 6, 0, 8, 0, 3>>
Circling ==
  {[Site(<<1, 0, 7>>, <<11, 0, 5>>, 6, [x \in 0..5 |-> 0], {Spawned(8, 4)},
         <<Zone(6, 3), Zone(6, 8)>>)
      EXCEPT !.size = <<6, 1, 6>>, !.ceiling = -1,
             !.terrain = [x \in 0..12 |-> BrokenGround[x + 1]]]}

\* A goal is a height above the ground (planGlobalTraj), above it by less than
\* the clearance too.
AboveGround(s) == s.goal[3] > s.terrain[s.goal[1]]

MCScenes ==
  [f \in {"ASTAR", "FM2"} |->
     {s \in IF f = "FM2" THEN MarchScenes \cup Circling ELSE SearchScenes :
        AboveGround(s)}]

\* A descent to a goal well inside the clearance, as the shipped parameters
\* have it: 0.15 above the ground, 0.6 of clearance.
LowGoals ==
  {[Site(<<1, 0, 9>>, <<11, 0, sky[5] + 1>>, 6, sky, {}, <<>>)
      EXCEPT !.margin = 4] : sky \in [0..5 -> {0, 2}]}
LowGoalScenes == [f \in {"ASTAR", "FM2"} |-> IF f = "FM2" THEN LowGoals ELSE {}]
MCWeights == {1, 2}

\* Searches only, of the shipped weight, for a goal under a zone.
PeakPool == <<7, 3, 5>>
PeakScenes ==
  [f \in {"ASTAR", "FM2"} |->
     IF f = "FM2" THEN {}
     ELSE {Site(<<5, 0, 6>>, <<0, 0, 9>>, 5, sky, {}, <<Zone(6, 9)>>) :
              sky \in [0..4 -> Heights]}]
ShippedWeight == {2}
=============================================================================
