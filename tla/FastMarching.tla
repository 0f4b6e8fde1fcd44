--------------------------- MODULE FastMarching ---------------------------
(***************************************************************************)
(* The fast-marching front end of one query and its zone passes            *)
(* (dyn_a_star.cpp, eikonal_godunov.h).  A pass rasterises the world into  *)
(* a speed map, marches an arrival time from the goal, and descends that   *)
(* field from the start.  Pass 1 disconnects every zone the query need not *)
(* enter; when its probe is no route, pass 2 finds with soft zones which   *)
(* ones a route needs, and pass 3 hardens the others again.                *)
(*                                                                         *)
(* The grid is the plane of the map, one row deep, cells <<i, k>>; the     *)
(* endpoints are cell centres.  Instead of the speed F the map holds the   *)
(* slowness 1/F, 0 standing for F = 0.  Arrival times are in hundredths of *)
(* a cell, with the square root of the update cut to an integer.  The      *)
(* descent moves over the lattice of half cells by a field blended between *)
(* the centres, which may disagree with the cells' own times.              *)
(*                                                                         *)
(* Every X_mutant is a plausible wrong X, used to show that the checks can *)
(* fail; the specification uses X.                                         *)
(***************************************************************************)
EXTENDS SearchWorld

CONSTANTS
  Lexicographic,  \* manager/zone_avoid_lexicographic
  Star,           \* fm2_star_: head for the start and stop there
  BlockedSlow,    \* slowness of a blocked cell (1/kFMin = 1000 in the code)
  StallGap,       \* how far short of the goal a probe may stall, half cells
  SurfaceSlack,   \* how far below the surface it may dip (0.15 in the code)
  MaxCells        \* fm2_max_cells_

ASSUME FlagAssumption == Lexicographic \in BOOLEAN /\ Star \in BOOLEAN
ASSUME SizeAssumption == {BlockedSlow, StallGap, SurfaceSlack, MaxCells} \subseteq Nat

VARIABLES
  fm_stage,            \* begin, build, solve, judge, extract, finished
  todo,                \* the pass being run: 1, 2, 3, 4 (soft again), 0 (off)
  zone_hard_mode, zone_soft_override, zone_lexico_hard, zone_avoid_pass,
  fm2_F,               \* the slowness of every cell
  fm2_T,               \* the arrival time of every cell that was reached
  fm2_valid,
  fm2_path

fmVars == <<fm_stage, todo, zone_hard_mode, zone_soft_override,
            zone_lexico_hard, zone_avoid_pass, fm2_F, fm2_T, fm2_valid,
            fm2_path>>

-----------------------------------------------------------------------------
(* The speed map.                                                          *)

Grid == (0..(scene.size[1] - 1)) \X (0..(scene.size[3] - 1))
Centre(c) == <<2 * c[1] + 1, 0, 2 * c[2] + 1>>
CellOf(p) == <<p[1] \div 2, p[3] \div 2>>

\* insideHardZoneVol: the zones this pass must stay out of.
HardZones == Zones \ (NoBarrier \cup zone_soft_override)
InHardZone(p) == \E i \in HardZones : scene.barrier > 0 /\ InHard(i, p)

\* insideHardZoneCell asks for the whole cell, not for its centre.
CellInHardZone(c) ==
  \E i \in HardZones : /\ scene.barrier > 0
                       /\ Gap(scene.zones[i].hard, Centre(c)) <= 1

\* fm2BuildSpeedMap: blocked cells stay porous in every mode.
Slowness(c) ==
  LET p == Centre(c)
  IN IF Gated(p) THEN BlockedSlow
     ELSE IF zone_hard_mode /\ CellInHardZone(c) THEN 0
     ELSE 1 + RiskCost(p) + AltBandCost(p[3])

-----------------------------------------------------------------------------
(* The march.                                                              *)

Root(n) ==
  LET newton[r \in 1..n] == LET s == (r + n \div r) \div 2
                            IN IF s >= r THEN r ELSE newton[s]
  IN IF n = 0 THEN 0 ELSE newton[n]

\* eikSolve on the two axes of the plane: the earlier neighbour alone, unless
\* the other one has been passed by then.
EikSolve(m, slow) ==
  LET m0 == Min(m)
      m1 == Max(m)
      u == 100 * slow
      d == m1 - m0
  IN IF Cardinality(m) = 1 \/ d >= u THEN m0 + u
     ELSE m0 + (d + Root(2 * u * u - d * d)) \div 2

Steps4 == {<<1, 0>>, <<-1, 0>>, <<0, 1>>, <<0, -1>>}
Move(c, o) == <<c[1] + o[1], c[2] + o[2]>>
Around(c) == {Move(c, o) : o \in Steps4} \cap Grid

\* The earliest frozen neighbour along one axis; both axes may agree.
AxisTimes(c, T, frozen) ==
  LET Axis(o, p) == {T[n] : n \in {Move(c, o), Move(c, p)} \cap frozen}
      x == Axis(<<1, 0>>, <<-1, 0>>)
      z == Axis(<<0, 1>>, <<0, -1>>)
  IN <<IF x = {} THEN Min(z) ELSE Min(x), IF z = {} THEN Min(x) ELSE Min(z),
       x # {} /\ z # {}>>

SolveQuad(c, T, frozen, slow) ==
  LET m == AxisTimes(c, T, frozen)
  IN IF m[3] /\ m[1] = m[2] THEN m[1] + Root(20000 * slow * slow) \div 2
     ELSE EikSolve(IF m[3] THEN {m[1], m[2]} ELSE {m[1]}, slow)

Distance(c, d) ==
  Root(10000 * ((c[1] - d[1]) * (c[1] - d[1]) + (c[2] - d[2]) * (c[2] - d[2])))

\* fm2SolveEikonal: freeze the cell of least time (for FM2*, of least time
\* plus distance to the start), update its neighbours from frozen cells only.
\* F = 0 is never entered; the goal's own cell is forced open for the solve.
March(star) ==
  LET goal == CellOf(scene.goal)
      start == CellOf(scene.start)
      Slow(c) == IF c = goal /\ fm2_F[c] \in {0, BlockedSlow} THEN 2 ELSE fm2_F[c]
      Key(T, c) == T[c] + IF star THEN Distance(c, start) ELSE 0
      Next(w) == CHOOSE x \in w.open : \A y \in w.open : Key(w.T, x) <= Key(w.T, y)
      Freeze(w, c) ==
        LET now == w.frozen \cup {c}
            Time(n) == SolveQuad(n, w.T, now, Slow(n))
            better == {n \in Around(c) \ now :
                         /\ Slow(n) > 0
                         /\ n \in DOMAIN w.T => Time(n) < w.T[n]}
        IN [T |-> [n \in DOMAIN w.T \cup better |->
                     IF n \in better THEN Time(n) ELSE w.T[n]],
            frozen |-> now, open |-> (w.open \ {c}) \cup better]
      cells == Cardinality(Grid)
      wave[n \in 0..cells] ==
        IF n = 0 THEN [T |-> [x \in {goal} |-> 0], frozen |-> {}, open |-> {goal}]
        ELSE LET w == wave[n - 1]
             IN IF w.open = {} \/ (star /\ Next(w) = start) THEN w
                ELSE Freeze(w, Next(w))
  IN wave[cells].T

-----------------------------------------------------------------------------
(* The descent.  A point is on the lattice of half cells, a step one of    *)
(* its eight directions; the field is sampled at quarter cells, where the  *)
(* middle of a step lies.                                                  *)

Reached(c) == c \in DOMAIN fm2_T
NoSample == -1

\* How near a cell's centre is to a point, of sixteen, with that much of its
\* time; nothing of a cell that was never reached.
Corner(q, c) ==
  LET near == (4 - Abs(q[1] - 4 * c[1] - 2)) * (4 - Abs(q[2] - 4 * c[2] - 2))
  IN IF Reached(c) THEN <<near, near * fm2_T[c]>> ELSE <<0, 0>>

\* What is there of four corners, weighed up again, in sixteenths of a time.
Blend(a, b, c, d) ==
  LET wsum == a[1] + b[1] + c[1] + d[1]
  IN IF wsum = 0 THEN NoSample ELSE (16 * (a[2] + b[2] + c[2] + d[2])) \div wsum

\* fm2SampleT: the field between the four cells round a point.
SampleT(q) ==
  LET i == (q[1] - 2) \div 4
      k == (q[2] - 2) \div 4
  IN Blend(Corner(q, <<i, k>>), Corner(q, <<i + 1, k>>),
           Corner(q, <<i, k + 1>>), Corner(q, <<i + 1, k + 1>>))

Quarters(p) == <<2 * p[1], 2 * p[3]>>
TimeAt(p) == SampleT(Quarters(p))
Below(t, u) == t # NoSample /\ (u = NoSample \/ t < u)

\* gradT: central differences a cell either way, one-sided beside a point
\* with no sample, none where there is no sample here.
Difference(behind, here, ahead) ==
  CASE here = NoSample -> 0
    [] here # NoSample /\ behind # NoSample /\ ahead # NoSample -> ahead - behind
    [] here # NoSample /\ behind = NoSample /\ ahead # NoSample -> 2 * (ahead - here)
    [] here # NoSample /\ behind # NoSample /\ ahead = NoSample -> 2 * (here - behind)
    [] OTHER -> 0
Gradient(q, here) ==
  <<Difference(SampleT(<<q[1] - 4, q[2]>>), here, SampleT(<<q[1] + 4, q[2]>>)),
    Difference(SampleT(<<q[1], q[2] - 4>>), here, SampleT(<<q[1], q[2] + 4>>))>>
GradT(q) == Gradient(q, SampleT(q))

\* The lattice direction a vector falls in.
Heading(v) ==
  <<IF 2 * Abs(v[1]) >= Abs(v[2]) THEN Sign(v[1]) ELSE 0,
    IF 2 * Abs(v[2]) >= Abs(v[1]) THEN Sign(v[2]) ELSE 0>>

\* slopeLimit: a climb steeper than the cap is sheared onto it, flatter than
\* any slope of the lattice, unless there is no way but up or down.
SlopeLimit(g) ==
  IF scene.slopeCap /\ g[1] # 0 THEN <<-Sign(g[1]), 0>>
  ELSE Heading(<<-g[1], -g[2]>>)

\* clampZ: within the centres of the lowest and the highest cells; unit is
\* half a cell.
ClampZ(z, unit) == Max({unit, Min({z, unit * (2 * scene.size[3] - 1)})})
Shifted(p, o) == <<p[1] + o[1], 0, ClampZ(p[3] + o[2], 1)>>
Middle(p, o) == <<2 * p[1] + o[1], ClampZ(2 * p[3] + o[2], 2)>>

\* The smooth step: by the gradient half a step ahead, where there is one;
\* the point itself, where there is none here.
SmoothBy(p, g, ahead) ==
  CASE g = <<0, 0>> -> p
    [] g # <<0, 0>> /\ ahead = <<0, 0>> -> Shifted(p, SlopeLimit(g))
    [] OTHER -> Shifted(p, SlopeLimit(ahead))
SmoothFrom(p, g) == SmoothBy(p, g, GradT(Middle(p, SlopeLimit(g))))
SmoothStep(p) == SmoothFrom(p, GradT(Quarters(p)))

\* discreteStep: the points a cell away along each axis that sample lower.
Probed(p, here) ==
  {q \in {<<p[1] + 2 * o[1], 0, p[3] + 2 * o[2]>> : o \in Steps4} :
     Below(TimeAt(q), here)}
LowestOf(probes) == CHOOSE q \in probes : \A r \in probes : TimeAt(q) <= TimeAt(r)

\* The rescue on the raw grid: the neighbours reached earlier, any reached one
\* where the cell itself never was.
LowerCells(c) ==
  {n \in Around(c) : Reached(n) /\ (Reached(c) => fm2_T[n] < fm2_T[c])}
Lowest(cells, T) == CHOOSE n \in cells : \A m \in cells : T[n] <= T[m]

\* It lands over the middle of the cell and keeps its height within it.
Landing(p, c) ==
  <<2 * c[1] + 1, 0, ClampZ(Max({2 * c[2], Min({p[3], 2 * c[2] + 1})}), 1)>>

\* The last resort: straight at the goal, not into a blocked cell nor off
\* the field.
Nudged(p) ==
  LET ahead == Minus(scene.goal, p) IN Shifted(p, Heading(<<ahead[1], ahead[3]>>))
CellBlocked(c) == c \notin Grid \/ fm2_F[c] \in {0, BlockedSlow}
Nudge(n) == IF CellBlocked(CellOf(n)) \/ TimeAt(n) = NoSample THEN <<>> ELSE n

\* One step of the descent: smooth when that lowers the sample, else discrete,
\* else rescued, else nudged; with nowhere to nudge to it gives up.
DescentStep_mutant(p, here, smooth, probes, lower) ==
  CASE Below(TimeAt(smooth), here) -> smooth
    [] ~Below(TimeAt(smooth), here) /\ probes # {} ->
         Shifted(LowestOf(probes), <<0, 0>>)
    [] OTHER -> Nudge(Nudged(p))

DescentStep(p, here, smooth, probes, lower) ==
  CASE Below(TimeAt(smooth), here) -> smooth
    [] ~Below(TimeAt(smooth), here) /\ probes # {} ->
         Shifted(LowestOf(probes), <<0, 0>>)
    [] ~Below(TimeAt(smooth), here) /\ probes = {} /\ lower # {} ->
         Landing(p, Lowest(lower, fm2_T))
    [] OTHER -> Nudge(Nudged(p))

NextPoint(p) ==
  DescentStep(p, TimeAt(p), SmoothStep(p), Probed(p, TimeAt(p)), LowerCells(CellOf(p)))

\* Within a cell and a half.
AtGoal(p) ==
  LET d == Minus(scene.goal, p) IN d[1] * d[1] + d[3] * d[3] < 9

\* The points from the start on, until the goal, no next point, or the cap on
\* steps; the code's, four map diagonals and a thousand, outlasts the points
\* there are, and so does this one, eight legs of as many steps as cells.
Legs == 8
Continued(w, next) ==
  IF next = <<>> THEN [w EXCEPT !.stuck = TRUE]
  ELSE [w EXCEPT !.points = Append(w.points, next)]
Onward(w) ==
  IF w.stuck \/ AtGoal(Last(w.points)) THEN w
  ELSE Continued(w, NextPoint(Last(w.points)))
DescentLeg(w) ==
  LET walk[n \in 0..Cardinality(Grid)] == IF n = 0 THEN w ELSE Onward(walk[n - 1])
  IN IF w.stuck THEN w ELSE walk[Cardinality(Grid)]
Descent ==
  LET leg[n \in 0..Legs] ==
        IF n = 0 THEN [points |-> <<scene.start>>, stuck |-> FALSE]
        ELSE DescentLeg(leg[n - 1])
  IN leg[Legs]

\* The heights, not the ends, are averaged over five points of a long path.
Smoothed(path) ==
  LET n == Len(path)
      Window(m) == Max({1, m - 2})..Min({n, m + 2})
      Height(m) == FoldSet(LAMBDA w, acc : acc + path[w][3], 0, Window(m))
                     \div Cardinality(Window(m))
  IN IF n <= 8 THEN path
     ELSE [m \in 1..n |-> IF m \in {1, n} THEN path[m]
                          ELSE [path[m] EXCEPT ![3] = Height(m)]]

\* fm2ExtractGeodesic: a descent cut short has the goal appended all the same.
RouteOf(points) ==
  [path |-> Smoothed(Append(points, scene.goal)), reached |-> AtGoal(Last(points))]
Geodesic == RouteOf(Descent.points)

-----------------------------------------------------------------------------
(* The zone passes.                                                        *)

Surfaced(p) == TerrainKnown(p) => p[3] >= TerrainHeight(p) - SurfaceSlack

\* probeRouteOk.  A short stall before the goal is fine when the chord that
\* closes it is clear; the whole route must keep out of the hard zones and
\* above the surface, since blocked cells are porous.
ProbeOk_mutant(g) ==
  LET last == g.path[Len(g.path) - 1]
      gap == Minus(scene.goal, last)
  IN /\ \/ g.reached
        \/ /\ Abs(gap[1]) + Abs(gap[3]) <= StallGap
           /\ \A p \in Between(last, scene.goal) : ~InHardZone(p)
     /\ \A n \in DOMAIN g.path : Surfaced(g.path[n])

ProbeOk(g) ==
  LET last == g.path[Len(g.path) - 1]
      gap == Minus(scene.goal, last)
  IN /\ \/ g.reached
        \/ /\ Abs(gap[1]) + Abs(gap[3]) <= StallGap
           /\ \A p \in Between(last, scene.goal) : ~InHardZone(p)
     /\ \A p \in Body(g.path) : ~InHardZone(p)
     /\ \A n \in DOMAIN g.path : Surfaced(g.path[n])

\* Every zone the soft probe passes through, not only the first it meets.
Crossed(g) ==
  {i \in Zones \ NoBarrier : \E p \in Body(g.path) : InNominal(i, p)}

Lexico == Lexicographic /\ Zones # {} /\ scene.barrier > 0

BeginPasses ==
  /\ fm_stage = "begin"
  /\ fm_stage' = "build"
  /\ zone_avoid_pass' = 0
  /\ zone_lexico_hard' = FALSE
  /\ IF Lexico
       THEN todo' = 1 /\ zone_soft_override' = {} /\ zone_hard_mode' = TRUE
       ELSE todo' = 0 /\ UNCHANGED <<zone_soft_override, zone_hard_mode>>
  /\ UNCHANGED <<fm2_F, fm2_T, fm2_valid, fm2_path, scene>>

\* A map over the cell cap leaves no speed map, and so no field.
BuildSpeedMap ==
  /\ fm_stage = "build"
  /\ fm_stage' = "solve"
  /\ fm2_F' = IF Cardinality(Grid) > MaxCells THEN <<>>
              ELSE [c \in Grid |-> Slowness(c)]
  /\ fm2_valid' = FALSE
  /\ UNCHANGED <<todo, zone_hard_mode, zone_soft_override, zone_lexico_hard,
                 zone_avoid_pass, fm2_T, fm2_path, scene>>

SolveEikonal ==
  /\ fm_stage = "solve"
  /\ fm_stage' = IF todo \in {0, 4} THEN "extract" ELSE "judge"
  /\ IF fm2_F = <<>> \/ CellOf(scene.goal) \notin Grid
       THEN UNCHANGED <<fm2_T, fm2_valid>>
       ELSE fm2_T' = March(Star) /\ fm2_valid' = TRUE
  /\ UNCHANGED <<todo, zone_hard_mode, zone_soft_override, zone_lexico_hard,
                 zone_avoid_pass, fm2_F, fm2_path, scene>>

HardOk == fm2_valid /\ TimeAt(scene.start) # NoSample /\ ProbeOk(Geodesic)

\* Passes 1 and 3 stand when their probe is a route.
Accept ==
  /\ fm_stage = "judge"
  /\ todo \in {1, 3}
  /\ HardOk
  /\ fm_stage' = "extract"
  /\ UNCHANGED <<todo, zone_hard_mode, zone_soft_override, zone_lexico_hard,
                 zone_avoid_pass, fm2_F, fm2_T, fm2_valid, fm2_path, scene>>

\* Otherwise the zones go soft and the field is built again.
Soften ==
  /\ fm_stage = "judge"
  /\ todo \in {1, 3}
  /\ ~HardOk
  /\ todo' = todo + 1
  /\ zone_hard_mode' = FALSE
  /\ fm_stage' = "build"
  /\ UNCHANGED <<zone_soft_override, zone_lexico_hard, zone_avoid_pass, fm2_F,
                 fm2_T, fm2_valid, fm2_path, scene>>

\* Pass 2 marks what its probe crossed, and pass 3 hardens the rest.
MarkCrossings ==
  /\ fm_stage = "judge"
  /\ todo = 2
  /\ todo' = 3
  /\ zone_soft_override' = IF fm2_valid THEN Crossed(Geodesic) ELSE {}
  /\ zone_hard_mode' = TRUE
  /\ fm_stage' = "build"
  /\ UNCHANGED <<zone_lexico_hard, zone_avoid_pass, fm2_F, fm2_T, fm2_valid,
                 fm2_path, scene>>

\* The route of the last field; hard mode never leaks into later questions.
ExtractRoute ==
  /\ fm_stage = "extract"
  /\ fm_stage' = "finished"
  /\ zone_avoid_pass' = IF todo = 4 THEN 2 ELSE todo
  /\ zone_lexico_hard' = (todo > 0)
  /\ fm2_path' = IF fm2_valid THEN Geodesic.path ELSE <<scene.start, scene.goal>>
  /\ zone_hard_mode' = FALSE
  /\ UNCHANGED <<todo, zone_soft_override, fm2_F, fm2_T, fm2_valid, scene>>

FMInit ==
  /\ fm_stage = "begin"
  /\ todo = 0
  /\ zone_hard_mode = FALSE
  /\ zone_soft_override = {}
  /\ zone_lexico_hard = FALSE
  /\ zone_avoid_pass = 0
  /\ fm2_F = <<>>
  /\ fm2_T = <<>>
  /\ fm2_valid = FALSE
  /\ fm2_path = <<>>

FMNext ==
  \/ BeginPasses \/ BuildSpeedMap \/ SolveEikonal \/ Accept \/ Soften
  \/ MarkCrossings \/ ExtractRoute

-----------------------------------------------------------------------------
(* Properties.                                                             *)

\* The pass reported with a route tells the truth about it: a route called
\* zone-free, or re-hardened, keeps its whole body out of every hard volume
\* it was not allowed to cross, although the speed map is porous and only the
\* probe, extracted earlier, was looked at (dyn_a_star.cpp, probeRouteOk).
PassLabelHonest ==
  fm_stage = "finished" /\ zone_avoid_pass \in {1, 3} =>
    \A p \in Body(fm2_path) : ~InHardZone(p)

\* A descent that gives up has left the cells the march reached: "a strictly
\* lower neighbour CELL exists wherever T(cell) is finite and nonzero"
\* (dyn_a_star.cpp:2014-2016) whatever the blended samples say, also where
\* FM2* stopped with most of its times tentative.  Nor does it stray: every
\* point it moves to has a sample to go by, although clamps, landings and
\* nudges move it where no sample sent it.  (That it arrives is not promised:
\* it may go round in a circle until the cap on steps.)
KeepsToField(d) ==
  /\ d.stuck => ~Reached(CellOf(Last(d.points)))
  /\ \A n \in 2..Len(d.points) : TimeAt(d.points[n]) # NoSample
DescentKeepsToField ==
  fm_stage \in {"judge", "extract"} /\ fm2_valid => KeepsToField(Descent)

=============================================================================
