# A TLA+ model of the path planner

The repository is a ROS 2 planner for a fixed-wing aircraft: an operator's
mission command is turned into a polynomial flight over a terrain model,
around obstacles and risk zones, and published for execution. This directory
holds TLA+ modules that model the parts of it that make decisions, TLC
configurations that check them on small instances, and proofs, checked by
TLAPS, of theorems about them for instances of any size.

File names below are short for `src/src/path_manager/src/replan_fsm.cpp` (FSM),
`.../path_manager.cpp` (PM), `.../segment_chain_planner.cpp` (SCP),
`.../transition_phase.cpp` (TP), `.../include/path_manager/planning_result.h` (PR),
`src/src/path_planner/src/dyn_a_star.cpp` (DA), `.../src/sdf/sdf_manager.cpp` (SDF),
`src/src/path_optimizer/src/poly_traj_optimizer.cpp` (PO) and
`.../include/path_optimizer/lbfgs.hpp` (LB).

## 1. The system

### Components, state and operations

| Component | State it keeps | Operations | Modelled by |
| --- | --- | --- | --- |
| Mission state machine (FSM, `plan_container.hpp`) | `exec_state_`, `have_target_`, `have_local_traj_`, dedup sequence, mission id, start position and AGL flag, escape flag, failure counter, the local trajectory slot | 10 ms tick `computeAndPublishPaths`; `trajectoryCommandCallback` → `startMissionPlan` → `triggerGlobalPlan` | `ReplanFSM`, `MissionLifecycle` |
| World model (PM, `path_manager.h`, callbacks of FSM) | terrain and its generation, grid latch, voxel size, obstacles and deferred obstacles, raw and effective zones, risk masks, optimizer pitch, elevation memo, ingestion receipt | `setTerrainData` (map, refused map, clear), `loadObstaclesCallback`, `loadRiskZonesCallback`, the first half of `planGlobalTraj` | `WorldModel` |
| Risk-zone policy (PM, `dyn_a_star`) | generation, epoch, the searcher's per-zone buffers, a consumer's snapshot | `refreshEffectiveRiskZones`, `planFrontEnd`, `zonePolicySnapshot`, `zoneSnapshotCurrent`, `zoneContact` | `ZonePolicy` |
| Segment chain planner (SCP) | segments, junctions, effective overrides, solved runs, hand-off candidates, notes; the node's parameters and the optimizer's copy of them; the slot | `plan`, `planImpl`, `planTransitionMission`, `planRouteParallel`, `planOverRoute`, the retry ladder, stitching, `invalidateStoredTrajectory` | `ChainPlanner`, `MissionPlan` |
| Planning result (PR) | outcome and reason | `success`, `failedBecause`, `degrade` | `PlanningResult` |
| Transition generator (TP, and its coordinator in SCP) | none between calls; the candidate, its samples and its audit within one | `planTransitionMission`, `generate` | `TransitionPhase`; a choice in `ChainPlanner` |
| SDF obstacle layer (SDF) | patches, `has_patches`, a shared mutex, a revision | add, remove, clear, query, count, bulk guard, (re)build of the static layer | `PatchLayer`, `ObstacleSet` (threads); contents in `WorldModel` |
| Front-end search (DA) | the node pool and its two open sets; speed map, arrival times, pass buffers | A* and its ladder, fast marching and its three zone passes, the route simplifier | `SearchWorld`, `PathSearch`, `FastMarching`, `RouteSimplifier`, `FrontEnd`; its stamps in `ZonePolicy` |
| Plan front half (PM `planGlobalTraj`, `planFrontEnd`, `optimizeStage`, `solveSlice`) | map box, kept grid, last clean path and cap reference | one plan, and one that inherits a slice of the last | `RiskHorizon`, `GuidedRoute` |
| Trajectory optimizer (PO, LB) | the corridor of the solve; L-BFGS memory; flags and audit of the last solve | `optimizeFromPath`, `OptimizeTrajectory_lbfgs`, `lbfgs_optimize`, `checkCollision` | `SeedCorridor`, `Minimizer`, `SolveLoop`; a choice in `ChainPlanner` |
| Terminal helix, GPU marching, swarm graph, logging, visualisation, launch, tests | see `PROJECT.json` | | not modelled |

### How they interact

* One node, one `MultiThreadedExecutor`. The tick's timer and every subscription
  that changes planner state share *one* mutually exclusive callback group
  (FSM 192-260), so handlers run one after the other, in any order. That is why
  a handler is one action in `ReplanFSM` and `WorldModel`, and why the planner's
  intermediate stores into the slot are seen by nobody.
* The command callback calls the planner synchronously; the planner stores its
  flight in `traj_.local_traj`, the slot the tick publishes from and times. A
  refused plan may *invalidate* the slot. This shared slot is the most delicate
  interface of the system; `MissionPlan` states its contract.
* Terrain, obstacles and zones arrive at any time between plans; all that is
  derived from them (grounded heights, masks, pitch, memo, policy) must follow.
* Within a plan, segment workers run in parallel threads on their own
  optimizers. They write nothing another one reads.
* The planner changes the node's *parameters* while it solves a segment (it
  applies the segment's overrides and re-reads them into the optimizer).
* A plan is a pipeline: the front end searches a route and simplifies it
  (`FrontEnd`), the front half filters its heights and cuts it into pieces
  (`GuidedRoute`), the optimizer freezes a corridor round it (`SeedCorridor`) and
  solves, restarts and audits (`SolveLoop`). Each stage is handed the products of
  the one before; what a stage *promises* is what the next one assumes.
* The obstacle layer is the one structure several threads may touch at once: the
  class allows it, and a plan's OpenMP loops read it under a guard their master
  holds.

### What is hard here

Messages and ticks in any order; a command refused after it has written part of
its state; a flight invalidated while it is being flown; retries that end in an
emergency stop; deferred obstacles; data derived from a map that was replaced;
indices into buffers that the next search rewrites; a ladder of fallbacks in
which each rung drops something and the answer must say so; temporary
parameters on many exits; lock-free fast paths; a heap whose keys change while
entries wait in it; a pass label that outlives the field it was earned on; a
minimizer that stops on a trial it rejected. The list with source lines is in `PROJECT.json`
under `hazards`.

### What makes each component correct

* *State machine*: no accepted command is lost, no resend of a rejected one is
  swallowed; only accepted trajectories or a hover are published, the newest
  first; the flight that is timed is the one published; an abandoned mission is
  preceded by a hover; a start is never stale and lifted at most once.
* *World*: nothing deferred is lost; nothing stands on the ground of another
  world; everything derived is derived from the current map.
* *Zone policy*: a contact is judged only by the one search, and on the zones,
  the snapshot was taken of.
* *Obstacle layer*: every query answers for one moment's set of obstacles.
* *Front end*: "no way" means there is none; a path is of its own search and its
  cost within the promised factor; a route called zone-free is.
* *Front half and corridor*: the altitude cap never cuts off what the front end
  committed to, the corridor never closes, occlusion is real.
* *Solve*: what is flown was built from the last accepted point and judged by its
  own audit; the call returns.
* *Transition*: a hand-off has passed every gate; the audit explains the answer; a
  stale policy is never an answer.
* *Chain planner*: delivered means stored, refused means not flyable; hard limits
  survive every rung; overrides do not outlive their segment; labels, seams and
  the grade of the answer are honest; nothing unjudged is delivered where a
  judgement is due.

## 2. The modules

A definition named `X_mutant` stands before `X` and is `X` with a plausible bug.
It is used nowhere; put in X's place it makes the property it is listed with in
`PROJECT.json` fail, which shows that the property says something about the code.

### ReplanFSM, MissionLifecycle, MCReplanFSM

`ReplanFSM` has one action per branch of the tick (`TickInit`, `TickWait`,
`TickStart`, `TickExec`, `TickHover`, `TickPark`) and three for the command
callback by what becomes of the command: `DropCommand` (early returns),
`RejectCommand` (a plan was tried and FAILED) and `AcceptCommand`.
`TerrainChanges` and `Elapse` are the environment.

* A trajectory is named by the sequence number of its command; `Hover` is the
  emergency stop's, `Refused` the polynomial of a flight that was stored and
  then refused. `ready` is `duration > 0 && start_time > 0`.
* A position is its provenance: mission, how it was obtained, and how often the
  terrain elevation was added. That is what the start-position properties tell
  apart.
* `published`, `flown` and `plans` are history variables; no guard reads the first
  two, and `plans` is read only to name the mission of a trajectory.
* What a failed plan leaves in the slot is `AfterFailure`: nothing changes for the
  single-shot planner; the chain planner may also leave the old or a new
  polynomial unready. `ChainPlanner` is checked and proved to do no worse
  (`Contract`).
* `Drones` other than `DroneId` appear only as addressees of foreign commands.
  `have_recv_pre_agent_` is a constant FALSE in the code, so `MayStart` holds for
  drone 0 only.
* Left out: the unreachable state `GEN_NEW_TRAJ`, the branch for a missing
  PathManager, publishing exceptions, `next_mission_id_` (always empty), the
  numeric envelope checks of a command (they are reasons to reject it).

`MissionLifecycle` is the operator's view (accepted → flying → idle, abandoned only
behind a hover and only with the chain planner). `ImplementsLifecycle` is the
refinement, with phase derived from `have_target_` and `exec_state_`.

### WorldModel, ZonePolicy, MCWorld

`ZonePolicy` has the state and operations of the policy; `WorldModel` extends it and
says when they happen: `ClearWorld`, `AcceptMap`, `RefuseMap`, `LoadObstacles`,
`LoadRiskZones`, `Plan`, `Snapshot`.

* A map is a geometry with an elevation layer. A value computed from a map is
  recorded *as that map*: an obstacle's `ground`, a zone's `ground`, the masks' map.
  A resolution is recorded as the geometry it belongs to. `NoMap` is sea level.
* `AcceptMap` is all of `setTerrainData` for a well-formed message: geometry test,
  latches, grid, flush, zones, masks, pitch, generation, receipt. `RefuseMap` is its
  early return, after the voxel size was already changed.
* With the shipped `sdf_voxel_size: 0.0` the voxel follows the map, so no plan is
  possible before a map has set it (`Plan`'s guard).
* A search is a choice of what it leaves in the searcher's buffers
  (`SearchOutcomes`): pass, exempt zones, soft zones.
* `Judged` is the condition under which `zoneContact` answers with a verdict rather
  than STALE or INVALID; `SameShape` compares the described zone only, since two
  maps may ground a zone at the same height.
* `removeObstacle` is never called by the node. Obstacle ids are not reused while
  one with that id is on the grid or deferred.

### ChainPlanner, PlanningResult, MissionPlan, MCChainPlanner

One call of `plan()` is a walk through `pc`: `enter` → (`transition`) → `dispatch` →
route mode `size` → `author` → `solve` → (`retry`) → `stitch`, or
`direct` → `fallback` → `judge`; baseline mode `segments` → `stitch_segments`.

* The route is its vertices. A junction is a place and a speed; a run is one solve
  between two states, with the segments it covers and the limits it ran under
  (`max` for a hard limit, `soft` for a weight).
* Whether a solve succeeds, where junctions are authored, which hand-off
  candidates were screened, what the flight evaluation says: choices. The options
  read on the way (`author_from_route`, `transition/enable`, `merge_retry`,
  `allow_final_boundary_relaxation`) are choices where they are read.
* The workers share nothing writable; `Solve(bad)` is one step that chooses which
  of them fail. Their optimizers are configured one by one under a guard that
  restores the parameters before the first worker starts (SCP 2107-2119); that is
  inside the same step.
* `params` are the node's overridable parameters and `optimizer` what the manager's
  optimizer last read of them; the two can differ only by a bug.
* The verdict of the evaluation is `clean`, `hot` (over its envelope budget),
  `unflyable` or `unevaluated`; `judged` records the parameters it ran under.
* `Return` clears the plan's members, which the code does at the next entry
  (`resetPlanState`); nothing reads them in between.
* Left out: geometry and curvature scores, the terminal helix, jitter injection,
  exceptions of the parameter service, drawing. A self-crossing route, on which the
  code accepts a hand-off that lies behind the previous cut by vertex, is not
  distinguished: places advance along the route.

`MissionPlan` is the contract with the state machine: busy, outcome, slot. Its
`slot` is ChainPlanner's while idle, and the slot at entry while a plan runs.

### PatchLayer, ObstacleSet, MCPatchLayer

`PatchLayer` is the layer's code step by step, as threads meet it: the gate is read
before the lock, the lock is taken, the slots are scanned one by one, the answer is
stored. Mutators bump the revision, lock, change the vector, set the gate and
unlock, each a step of its own.

* `mutex` is a `std::shared_mutex`: an exclusive holder and a set of shared ones.
  `guards` are the planners inside `bulkReadGuard`; `Workers` are the OpenMP threads
  of a guard holder's loop, who use the lock-free twins (`Bulk`) and hold nothing.
* A patch is the obstacle it was made of and a query's answer the patches it took
  its minimum over, so the numbers (distance, gradient) are left out but not which
  patches they are made of.
* The static layer is `none`, `initialized` or `built`; it is (re)built when nobody
  uses the field, as a plan does.
* Ids count from 1 and a freed slot is used again before the vector grows.

`ObstacleSet` is what the class promises: obstacles under ids, changed and asked for
in one step. `ImplementsObstacleSet` is the refinement: what is visible is what an
open gate lets through.

### TransitionPhase

One transition mission: `Commit` (parameters, the one front-end pass, its policy
snapshot), `Screen` (what `generate` refuses), then candidate by candidate
`StateFails`, `Capture`, `Timeout`, `Fly`, `JudgeHandoff` and `Adapt`.

* What physics decides is a *situation*: the set of gates the state or its command
  would fail, whether it lies in the hand-off window, whether the entry can be
  captured from it. Any situation may follow any other.
* The order of gates (`StateGates`, `StepGates`), which counter each adds to, the
  dwell that any sample outside the window resets, the knot ladder (`Spacing`,
  `Finer`) and the arc-sorted entries times primitives are the code's.
* `policy` may go stale at any moment; a stale probe aborts the whole call.
* Left out: the standalone validator of a finished trajectory, RK4 itself.

### SearchWorld, PathSearch, FastMarching, RouteSimplifier, FrontEnd, MCFrontEnd

The front end lives in the vertical plane of a query, in half cells so that cell
centres and midpoints are whole. `SearchWorld` answers occupancy and risk for a
point; every stage asks it and nothing else.

* `PathSearch` is the A* of `AstarSearch`: a pool of nodes that outlives a search and
  is told apart by `rounds`; two heaps (`SiftUp`, `SinkHole` are the library's) whose
  keys are read *through the pool*, so that improving a node that waits breaks the
  heap order exactly as it does in the code; a timeout at any expansion; then the
  ladder: search, search to an elevated goal, straight line. `coarse_g` is the coarse
  value field of the inadmissible heuristic.
* `FastMarching` builds a speed map, marches arrival times from the goal and descends
  them from the start, up to four times: hard zones, soft probe, re-hardened, soft.
  The map holds slowness (0 for F = 0), times are in hundredths of a cell with the
  root cut to an integer. The descent goes by points: a point's time is blended from
  the cell centres round it, those never reached left out and the rest weighed up
  again (`SampleT`); a step follows the central differences half a step ahead, sheared
  by the slope cap (`SmoothStep`), and counts only if it lowers the sample; else the
  point a cell away that samples lowest (`Probed`); else a rescue on the cells' own
  times, from a cell never reached to any reached one (`LowerCells`, `Landing`); else
  a nudge at the goal, or it gives up (`stuck`). So sample and cell may disagree, and
  a descent may stall, circle and abort. Simplified: points are on the lattice of half
  cells and a step is to one of the eight beside it (0.6 of a cell in any direction
  in the code), a climb over the slope cap is sheared to level flight (the cap is
  flatter than any slope of the lattice), a sample is cut to a sixteenth of a time's
  unit (the guard's 1e-9). The descent has eight steps for each cell. There are fewer
  points than that, so one that has not arrived by then never will; the code's cap, 6.7
  steps per cell of the diagonal and a thousand, outlasts them too. `SurfaceSlack` is
  the 0.15 u the probe lets a route sink below the surface.
* `RouteSimplifier` is the second half of `astarSearchAndGetSimplePath`: greedy and
  polishing chords, corner-cut guard, dropping near vertices, terrain sweep, merging.
  A loop of the code is a body run by `Iterate`; `guard.refined` is the code's
  flag: what the guard's last round inserted it did not look at again.
* `FrontEnd` composes them: one query, by one of the two front ends, then simplified.
* The march runs to its end in one step (nothing else touches its arrays); the A*
  is one step per expansion, since a timeout may fall between any two.
* Left out: the lateral dimension of the searches (the pool is three cells wide, the
  marching grid one), the roughness field's construction, CUDA, debug output. The
  costs have the code's order and shape, not its scale.

### RiskHorizon, GuidedRoute, SeedCorridor, MCSeedCorridor

One plan between front end and solve, in the vertical plane of its route: columns
along it, levels up, and one strip (`y = 1`) of terrain beside it.

* `RiskHorizon` is the terrain under a plan and what zones see of it: the horizon
  rings of `rebuildTerrainRiskMasks`, `riskShadowCeiling`, visibility. The mask is
  sharp (softness taken to 0).
* `GuidedRoute` is `planGlobalTraj`: bounds grown by zones until none is added, the
  grid, one search per leg, the altitude filter and the committed profile, the cut
  into pieces, the start direction with its floor, the altitude band of
  `optimizeStage`, and `solveSlice`, by which a chain segment inherits a slice.
  The searched route is any that the front end may return; the leg may also fail.
* `SeedCorridor` is `optimizeFromPath` up to the solve: midpoint and lead-in vertices
  with the cap reference mirrored, exempt zones, tapers for pinned ends, the H4
  profile by dynamic programming, the cap with slope envelope, zone relaxation and
  shadow lifts, the end direction, the H5 boxes.
* Left out: corner fillets (off as shipped), piece times, the roughness table.

### Minimizer, SolveLoop, MCSolveLoop

`Minimizer` is `lbfgs_optimize`: line search trials, ring of correction pairs, ring of
past costs, iteration budget. `SolveLoop` is `OptimizeTrajectory_lbfgs` and
`checkCollision` round it.

* A *point* stands for a vector of decision variables, a *problem* says its cost level
  (or that it is not a number), whether its gradient is small, and what the audit
  samples of the flight it stands for. A trial may be any point, so the properties
  do not rest on the quality of a line search.
* Costs of one level differ by less than the plateau test sees. A pair without
  curvature is a step within a level.
* `q` is the last accepted point, `jerkOpt` the one the callback last built a trajectory
  from; a failed search leaves them different, which is what the rebuild after the
  loop is for.
* `steps` (the newest curved steps of this pass and the last flat one: from, to,
  whether the pair was kept) and `spent` are history variables; no guard reads them.

## 3. The runs

| Run | Question | Distinct states |
| --- | --- | --- |
| `fsm_chain` | the state machine with the chain planner (shipped default): dedup gate, what is published and flown, starts, the operator's lifecycle (refinement), that a command is given up only behind a hover, and that every pending command is published, superseded, robbed of its trajectory or stopped and no mission holds the machine for ever | 40 thousand |
| `world` | maps, clears, batches, plans and policy snapshots in any order: nothing deferred is lost, nothing derived is stale, no contact is judged on another world | 1.3 million |
| `chain` | every rung of the chain planner's ladder | 2.3 million |
| `patches` | queries and changes of the obstacle layer in every interleaving, and the refinement of `ObstacleSet` | 776 thousand |
| `transition` | every order of gates failed and passed, the policy going stale at any moment | 1.6 million |
| `frontend` | one query on every small skyline, by either front end, then simplified: no false "no way", no path of another search, a descent that gives up on no reached cell and strays nowhere, a pass label that is true and stays true through the shortcuts | 84 thousand |
| `plan` | every clear route over crests, hills, water and zones: the cap over what was decided (by column and by vertex), the corridor, the lifts, the committed profile | 50 thousand |
| `solve` | solve after solve over every descent, plateau, failed search and cost that is no number | 222 thousand |
| `fsm_stranded`, `world_append`, `frontend_sweep`, `frontend_reopen` | a statement of the code's comments that the code does not keep (section 5) | to the first counterexample |

### Bounds and why they are enough

* State machine: sequence numbers 0 and 1 and two named missions beside the unnamed
  one give accept-reject-accept, resend, mission change and return, and the
  violation run has one number more; liveness is checked without symmetry, which
  keeps the number down. `MaxStartFailures` is 10 in the code and in
  `fsm_stranded`; `fsm_chain` uses 2, which only shortens the loop between
  WAIT_POSITION and SEQUENTIAL_START. The proofs hold for every value of both.
  The runs have the chain planner on: a refused plan may leave the stored trajectory
  as it was, so the single-shot planner's behaviours are among those checked. What
  holds of that planner alone (`NothingStranded`) is proved.
* World: two geometries times two elevations give refresh, change and return;
  generation ≤ 4 and epoch ≤ 2 bound the number of maps and plans; two obstacles
  suffice for "one deferred, one active"; one zone and one-zone lists, since zones
  are derived one by one; two legs distinguish "one search" from "more".
* Chain planner: 4 segments is the smallest number with an interior segment that
  may merge on either side; 5 vertices leave room to move a junction; 2 candidates
  per hand-off give a first and a farther one. The code allows 16 segments and 3
  candidates. The declarations cover: none, per-segment hard and soft, phase
  hard limits, phase weights overlaid by a segment's.
* Patches: a planner with a guard and one worker, a planner without, and two
  mutators are every pair of roles; revision ≤ 4 allows add-add-remove-clear, hence
  a freed slot that is used again while a scan is under way.
* Transition: two entries that may lie at one arc, two primitives, two steps and a
  dwell of two: a dwell that is broken, earned, or cut off by the timeout; a knot
  spacing of two gives the ladder a level that no longer refines. A situation
  fails at most one gate (of the terrain, the zones, the limits), and a stale policy
  adds a second.
* Front end: five or six columns of two heights, all skylines; goals near, far,
  level, raised, and at the start; a pool of 7 by 3 by 7 cells, so that the second
  search's pool lies elsewhere than the first's; two weights; up to two zones that
  overlap, or stand in a wall with a box as its weak spot; for marching, starts in the
  air, and broken ground over which a descent goes round in a circle (`Circling`). Two
  points are near below
  two samples, which is 0.3 u at the finest pitch the code samples with (0.15 u). The
  violation runs have a family of scenes each, as small as shows what they are for.
* Plan: nine columns hold a crest on a piece boundary or inside a piece and a hill
  beside either; one zone behind the crest, a narrow one above it, or a pair.
* Solve: three points are a descent of two levels, or two points of one level and a
  third that is no number; a memory of two pairs wraps; a plateau window of two; a
  budget of four iterations is reached with and without skipped updates; two
  restarts, one of them after a spent budget (4 and 3 in the code).
* Symmetry: missions are only compared for equality; so are elevations and
  obstacles. Runs with liveness use no symmetry.

### Fairness

* State machine: `WF(Tick)`, since the wall timer fires every 10 ms and its callback
  group serves it between callbacks (FSM 252-261), and `WF(Elapse)`: wall-clock
  time passes. Nothing is assumed of the command sender, the planner's success, or
  the terrain.
* Transition and solve: weak fairness of their own steps, since each is one
  call on one thread that waits for nobody. Nothing makes a policy go stale, and
  nothing makes a line search succeed: `SolveEnds` holds for the code's own
  counters, and makes one exception, iterations without curvature, which the
  budget does not count (section 5).

The other models have no fairness and no liveness properties.

### Deadlock

Checked in every run but `plan`, where a plan that is finished or failed is the end
of the behaviour. It says something in `chain`, `frontend` and `patches`, where every
step of a plan, a query, a lock must have a successor.

## 4. What is proved

TLAPS checks these for every value of the constants that satisfies the named
assumptions (each `ASSUME` says what the code or its parameters guarantee; TLC
evaluates it for the runs' values). Each `X_proofs` extends the module `X`.

* `ReplanFSM_proofs`: `TypeCorrect`, `DedupIsExact`, `PublishesOnlyAccepted`,
  `PublishesOnlyNewest`, `FliesThePublished`, `HoverIsCommanded`, `LiftsOnce`,
  `StartsAreNotStale`, `RefinesLifecycle`, `NothingIsStranded`,
  `GivesUpBehindAHover`. The inductive
  invariant has four parts, each proved inductive on top of the ones before:
  types with "ready means a flyable id"; the sequence part (the dedup gate is the
  newest accepted command, the stored trajectory is that command's or one that
  cannot be flown); the execution part (a pending mission in every state that
  publishes); the start part (where `current_pos_`, the hover's position and each
  plan's start come from). None of the properties is inductive alone: that only
  accepted commands are published, for instance, needs that what is stored is
  flyable only if it was accepted. `NothingIsStranded` is for the single-shot
  planner: with the chain planner it is false (section 5). What holds of both is
  `GivesUpBehindAHover`: what executes was published, and the machine forgets only
  what executes or what a commanded stop ends.
* `WorldModel_proofs`: `WorldTypeCorrect`, `NothingStaysDeferred`,
  `ObstaclesMatchTheMap`, `NothingDerivedIsStale`, `MemoNeverStale`,
  `PolicyNeverStale`, `JudgedZonesAreCurrent`, and the action property
  `NoObstacleIsLost`. The stamps' proofs rest on strengthenings such as "an older
  generation stays older" and "a snapshot of the current generation and epoch saw
  the searcher as it is".
* `ChainPlanner_proofs`, for any route, number of segments, candidates and
  declarations: `ParametersAreRestored`, `TransitionsAreNotReplanned`,
  `OnlyFitFlights`, `KeepsThePlanContract`; then `TypeCorrect`, `HardLimitsAreKept`,
  `SeamsAreExact`, `LabelsAreHonest`, `SuccessIsAsAsked`. The first four rest on
  whose flight is in the slot, which parameters are applied and whether a transition
  leads to the route. The others rest on `ChainInv`: where junctions lie and which
  limits every segment has once it is authored; that on the retry ladder the runs are
  still the workers' and only neighbours or screened hand-offs are left to try; and,
  at the stitch, that the runs cover the segments, meet in their states and keep
  their limits. Each rung is a step from one of these to another, so that a merge
  keeps the limits is one lemma about the minimum over the segments it covers.
* `PatchLayer_proofs`, for any number of threads, obstacles and changes:
  `NoScanIsTorn`, `GateIsTrue`, and `LayerIsASet`, the refinement of `ObstacleSet`.
  The invariant follows the lock through the threads (who is past `LockUnique` is
  its exclusive holder, a team works only under its master's guard), and says that
  the gate is wrong only between a writer's change and its `SetGate`, and what a scan
  has seen at each slot.
* `TransitionPhase_proofs`, for any number of entries, primitives, steps, dwell and
  knots: `AuditIsExplained`, `HandoffIsEarned`. The invariant keeps what a capture
  rests on sample by sample, and one disqualification for every candidate before the
  one being flown. Two facts about the code's numbers carry the rest: sorting puts
  the k-th nearest entry in place k, and knots on the multiples of a spacing no wider
  than the configured one leave no wider gap.
* `SolveLoop_proofs`, for any problem, memory, window and budget: `TypesHold`,
  `FlownIsTheBest` (accepted costs only descend, and the trajectory is rebuilt from the
  accepted point before anyone sees it), `MemoryHoldsTheNewest` (slot by slot of the
  ring, through its wrap), `VerdictIsItsOwn`. The last needs what the audit's loop
  over the samples computes: `Tally` is a recursive function, and that it is the
  account of the samples is proved by induction written as "the least counterexample
  of a set of naturals" (`UpTo`, from the library's well-foundedness of `<`), since
  the library's induction theorems cannot be instantiated here.

* `FrontEnd_proofs`, for any scene, weight, value field, zone policy and whatever an
  earlier search left in the pool: `DryMeansNoWay`, `PathIsItsOwn`, `LabelIsHonest`,
  `DescentStaysOnField`, `ThinningKeepsThePolicy`.
  The search's invariant says what a search knows of its nodes: the nodes of its own
  round are its start or free cells; the queues hold only such nodes, and every open
  one waits in the anchor heap; a link leads to a closed node of the same round, at
  exactly the price of the step; a closed node's free neighbours all belong to the
  round. The heaps are proved to keep what they hold and nothing about their order,
  since improving a waiting node breaks it (section 2). So when both run dry every
  node is closed and the closed ones are all that can be reached: the reference
  `TrueCosts`, a fixpoint over the cells, is the least one and stays inside them. The
  passes' invariant is that a route about to be extracted as zone-free was judged on
  the very field and under the very policy it is extracted with. `QueryStep` puts the
  two together: a step of a query is a step of one of them or leaves it alone.
  - *Descent*: `MarchFalls` is an induction over the march. Its invariant is that every
    cell with a time but the goal has a frozen neighbour of a smaller one, and that
    nothing lowers a frozen time. An update is later than the neighbours it is made
    from because the root of four or more is two or more (`Rooted`, by strong
    induction over Newton's steps); an update from two axes is later than both
    (`SolveQuadLater`). So a reached cell that is not the goal's has a neighbour reached
    earlier, also where its time is tentative, and the rescue has somewhere to go
    whatever the samples say: only from a cell never reached can a descent give up.
    A point has a sample exactly where a reached cell's centre is less than a pitch
    away along both axes (`SampleNear`); a clamp brings a height no farther from the
    nearest row (`ClampKeeps`), a landing stays in its cell's blend (`LandingKeeps`), a
    smooth step, a probe and a nudge are taken only to a sample (`NextPointKeeps`). The
    walk keeps both by induction over its steps and legs. Nothing is claimed about
    arriving (section 5).
  - *Shortcuts*: the kept indices ascend through doubling and halving (`FartherOn`),
    erasure and insertion, so a chord between neighbouring indices is a segment of the
    raw route, which `LabelIsHonest` speaks for. Every other chord was looked at:
    a validation scan that inserts nothing has passed every pair (`ValidationHolds`,
    whose measure is what lies ahead of the scan), and neither scan can undo what the
    other inserted, so a round that leaves the route as it was inserted nothing
    (`RoundHolds`). A guard stopped by its round cap with work remaining (which the code
    warns of) has not looked at its last insertions; nothing is claimed of it.

  `IsScene` says what the setters ensure: the map has a size, heights and endpoints
  are numbers, no risk is a reward.
* `SeedCorridor_proofs`, for any terrain, zones, mission and clear route:
  `ProductsTyped`, `OnlyHiddenLifts`, `CheapestIsCommitted`, `CapClearsFloor`,
  `CapKeepsDecisions`.
  - *Lifts*: below the shadow ceiling of a column every sight line of a zone is cut by
    the terrain that made its horizon, and a column without terrain in between has
    its ceiling below the moat; `CapInv` ties each stored cap to its piece.
  - *Committed profile*: `Covers` says that, of all profiles to a station that end on
    one level, the dynamic program keeps one as cheap as any (`StationCovers` is the
    step, `ProfilesCover` the induction along the path).
  - *Corridor*: `OpenInv` follows the committed heights through the stages. After the
    filter every reference is over its vertex and over the ground plane; cutting keeps
    that, since a higher chord is higher wherever it is cut (`Chords`); so do
    slices. The band's floor is therefore at most a cap headroom over every
    reference, inserted ones included, and dilation only raises them (`Dilates`).
    Tapers only lower the floor (`Floors`), the terrain to either side is in the
    swath (`Swaths`), and neither relaxation nor a shadow lift lowers a cap.
  - *Decision*: `KeepInv` compares, vertex by vertex, the references a solve uses with
    what the search decided before the altitude filter: not lower after the filter,
    cut alike, handed to a slice at the right place (`Offset`), spread over the vertices
    the seed inserts (`Spreads`). It speaks of vertices, so it also holds of missions
    that turn back over a column.
  - *Assumptions*: where terrain masks a zone its vertical ratio is at most 2 (0.35 as
    shipped; the test that takes 3 turns the mask off); `NegInf` is below every
    height; start and lifted goals are not inside the ground plane (the parameter
    file says so of its own value); half the floor's headroom is within the cap's
    (0.2 and 0.4 as shipped; section 5).

`ReplanFSM_proofs` is about `SafeSpec`, the specification without fairness, since
safety needs none.

Proved, and not repeated by a run: the type invariants, `OnlyAcceptedIsPublished`,
`HoverCommanded`, `LiftedAtMostOnce`, `MemoFresh`, `JudgedByTheOneSearch`,
`TransitionNeverReplanned`.

Only model-checked:

* the liveness properties `AcceptedIsPublished`, `MissionEnds`, `Concludes` and
  `SolveEnds`: out of this prover's reach under fairness;
* `CapCoversCommitment`: `CapIsOverDecision` said without the code's cutting: it looks
  the decision up on the raw route by *column*, which is the height decided for a
  vertex only while the route advances, and with heights cut by integer division only
  at piece boundaries on even columns, as the run has them. The run checks both; the
  form by vertex is the one that is proved.

## 5. Where code and comments disagree

Each of these is shown by a run whose property states the comment and that TLC
violates.

* `fsm_stranded`: a refusal can invalidate an accepted flight that is not yet
  published; the start then fails until the machine parks, and the accepted
  command is gone with its sequence number consumed (FSM 1099-1103). The same happens
  to a command that is accepted between the two ticks of EMERGENCY_STOP: its plan
  stays stored and ready, but the park tick forgets it (FSM 368-378), which is why
  `AcceptedIsPublished` excepts a stop under way.
* `world_append`: the first appended zone batch replaces the start-up zones
  (FSM 1227).
* `frontend_sweep`: before a goal commanded well inside the clearance, as the shipped
  parameters allow, the terrain sweep inserts a vertex in every round until a cap
  stops it (DA 1215, against DA 1172-1177).
* `frontend_reopen`: the two queues share one closed set. A node the inadmissible one
  closed on a dear way keeps its score, "Re-open even if it was closed" (DA 421) never
  happens, and a path of 94 is returned where 44 is possible; the bound the weight
  promises is 88 (DA 372).

Seen while reading or modelling, without a run:

State machine and world

* A refused replan zeroes the duration of the flight under way, and the next tick
  declares the goal reached (SCP 257, FSM 348).
* A rejected command of another mission leaves its start position and the cleared
  continuation flag behind; a replan of the flying mission starts there (FSM 951,
  1104).
* A command that is dropped before it plans leaves its AGL flag pending, and the next
  plan applies it to whatever start it uses (FSM 736-742).
* After an invalidating refusal the old polynomial is evaluated at the absolute
  clock to start the next plan (FSM 560-566); the model calls that start
  `extrapolated`.
* An obstacle put on a grid that was built without terrain stays at sea level when
  the first map arrives (PM 3386): the geometry test needs a valid old map.
* A receipt goes out for a map that was refused (FSM 1137).

Chain planner and transition

* In baseline mode a slow last segment replaces a stated end speed and the plan is a
  SUCCESS (SCP 626, 319-322).
* A multi-waypoint plan, and a baseline restored after a failed segment, are flown
  without the declared hard limits, although PR 22-25 says a hard requirement is
  never traded for a flight; the multi-waypoint plan is also never judged in phase
  mode. `HardLimitsKept` is therefore stated for stitched and direct flights.
* Edge and merge rescues pin the mission-wide speed at a moved junction, also next
  to a segment with a lower ceiling (compare SCP 2082-2090).
* A failed merge attempt that dropped a weight leaves its note, so a later merge that
  dropped none is DEGRADED (SCP 2622 says it stays SUCCESS).
* An edge rescue may shorten the cruise span below `min_cruise_arc_u`.
* `last_spans_` is left non-empty by a refused stitch.
* PR 32 speaks of two FAILED-only reasons; there are six.
* A policy that goes stale after some candidate reached the adapter is reported
  TRANSITION_ADAPTER_UNSOUND; PR 58-62 says GENERATION_FAILED.

Obstacle layer

* The comment at SDF 119-123 describes obstacle callbacks in the default group
  concurrent with plans; they were moved into the shared group (FSM 192-203).
* The revision is bumped before the change it announces (SDF 887; `distance_field.h`
  38-42 says a reader may rely on it). Nobody reads it today.

Front end

* A vertex within 0.3 u of the one before is dropped after the guard, and nothing
  looks at the chord that leaves (DA 1147-1153): it may enter a hard volume by as much
  as the vertex held the route off. `ShortcutKeepsThePolicy` is said of the vertices
  before that.
* An open node whose score improves is pushed again while its first entry's key drops
  inside the heap, which breaks the heap's order (DA 424).
* An inner-chord lift is inserted behind its corner even when it lies before it (DA
  1265-1271): it mends nothing there, turns the route back on itself, and can be asked
  for again in every round, with both ends clear.
* The comment at DA 1300-1303 calls the near-pair merge terrain-safe; raising the
  survivor moves the chords beside it, which on a steep slope may dip again.
* The path to an elevated goal is snapped to the true goal; its last segment is not
  checked by the search.
* FM2*'s early stop leaves most times of the field tentative, against DA 1729-1731.
  `DescentStaysOnField` proves that every reached cell has a lower neighbour all the
  same, which is what DA 2014-2016 needs.
* "A strictly lower neighbour exists until the goal - this ALWAYS lowers T" (DA
  1888-1892) is true of the cells, not of the blended samples the step goes by: DA
  519-537, 1851-1853 and 2005-2012 tell of descents that stall or abort from a start
  with a finite time. In the model they also go round in a circle, a rescue up the
  samples and smooth steps back down, until the cap on steps (the scene `Circling`); the
  goal is then appended by a straight chord. That such a route never passes for
  zone-free is `PassLabelHonest`; that a descent arrives is claimed nowhere.
* The guard's last round, when its cap of eight ends it with work remaining, leaves
  chords no scan has looked at; the code says so in a warning (DA 1108, 1118-1123).

Plan and corridor

* "Terrain-forced climbs survive via the elevation clamp": only vertices are clamped,
  and the average goes by index, not by distance.
* The mask's clear ceiling is finite, so a bare ray over water is classed as crossing
  rather than visible (PO 256-258).
* Zone crossings are looked for at vertices only: a zone between two vertices is
  missed (PO 30-34). `LiftsAreHidden` is about the whole piece and holds all the same.
* The map box's ceiling does not look at the goal's height (PM 911-912 against
  816-837).
* A plan over a route override reuses the pass of the last search and does not rebind
  the zones.
* The lead-in vertex gets no terrain check.
* The two headrooms are set independently. With `alt_floor_headroom` above twice
  `alt_cap_headroom`, a route that hugs the ground plane gets a floor above its
  cap (PM 1672-1675): `CapClearsFloor` needs `HeadroomAssumption`.
* `risk_vertical_ratio` is bounded only from below; above 2 the clear ceiling would lie
  inside the moat (0.35 as shipped).

Solve

* The plateau test needs three flat iterations by its comment (PO 1558-1561, LB
  110-128). An iteration without curvature does not advance the counter (LB
  1310-1323), so the next one is compared with the slot that was just written, and
  one flat iteration stops the solve.
* For the same reason `max_iterations` (LB 130-136) does not bound the number of
  iterations.
* WIDTHTOOSMALL cannot be returned: LB 842-866 returns ROUNDING_ERROR first; and an
  accepted trial at the last evaluation is reported MAXIMUMLINESEARCH.
* The comments at PO 1766, 1867 and 1884-1885 say that verdicts are only logged; the
  gates that discard a flight came later.

## 6. What is not modelled

* Numbers: spline algebra and penalty terms, the interpolation of the line search,
  RK4 propagation, distances of the field, formation Laplacians. They appear as
  choices of their outcomes, or as integers of the same order, so the properties
  hold whatever they compute, and say nothing of how well they compute it.
* The third dimension of the searches and of a plan: routes lie in a vertical plane,
  with a strip beside it where the code looks aside.
* The terminal helix, GPU marching and the swarm graph: computations over doubles
  without state. The formation term is not used by the global plan.
* Logging, visualisation, launch files and tests. The parameter service as an actor
  of its own. Drones other than 0.

`PROJECT.json` lists every part with its status.

## 7. Plan

Done: the models of section 2 and the proofs of section 4. Left, in order of what
matters most:

1. `MissionSystem`: the state machine with `ChainPlanner`'s contract and the world's
   terrain instead of free choices; end-to-end "what is flown was planned on the
   world of its plan".
2. Pure algorithms against reference definitions over bounded inputs: the exact 1-D
   distance transform, route slicing and arc cuts, the flight-span bookkeeping, the
   swarm graph's sizes.
