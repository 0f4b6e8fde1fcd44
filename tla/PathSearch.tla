---------------------------- MODULE PathSearch ----------------------------
(***************************************************************************)
(* The A* front end of one query (dyn_a_star.cpp, dyn_a_star.h): a         *)
(* multi-heuristic search over a pool of grid nodes that is reused from    *)
(* one search to the next and told apart by a round number, and the ladder *)
(* of fallbacks around it: the search, a second search to an elevated      *)
(* goal, a straight line.                                                  *)
(*                                                                         *)
(* The pool is centred on the middle of start and goal, so its cells stand *)
(* for other places in each search.  World points are in half steps, which *)
(* keeps that middle exact; distances are the neighbour costs times 10.    *)
(* The two open sets are the binary heaps of the C++ library, whose keys   *)
(* are read through the pool: a node that is improved while it waits       *)
(* changes the key of the entries it already has.                          *)
(*                                                                         *)
(* Every X_mutant is a plausible wrong X, used to show that the checks can *)
(* fail; the specification uses X.                                         *)
(***************************************************************************)
EXTENDS SearchWorld

CONSTANTS
  Pool,       \* cells of the pool along each axis
  Weights,    \* values of manager/smha_w
  CoarseK,    \* downsampling of the coarse value field
  Lift        \* steps the second search raises the goal by (5 in the code)

ASSUME PoolAssumption == Pool \in Seq(Nat \ {0}) /\ Len(Pool) = 3
ASSUME WeightAssumption == Weights \subseteq Nat \ {0}
ASSUME CoarseAssumption == CoarseK \in Nat \ {0}
ASSUME LiftAssumption == Lift \in Nat \ {0}

VARIABLES
  smha_w,            \* the weight of the inadmissible queue
  stage,             \* ready, searching, failed, found, done
  attempt,           \* 1: to the goal, 2: to the elevated goal
  coarse_g,          \* the coarse value field, by coarse cell
  rounds,            \* searches so far: which nodes are of this one
  center,            \* the world point of the middle of the pool
  start_idx, end_idx,
  pool,              \* every node a search has touched
  openSet_anchor, openSet_inadmis,
  gridPath,          \* the cells of the path, goal first
  why,               \* how the search ended
  route              \* what the query returns

searchVars ==
  <<smha_w, stage, attempt, coarse_g, rounds, center, start_idx, end_idx, pool,
    openSet_anchor, openSet_inadmis, gridPath, why, route>>
search == <<openSet_anchor, openSet_inadmis, pool>>

Unreached == 1000000       \* the code's inf
TieBreak == 1001           \* 1 + 1/10000, coarser, over a scale of 1000

\* lround of n half steps in whole steps: halves go away from zero.
Lround(n) == Sign(n) * ((Abs(n) + 1) \div 2)

-----------------------------------------------------------------------------
(* The grid.                                                               *)

CenterIdx == <<Pool[1] \div 2, Pool[2] \div 2, Pool[3] \div 2>>

CoordOf(idx, middle) == Plus(Times(2, Minus(idx, CenterIdx)), middle)
Index2Coord(idx) == CoordOf(idx, center)
IndexOf(pt, middle) ==
  LET d == Minus(pt, middle)
  IN Plus(<<Lround(d[1]), Lround(d[2]), Lround(d[3])>>, CenterIdx)
InPool(idx) == \A i \in Axes3 : idx[i] \in 0..(Pool[i] - 1)

\* The expansion leaves the outermost ring of the pool alone.
Inner(idx) == \A i \in Axes3 : idx[i] \in 1..(Pool[i] - 2)

-----------------------------------------------------------------------------
(* Heuristics.                                                             *)

\* getDiagHeu: diagonal moves first, the rest along the axes.
DiagHeu(a, b) ==
  LET d == <<Abs(a[1] - b[1]), Abs(a[2] - b[2]), Abs(a[3] - b[3])>>
      low == Min({d[1], d[2], d[3]})
      high == Max({d[1], d[2], d[3]})
      mid == d[1] + d[2] + d[3] - low - high
  IN 17 * low + 14 * (mid - low) + 10 * (high - mid)

Axes(o) == Cardinality({i \in Axes3 : o[i] # 0})
StepCost(o) == <<10, 14, 17>>[Axes(o)]
OffsetOrder ==
  << <<1, 0, 0>>, <<-1, 0, 0>>, <<0, 1, 0>>, <<0, -1, 0>>, <<0, 0, 1>>,
     <<0, 0, -1>>, <<1, 1, 0>>, <<1, -1, 0>>, <<-1, 1, 0>>, <<-1, -1, 0>>,
     <<1, 0, 1>>, <<1, 0, -1>>, <<-1, 0, 1>>, <<-1, 0, -1>>, <<0, 1, 1>>,
     <<0, 1, -1>>, <<0, -1, 1>>, <<0, -1, -1>>, <<1, 1, 1>>, <<1, 1, -1>>,
     <<1, -1, 1>>, <<1, -1, -1>>, <<-1, 1, 1>>, <<-1, 1, -1>>, <<-1, -1, 1>>,
     <<-1, -1, -1>> >>
Offsets == ToSet(OffsetOrder)

\* The cost of the cheapest way from one cell to each it can reach, where
\* moves[c] has the cost of each step from c: the cell of least cost is
\* settled first, and as costs are positive none is settled twice.
Cheapest(from, moves) ==
  LET Settle(s) ==
        LET c == CHOOSE x \in s.work : \A y \in s.work : s.g[x] <= s.g[y]
            by == [x \in DOMAIN moves[c] |-> s.g[c] + moves[c][x]]
            better == {x \in DOMAIN by : x \in DOMAIN s.g => by[x] < s.g[x]}
        IN [g |-> [x \in DOMAIN s.g \cup better |->
                     IF x \in better THEN by[x] ELSE s.g[x]],
            work |-> (s.work \ {c}) \cup better]
      cells == Cardinality(DOMAIN moves)
      settled[n \in 0..cells] ==
        IF n = 0 THEN [g |-> [x \in {from} |-> 0], work |-> {from}]
        ELSE LET s == settled[n - 1]
             IN IF s.work = {} THEN s ELSE Settle(s)
  IN settled[cells].g

\* The coarse grid of buildCoarseValueField: CoarseK steps to a cell, one
\* cell wide across the plane of the map.
CoarseCells ==
  {<<i, j, k>> : i \in 0..((scene.size[1] - 1) \div CoarseK), j \in {0},
                 k \in 0..((scene.size[3] - 1) \div CoarseK)}
CoarseCenter(c) ==
  <<(2 * c[1] + 1) * CoarseK, 0, (2 * c[3] + 1) * CoarseK>>
CoarseOf(p) ==
  <<p[1] \div (2 * CoarseK), 0, p[3] \div (2 * CoarseK)>>

\* Its Dijkstra: the cheapest way to the goal cell over cells with a free
\* centre, each step at the risk half way along it.  The goal's own cell
\* counts as free, and nothing is valued when the goal is outside the map.
CoarseMoves(c) ==
  LET Cost(n) ==
        LET mid == Half(Plus(CoarseCenter(c), CoarseCenter(n)))
        IN CoarseK * StepCost(Minus(n, c)) * (1 + RiskCost(mid))
  IN [n \in {Plus(c, o) : o \in Offsets}
              \cap {m \in CoarseCells : ~Gated(CoarseCenter(m))} |-> Cost(n)]

CoarseField ==
  IF CoarseOf(scene.goal) \in CoarseCells
    THEN Cheapest(CoarseOf(scene.goal), [c \in CoarseCells |-> CoarseMoves(c)])
    ELSE <<>>

\* getHeuInadmis: the coarse cost to go where there is one, else the anchor's
\* heuristic inflated by the weight.
HeuInadmis(idx) ==
  LET c == CoarseOf(Index2Coord(idx))
  IN IF c \in DOMAIN coarse_g
       THEN TieBreak * coarse_g[c]
       ELSE TieBreak * smha_w * DiagHeu(idx, end_idx)

-----------------------------------------------------------------------------
(* The open sets: std::priority_queue over std::push_heap and pop_heap.    *)

\* The entry at i rises past every parent of larger key, which moves down.
SiftUp(h, i, key) ==
  LET rise[j \in 1..i] ==
        IF j = 1 \/ key[h[j \div 2]] <= key[h[i]] THEN [h EXCEPT ![j] = h[i]]
        ELSE [rise[j \div 2] EXCEPT ![j] = h[j \div 2]]
  IN rise[i]

\* The hole at the top sinks to a leaf, past the lesser child each time and
\* past the right one of equals, which moves up.
SinkHole(h, key) ==
  LET n == Len(h)
      Child(i) == IF 2 * i + 1 <= n /\ key[h[2 * i + 1]] <= key[h[2 * i]]
                    THEN 2 * i + 1 ELSE 2 * i
      sunk[i \in 1..n] ==
        IF Child(i) > n THEN [heap |-> h, hole |-> i]
        ELSE LET below == sunk[Child(i)]
             IN [heap |-> [below.heap EXCEPT ![i] = h[Child(i)]],
                 hole |-> below.hole]
  IN sunk[1]

HeapPush(h, c, key) == SiftUp(Append(h, c), Len(h) + 1, key)
HeapPop(h, key) ==
  IF Len(h) = 1 THEN <<>>
  ELSE LET s == SinkHole(Front(h), key)
       IN SiftUp([s.heap EXCEPT ![s.hole] = Last(h)], s.hole, key)

AnchorKey(p) == [c \in DOMAIN p |-> p[c].fAnchor]
InadmisKey(p) == [c \in DOMAIN p |-> p[c].fInadmis]

-----------------------------------------------------------------------------
(* Nodes.                                                                  *)

FreshNode == [rounds |-> 0, state |-> "UNDEFINED", gScore |-> Unreached,
              fAnchor |-> Unreached, fInadmis |-> Unreached,
              cameFrom |-> <<>>]
NodeAt(p, idx) == IF idx \in DOMAIN p THEN p[idx] ELSE FreshNode
WithNode(p, idx, node) ==
  [c \in DOMAIN p \cup {idx} |-> IF c = idx THEN node ELSE p[c]]

\* A node with a new score goes, open, into both queues.
Scored(idx, g, from) ==
  [rounds |-> rounds, state |-> "OPENSET", gScore |-> g,
   fAnchor |-> 1000 * g + TieBreak * DiagHeu(idx, end_idx),
   fInadmis |-> 1000 * g + HeuInadmis(idx), cameFrom |-> from]

Enqueue(s, idx, node) ==
  LET p == WithNode(s.pool, idx, node)
  IN [pool |-> p,
      anchor |-> HeapPush(s.anchor, idx, AnchorKey(p)),
      inadmis |-> IF smha_w > 1 THEN HeapPush(s.inadmis, idx, InadmisKey(p))
                                ELSE s.inadmis]

\* One neighbour of the node that was closed.  A closed node is never opened
\* again, whatever its new score; a node that is gated is only stamped.
Relax_mutant(s, current, o) ==
  LET idx == Plus(current, o)
      node == NodeAt(s.pool, idx)
      g == s.pool[current].gScore + StepCost(o) * (1 + RiskCost(Index2Coord(idx)))
  IN IF ~Inner(idx) \/ node.state = "CLOSEDSET" THEN s
     ELSE IF Gated(Index2Coord(idx))
       THEN [s EXCEPT !.pool = WithNode(s.pool, idx,
                                        [node EXCEPT !.rounds = rounds])]
     ELSE IF g >= node.gScore THEN s
     ELSE Enqueue(s, idx, Scored(idx, g, current))

Relax_mutant_link(s, current, o) ==
  LET idx == Plus(current, o)
      node == NodeAt(s.pool, idx)
      explored == node.rounds = rounds
      stamped == [s EXCEPT !.pool = WithNode(s.pool, idx,
                                             [node EXCEPT !.rounds = rounds])]
      g == s.pool[current].gScore
             + StepCost(o) * (1 + RiskCost(Index2Coord(idx)))
  IN IF ~Inner(idx) \/ (explored /\ node.state = "CLOSEDSET") THEN s
     ELSE IF Gated(Index2Coord(idx)) THEN stamped
     ELSE IF explored /\ g >= node.gScore THEN stamped
     ELSE Enqueue(s, idx,
                  Scored(idx, g, IF explored THEN node.cameFrom ELSE current))

Relax(s, current, o) ==
  LET idx == Plus(current, o)
      node == NodeAt(s.pool, idx)
      explored == node.rounds = rounds
      stamped == [s EXCEPT !.pool = WithNode(s.pool, idx,
                                             [node EXCEPT !.rounds = rounds])]
      g == s.pool[current].gScore
             + StepCost(o) * (1 + RiskCost(Index2Coord(idx)))
  IN IF ~Inner(idx) \/ (explored /\ node.state = "CLOSEDSET") THEN s
     ELSE IF Gated(Index2Coord(idx)) THEN stamped
     ELSE IF explored /\ g >= node.gScore THEN stamped
     ELSE Enqueue(s, idx, Scored(idx, g, current))

\* From the goal along the links; a link costs 10 at least.
RetrievePath(goal) ==
  LET trail[n \in 0..(pool[goal].gScore \div 10)] ==
        IF n = 0 THEN <<goal>>
        ELSE LET path == trail[n - 1]
                 from == pool[Last(path)].cameFrom
             IN IF from = <<>> THEN path ELSE Append(path, from)
  IN trail[pool[goal].gScore \div 10]

-----------------------------------------------------------------------------
(* One search.                                                             *)

\* An endpoint inside an obstacle is moved away from the other one, a step at
\* a time, until it is free or leaves the pool; with both at one point, up.
\* The direction is taken axis by axis.
ShiftOut(pt, dir, middle) ==
  LET At(n) == Plus(pt, Times(2 * n, dir))
      Cell(n) == IndexOf(At(n), middle)
      stops == {n \in 0..Max({Pool[i] : i \in Axes3}) :
                  InPool(Cell(n)) => ~Occupied(CoordOf(Cell(n), middle))}
      out == Min(stops)
  IN [ok |-> InPool(Cell(out)), pt |-> At(out), idx |-> Cell(out)]

Away(from, to) ==
  IF from = to THEN <<0, 0, 1>>
  ELSE Signs(Minus(from, to))

Target == IF attempt = 1 THEN scene.goal
          ELSE [scene.goal EXCEPT ![3] = @ + 2 * Lift]

Adjusted ==
  LET middle == Half(Plus(scene.start, Target))
      inside == InPool(IndexOf(scene.start, middle))
                  /\ InPool(IndexOf(Target, middle))
      s == ShiftOut(scene.start, Away(scene.start, Target), middle)
      e == ShiftOut(Target, Away(Target, s.pt), middle)
  IN [ok |-> inside /\ s.ok /\ e.ok, middle |-> middle,
      start |-> s.idx, end |-> e.idx]

\* AstarSearch up to its loop: a new round, the endpoints, the start node.
BeginSearch ==
  /\ stage = "ready"
  /\ rounds' = rounds + 1
  /\ center' = Adjusted.middle
  /\ IF ~Adjusted.ok
       THEN /\ stage' = "failed"
            /\ why' = "endpoint"
            /\ UNCHANGED <<start_idx, end_idx>>
       ELSE /\ stage' = "seeding"
            /\ start_idx' = Adjusted.start
            /\ end_idx' = Adjusted.end
            /\ UNCHANGED why
  /\ UNCHANGED <<scene, smha_w, attempt, coarse_g, search, gridPath, route>>

Load(s) ==
  /\ pool' = s.pool
  /\ openSet_anchor' = s.anchor
  /\ openSet_inadmis' = s.inadmis

\* The open sets are emptied and the start node goes into them.
Seed ==
  /\ stage = "seeding"
  /\ stage' = "searching"
  /\ Load(Enqueue([pool |-> pool, anchor |-> <<>>, inadmis |-> <<>>],
                  start_idx, Scored(start_idx, 0, <<>>)))
  /\ UNCHANGED <<scene, smha_w, attempt, coarse_g, rounds, center, start_idx,
                 end_idx, gridPath, why, route>>

\* The inadmissible queue is served while its best node stays within the
\* weight of the anchor's best.
FromInadmis ==
  /\ smha_w > 1
  /\ openSet_inadmis # <<>>
  /\ pool[Head(openSet_inadmis)].fInadmis
       <= smha_w * pool[Head(openSet_anchor)].fAnchor

Popped == IF FromInadmis THEN Head(openSet_inadmis) ELSE Head(openSet_anchor)
AfterPop ==
  [pool |-> pool,
   anchor |-> IF FromInadmis THEN openSet_anchor
              ELSE HeapPop(openSet_anchor, AnchorKey(pool)),
   inadmis |-> IF FromInadmis
                 THEN HeapPop(openSet_inadmis, InadmisKey(pool))
                 ELSE openSet_inadmis]

DropStale ==
  /\ stage = "searching"
  /\ openSet_anchor # <<>>
  /\ pool[Popped].state = "CLOSEDSET"
  /\ Load(AfterPop)
  /\ UNCHANGED <<scene, smha_w, stage, attempt, coarse_g, rounds, center,
                 start_idx, end_idx, gridPath, why, route>>

ReachGoal ==
  /\ stage = "searching"
  /\ openSet_anchor # <<>>
  /\ pool[Popped].state # "CLOSEDSET"
  /\ Popped = end_idx
  /\ gridPath' = RetrievePath(Popped)
  /\ stage' = "found"
  /\ why' = "goal"
  /\ Load(AfterPop)
  /\ UNCHANGED <<scene, smha_w, attempt, coarse_g, rounds, center, start_idx,
                 end_idx, route>>

\* A closed node's neighbours, one after the other.
RelaxAll(s, current) ==
  LET after[n \in 0..Len(OffsetOrder)] ==
        IF n = 0 THEN s ELSE Relax(after[n - 1], current, OffsetOrder[n])
  IN after[Len(OffsetOrder)]

\* Close a node and relax its neighbours; the clock is read afterwards, and
\* twenty seconds end the search whatever is still open.
Expand ==
  /\ stage = "searching"
  /\ openSet_anchor # <<>>
  /\ pool[Popped].state # "CLOSEDSET"
  /\ Popped # end_idx
  /\ LET closed == [AfterPop EXCEPT !.pool =
                      [pool EXCEPT ![Popped].state = "CLOSEDSET"]]
     IN Load(RelaxAll(closed, Popped))
  /\ \/ UNCHANGED <<stage, why>>
     \/ stage' = "failed" /\ why' = "timeout"
  /\ UNCHANGED <<scene, smha_w, attempt, coarse_g, rounds, center, start_idx,
                 end_idx, gridPath, route>>

Exhaust ==
  /\ stage = "searching"
  /\ openSet_anchor = <<>>
  /\ stage' = "failed"
  /\ why' = "exhausted"
  /\ UNCHANGED <<scene, smha_w, attempt, coarse_g, rounds, center, start_idx,
                 end_idx, search, gridPath, route>>

-----------------------------------------------------------------------------
(* The ladder of astarSearchAndGetSimplePath.                              *)

\* A path of a single cell is no success: start and goal share a cell.
Unsuccessful == stage = "failed" \/ (stage = "found" /\ Len(gridPath) < 2)

Elevate ==
  /\ Unsuccessful
  /\ attempt = 1
  /\ attempt' = 2
  /\ stage' = "ready"
  /\ why' = "none"
  /\ UNCHANGED <<scene, smha_w, coarse_g, rounds, center, start_idx, end_idx,
                 search, gridPath, route>>

StraightLine ==
  /\ Unsuccessful
  /\ attempt = 2
  /\ stage' = "done"
  /\ route' = <<scene.start, scene.goal>>
  /\ UNCHANGED <<scene, smha_w, attempt, coarse_g, rounds, center, start_idx,
                 end_idx, search, gridPath, why>>

\* getPath, and the ends snapped to the points that were asked for.
TakePath ==
  /\ stage = "found"
  /\ Len(gridPath) >= 2
  /\ stage' = "done"
  /\ LET path == Reverse([n \in DOMAIN gridPath |-> Index2Coord(gridPath[n])])
     IN route' = [path EXCEPT ![1] = scene.start,
                              ![Len(path)] = scene.goal]
  /\ UNCHANGED <<scene, smha_w, attempt, coarse_g, rounds, center, start_idx,
                 end_idx, search, gridPath, why>>

SearchInit ==
  /\ smha_w \in Weights
  /\ stage = "ready"
  /\ attempt = 1
  /\ coarse_g = CoarseField
  /\ rounds = 0
  /\ center = <<0, 0, 0>>
  /\ start_idx = CenterIdx
  /\ end_idx = CenterIdx
  /\ pool = <<>>
  /\ openSet_anchor = <<>>
  /\ openSet_inadmis = <<>>
  /\ gridPath = <<>>
  /\ why = "none"
  /\ route = <<>>

SearchNext ==
  \/ BeginSearch \/ Seed \/ DropStale \/ ReachGoal \/ Expand \/ Exhaust
  \/ Elevate \/ StraightLine \/ TakePath

-----------------------------------------------------------------------------
(* Properties.                                                             *)

\* What there is to find, computed without queues: the cheapest way from the
\* start cell to every cell, over free cells inside the ring.
FreeMoves(c) ==
  [n \in {m \in {Plus(c, o) : o \in Offsets} :
            Inner(m) /\ ~Gated(Index2Coord(m))} |->
     StepCost(Minus(n, c)) * (1 + RiskCost(Index2Coord(n)))]
TrueCosts ==
  LET cells == (0..(Pool[1] - 1)) \X (0..(Pool[2] - 1)) \X (0..(Pool[3] - 1))
  IN Cheapest(start_idx,
              [c \in {c \in cells : c = start_idx \/ Inner(c)} |-> FreeMoves(c)])

\* A search that ran dry says there is no way; then there is none, although
\* the pool still holds the nodes of the search before (dyn_a_star.cpp: the
\* round stamp of the neighbour loop).
FailureIsHonest ==
  stage = "failed" /\ why = "exhausted" => end_idx \notin DOMAIN TrueCosts

\* The retrieved path starts and ends where it should, moves one free cell
\* at a time, and costs what the goal's score says: no link of it belongs to
\* an earlier search (retrievePath).
PathIsOfThisSearch ==
  stage = "found" =>
    LET n == Len(gridPath)
        Move(i) == Minus(gridPath[i], gridPath[i + 1])
        Cost(i) == StepCost(Move(i)) * (1 + RiskCost(Index2Coord(gridPath[i])))
        toGo[i \in 1..n] == IF i = n THEN 0 ELSE Cost(i) + toGo[i + 1]
    IN /\ gridPath[1] = end_idx
       /\ gridPath[n] = start_idx
       /\ \A i \in 1..(n - 1) :
            /\ Move(i) \in Offsets
            /\ Inner(gridPath[i])
            /\ ~Gated(Index2Coord(gridPath[i]))
       /\ toGo[1] = pool[end_idx].gScore

\* The anchor queue "bounds suboptimality": a path found costs at most the
\* weight times the cheapest one (dyn_a_star.h:156-158).  The code does not keep
\* that: an improved node changes its key where its stale entry waits, so a
\* better node pushed below that entry is not popped in time; and a node that
\* the inadmissible queue closed is never opened again.
SuboptimalityBounded ==
  stage = "found" =>
    1000 * pool[end_idx].gScore <= smha_w * TieBreak * TrueCosts[end_idx]

=============================================================================
