----------------------------- MODULE SolveLoop -----------------------------
(***************************************************************************)
(* PolyTrajOptimizer::OptimizeTrajectory_lbfgs and checkCollision: the     *)
(* minimizer is re-entered after a failure that fresh memory may cure, the *)
(* trajectory is rebuilt from the last accepted point, audited against     *)
(* the flight envelope, the terrain and the obstacles, and given to the    *)
(* caller or discarded.  One optimizer serves plan after plan.             *)
(*                                                                         *)
(* A problem is [cost, still, flight]: the cost level of every point, the  *)
(* points with a small gradient, and what the audit samples of the         *)
(* trajectory each point stands for: [samples, terrain, box].  The seed is *)
(* the first point and its cost is a number.  Variable packing, parameter  *)
(* values and the logged profiles are left out.                            *)
(*                                                                         *)
(* X_mutant is a plausible wrong X, used to show that the checks can fail. *)
(***************************************************************************)
EXTENDS Minimizer, FiniteSets

CONSTANTS
  Seed,             \* the point the route's seed is
  MaxRestarts,      \* 4 in the code
  MaxBudgetEntries, \* 3: restarts after a spent budget
  CollisionReject,  \* optimization/collision_reject
  EnvReject,        \* optimization/audit_envelope_reject
  DynamicsEnable,   \* optimization/dynamics_enable
  EnvMax,           \* audit_envelope_violation_max, percent
  EnvHardMax        \* audit_envelope_violation_hard_max, percent

\* What the audit sees of a sample: no valid model, not at cruise yet, too slow
\* to fly, inside its envelope or outside it.
SampleKinds == {"invalid", "inactive", "stalled", "within", "beyond"}

ASSUME SolveAssumption ==
  /\ Seed \in Points
  /\ \A o \in Objectives :
       /\ o.cost \in [Points -> Nat \cup {NotFinite}]
       /\ o.cost[Seed] # NotFinite
       /\ \A p \in Points : o.flight[p].samples \in Seq(SampleKinds)
  /\ MaxRestarts \in Nat /\ MaxBudgetEntries \in Nat
  /\ {EnvMax, EnvHardMax} \subseteq Nat /\ EnvMax <= EnvHardMax
  /\ {CollisionReject, EnvReject, DynamicsEnable} \subseteq BOOLEAN

VARIABLES
  restarts, maxiter_restarts,
  hit_maxiter,  \* last_solve_hit_maxiter_
  env,          \* last_env_viol_frac_ as <<violations, samples>>
  verdict,      \* what the call returned
  spent         \* what really happened: a pass of this solve spent its budget

svars == <<restarts, maxiter_restarts, hit_maxiter, env, verdict, spent>>
vars == <<mvars, svars>>

-----------------------------------------------------------------------------
\* A call: the problem's seed, counters and flags reset.
Call ==
  /\ pc = "idle"
  /\ obj' \in Objectives
  /\ q' = Seed
  /\ restarts' = 0
  /\ maxiter_restarts' = 0
  /\ hit_maxiter' = FALSE
  /\ spent' = FALSE
  /\ verdict' = "none"
  /\ pc' = "enter"
  /\ UNCHANGED <<jerkOpt, fx, result, trials, k, end, lm, pf, dir, steps, env>>

Minimize == Optimize /\ UNCHANGED svars

\* After a pass.  The flag stays up for the whole solve: a spent budget is not
\* laundered by a later pass that ends well.
IsMaxiter == result = "MAXIMUMITERATION"

Sticky_mutant(flag) == IsMaxiter
Sticky(flag) == flag \/ IsMaxiter

Recoverable ==
  \/ result \in {"MAXIMUMLINESEARCH", "ROUNDING_ERROR", "MINIMUMSTEP"}
  \/ IsMaxiter /\ maxiter_restarts < MaxBudgetEntries

\* The cost of a rejected trial may not be finite: it is recomputed at q.
Recomputed == Recoverable /\ fx = NotFinite
FinalCost == IF Recomputed THEN obj.cost[q] ELSE fx

Again == Recoverable /\ restarts < MaxRestarts /\ FinalCost # NotFinite

Restart ==
  /\ pc = "judge"
  /\ Again
  /\ hit_maxiter' = Sticky(hit_maxiter)
  /\ spent' = (spent \/ IsMaxiter)
  /\ fx' = FinalCost
  /\ jerkOpt' = IF Recomputed THEN q ELSE jerkOpt
  /\ restarts' = restarts + 1
  /\ maxiter_restarts' = maxiter_restarts + IF IsMaxiter THEN 1 ELSE 0
  /\ pc' = "enter"
  /\ UNCHANGED <<obj, q, result, trials, k, end, lm, pf, dir, steps, env,
                 verdict>>

\* The loop ends, and the trajectory is rebuilt from the last accepted point.
Regenerated_mutant(p) == IF Recomputed THEN p ELSE jerkOpt
Regenerated(p) == p

LeaveLoop ==
  /\ pc = "judge"
  /\ ~Again
  /\ hit_maxiter' = Sticky(hit_maxiter)
  /\ spent' = (spent \/ IsMaxiter)
  /\ fx' = FinalCost
  /\ jerkOpt' = Regenerated(q)
  /\ pc' = "audit"
  /\ UNCHANGED <<obj, q, result, trials, k, end, lm, pf, dir, steps, restarts,
                 maxiter_restarts, env, verdict>>

-----------------------------------------------------------------------------
\* checkCollision.  A sample without a valid model is skipped; the ramp before
\* cruise is not counted, a slow stretch after it is a violation.
Counted1(acc, s) ==
  CASE s = "invalid" -> acc
    [] s \in {"inactive", "stalled"} ->
         IF acc.cruised THEN [acc EXCEPT !.n = @ + 1, !.viol = @ + 1] ELSE acc
    [] s = "within" -> [acc EXCEPT !.cruised = TRUE, !.n = @ + 1]
    [] s = "beyond" ->
         [acc EXCEPT !.cruised = TRUE, !.n = @ + 1, !.viol = @ + 1]

Tally(samples) ==
  LET tally[i \in 0..Len(samples)] ==
        IF i = 0 THEN [cruised |-> FALSE, n |-> 0, viol |-> 0]
        ELSE Counted1(tally[i - 1], samples[i])
  IN tally[Len(samples)]

Envelope(flight) ==
  LET acc == Tally(flight.samples)
  IN IF acc.n > 0 THEN <<acc.viol, acc.n>>
     ELSE IF DynamicsEnable THEN <<1, 1>> ELSE <<0, 1>>

Collides(flight) == flight.terrain < 0 \/ flight.box < 0

Above(e, percent) == 100 * e[1] > percent * e[2]

\* The gates: a collision; an envelope condemned together with a failure to
\* converge; an envelope beyond the hard ceiling.
Rejects(flight, e) ==
  \/ CollisionReject /\ Collides(flight)
  \/ /\ EnvReject
     /\ result \in Errors \/ hit_maxiter
     /\ Above(e, EnvMax)
  \/ EnvReject /\ Above(e, EnvHardMax)

Audit ==
  /\ pc = "audit"
  /\ env' = Envelope(obj.flight[jerkOpt])
  /\ verdict' = IF Rejects(obj.flight[jerkOpt], env')
                THEN "discarded" ELSE "published"
  /\ pc' = "idle"
  /\ UNCHANGED <<obj, q, jerkOpt, fx, result, trials, k, end, lm, pf, dir,
                 steps, restarts, maxiter_restarts, hit_maxiter, spent>>

-----------------------------------------------------------------------------
Init ==
  /\ obj \in Objectives
  /\ pc = "idle"
  /\ q = Seed /\ jerkOpt = Seed
  /\ fx = 0 /\ result = "none" /\ trials = 0
  /\ k = 1 /\ end = 0
  /\ lm = [s \in Slots |-> NoPair]
  /\ pf = [i \in 0..(Past - 1) |-> 0]
  /\ dir = <<>> /\ steps = <<>>
  /\ restarts = 0 /\ maxiter_restarts = 0 /\ hit_maxiter = FALSE
  /\ env = <<0, 1>> /\ verdict = "none" /\ spent = FALSE

Next == Call \/ Minimize \/ Restart \/ LeaveLoop \/ Audit

\* The solve is one thread that never waits.
Spec ==
  Init /\ [][Next]_vars
       /\ WF_vars(Minimize \/ Restart \/ LeaveLoop \/ Audit)

-----------------------------------------------------------------------------
\* What the caller is given was built from the last accepted point, whose cost
\* is a number and no worse than the seed's or that of any point its newest
\* steps left behind, whatever trial the solve ended on
\* (poly_traj_optimizer.cpp:1736-1747).
FlownIsBest ==
  pc = "idle" /\ verdict = "published" =>
    /\ jerkOpt = q
    /\ obj.cost[q] # NotFinite
    /\ obj.cost[q] <= obj.cost[Seed]
    /\ \A s \in Range(steps) : obj.cost[q] <= obj.cost[s.from]

\* The samples that count: from the first one at cruise speed on.
Cruise(f) ==
  {i \in DOMAIN f.samples :
     /\ f.samples[i] # "invalid"
     /\ \E j \in 1..i : f.samples[j] \in {"within", "beyond"}}
Unfit(f) == {i \in Cruise(f) : f.samples[i] # "within"}

Share(f, percent) ==
  IF Cruise(f) = {} THEN DynamicsEnable /\ percent < 100
  ELSE 100 * Cardinality(Unfit(f)) > percent * Cardinality(Cruise(f))

\* A trajectory is judged by its own audit and by everything that happened in
\* its solve: given out only when it hits nothing, keeps its envelope, and
\* keeps the stricter one if any pass spent its budget or the last one failed;
\* discarded for nothing else (poly_traj_optimizer.cpp:1701-1706,
\* 1767-1814).
JudgedByThisFlight ==
  pc = "idle" /\ verdict # "none" =>
    LET f == obj.flight[q]
        doubtful == spent \/ result \in Errors
    IN (verdict = "discarded") =
         \/ CollisionReject /\ (f.terrain < 0 \/ f.box < 0)
         \/ EnvReject /\ Share(f, IF doubtful THEN EnvMax ELSE EnvHardMax)

\* Every direction is made of the newest pairs with curvature of this pass, in
\* order, as many as the memory holds: a pair skipped for want of curvature is
\* never used and pushes none out (lbfgs.hpp:1288-1349).
MemoryIsRecentPairs ==
  pc = "search" /\ dir # <<>> =>
    dir = SubSeq(CurvedPairs, 1, Lesser(MemSize, Len(CurvedPairs)))

\* The last step's pair had no curvature.
Flat == pc = "search" /\ steps # <<>> /\ ~Last(steps).curved

\* A call returns, unless from some step on no pair has curvature: the budget
\* does not count those iterations (lbfgs.hpp:1281-1323).
SolveEnds == [](pc # "idle" => <>(pc = "idle" \/ []Flat))
=============================================================================
