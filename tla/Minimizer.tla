----------------------------- MODULE Minimizer -----------------------------
(***************************************************************************)
(* lbfgs::lbfgs_optimize (lbfgs.hpp) as the trajectory optimizer uses it:  *)
(* a line search per iteration, a ring of correction pairs the next        *)
(* direction is made of, a ring of past costs for the plateau test, and an *)
(* iteration budget.                                                       *)
(*                                                                         *)
(* A point stands for a vector of decision variables.  What is numeric is  *)
(* abstracted to what decides control: costs to levels, two costs of one   *)
(* level differing by less than the plateau test sees; whether a gradient  *)
(* is small; whether a step's pair has curvature.  The interval of         *)
(* uncertainty and its interpolation are left out: a trial may be any      *)
(* point, and may meet the edge of its interval at any time.  A pair       *)
(* without curvature comes from a step too short to change the level.      *)
(*                                                                         *)
(* X_mutant is a plausible wrong X, used to show that the checks can fail. *)
(***************************************************************************)
EXTENDS Integers, Sequences, SequencesExt

CONSTANTS
  Points,         \* what the decision variables can be
  Objectives,     \* the problems [cost, still, flight]; see SolveLoop
  MemSize,        \* mem_size
  Past,           \* past
  MaxIterations,  \* max_iterations
  MaxTrials       \* max_linesearch

ASSUME MinimizerAssumption ==
  {MemSize, Past, MaxIterations, MaxTrials} \subseteq Nat \ {0}

\* Costs that are not numbers; an error of the line search or the budget.
NotFinite == -1
Errors == {"ROUNDING_ERROR", "MINIMUMSTEP", "MAXIMUMSTEP",
           "MAXIMUMLINESEARCH", "INCREASEGRADIENT", "MAXIMUMITERATION"}

VARIABLES
  obj,      \* the problem being solved
  pc,       \* what happens next
  q,        \* the decision variables: the last accepted point
  jerkOpt,  \* the point the callback last built a trajectory from
  fx,       \* the cost lbfgs_optimize reports
  result,   \* its status code
  trials,   \* count: evaluations of this line search
  k, end,   \* iteration and next slot of the ring
  lm,       \* the ring: a pair of points, or none
  pf,       \* past costs
  dir,      \* pairs the direction was made of, the newest first
  steps     \* what really happened in this pass: the newest steps taken,
            \* [from, to, curved], curved when the step's pair had curvature

mvars == <<obj, pc, q, jerkOpt, fx, result, trials, k, end, lm, pf, dir,
           steps>>

Slots == 0..(MemSize - 1)
NoPair == <<>>
Lesser(a, b) == IF a < b THEN a ELSE b

\* A step without curvature is forgotten at the next one; then the last MemSize
\* steps are all that is ever asked about.
Curved(s) == IF s # <<>> /\ ~Last(s).curved THEN Front(s) ELSE s
Recent(s) == SubSeq(s, Len(s) - Lesser(Len(s), MemSize) + 1, Len(s))
Noted(p, curved) ==
  Append(Recent(Curved(steps)), [from |-> q, to |-> p, curved |-> curved])

-----------------------------------------------------------------------------
\* A pass starts from q with a fresh memory: steepest descent.
Enter ==
  /\ pc = "enter"
  /\ jerkOpt' = q
  /\ fx' = obj.cost[q]
  /\ k' = 1
  /\ end' = 0
  /\ lm' = [s \in Slots |-> NoPair]
  /\ pf' = [i \in 0..(Past - 1) |-> IF i = 0 THEN obj.cost[q] ELSE 0]
  /\ dir' = <<>>
  /\ steps' = <<>>
  /\ trials' = 0
  /\ IF q \in obj.still
     THEN result' = "ALREADY_MINIMIZED" /\ pc' = "judge"
     ELSE result' = "none" /\ pc' = "search"
  /\ UNCHANGED <<obj, q>>

\* The direction does not descend: nothing is evaluated.
SearchRefused ==
  /\ pc = "search"
  /\ trials = 0
  /\ result' = "INCREASEGRADIENT"
  /\ pc' = "judge"
  /\ UNCHANGED <<obj, q, jerkOpt, fx, trials, k, end, lm, pf, dir, steps>>

Lowers(p) == obj.cost[p] # NotFinite /\ obj.cost[p] <= obj.cost[q]

\* Why a trial at p ends the search without success; a bracket, whose edge the
\* rounding test is about, takes an earlier trial.
Failures(p) ==
  IF obj.cost[p] = NotFinite THEN {"ROUNDING_ERROR"}
  ELSE {"MINIMUMSTEP"}
         \cup (IF trials > 0 THEN {"ROUNDING_ERROR"} ELSE {})
         \cup (IF Lowers(p) THEN {"MAXIMUMSTEP"} ELSE {})
         \cup (IF trials + 1 >= MaxTrials THEN {"MAXIMUMLINESEARCH"} ELSE {})

\* A failed search reverts the variables to q, not the cost and not what the
\* callback built.
TrialFails ==
  /\ pc = "search"
  /\ \E p \in Points :
       /\ jerkOpt' = p
       /\ fx' = obj.cost[p]
       /\ result' \in Failures(p)
  /\ pc' = "judge"
  /\ UNCHANGED <<obj, q, trials, k, end, lm, pf, dir, steps>>

\* No reason to stop: the next trial.
TrialAgain ==
  /\ pc = "search"
  /\ trials + 1 < MaxTrials
  /\ \E p \in Points :
       /\ obj.cost[p] # NotFinite
       /\ jerkOpt' = p
       /\ fx' = obj.cost[p]
  /\ trials' = trials + 1
  /\ UNCHANGED <<obj, pc, q, result, k, end, lm, pf, dir, steps>>

\* The search succeeds: the variables move.
Move(p) ==
  /\ pc = "search"
  /\ trials + 1 < MaxTrials
  /\ Lowers(p)
  /\ q' = p
  /\ jerkOpt' = p
  /\ fx' = obj.cost[p]
  /\ trials' = 0

Plateau(p) == Past <= k /\ pf[k % Past] = obj.cost[p]

\* The tests that end the pass after a step, in order.
Converged ==
  \E p \in Points, curved \in BOOLEAN :
    /\ Move(p)
    /\ curved \/ obj.cost[p] = obj.cost[q]
    /\ steps' = Noted(p, curved)
    /\ \/ p \in obj.still /\ result' = "CONVERGENCE" /\ UNCHANGED pf
       \/ /\ p \notin obj.still
          /\ Plateau(p)
          /\ result' = "STOP"
          /\ UNCHANGED pf
       \/ /\ p \notin obj.still
          /\ ~Plateau(p)
          /\ MaxIterations < k + 1
          /\ pf' = [pf EXCEPT ![k % Past] = obj.cost[p]]
          /\ result' = "MAXIMUMITERATION"
    /\ pc' = "judge"
    /\ UNCHANGED <<obj, k, end, lm, dir>>

\* The pair goes to the ring in any case; it counts when it has curvature.
Advance_mutant(e, curved) == (e + 1) % MemSize
Advance(e, curved) == IF curved THEN (e + 1) % MemSize ELSE e

Counted_mutant(n, curved) == n
Counted(n, curved) == IF curved THEN n + 1 ELSE n

Iterate ==
  \E p \in Points, curved \in BOOLEAN :
    /\ Move(p)
    /\ curved \/ obj.cost[p] = obj.cost[q]
    /\ p \notin obj.still
    /\ ~Plateau(p)
    /\ MaxIterations >= k + 1
    /\ pf' = [pf EXCEPT ![k % Past] = obj.cost[p]]
    /\ lm' = [lm EXCEPT ![end] = <<q, p>>]
    /\ k' = Counted(k, curved)
    /\ end' = Advance(end, curved)
    /\ dir' = IF ~curved THEN <<>>
              ELSE [i \in 1..Lesser(MemSize, k) |->
                      lm'[(end' + MemSize * MemSize - i) % MemSize]]
    /\ steps' = Noted(p, curved)
    /\ UNCHANGED <<obj, pc, result>>

Optimize ==
  \/ Enter \/ SearchRefused \/ TrialFails \/ TrialAgain \/ Converged \/ Iterate

-----------------------------------------------------------------------------
\* The curved pairs of this pass, the newest first.
CurvedPairs ==
  LET made == Curved(steps)
      newest(n) == made[Len(made) + 1 - n]
  IN [n \in 1..Len(made) |-> <<newest(n).from, newest(n).to>>]
=============================================================================
