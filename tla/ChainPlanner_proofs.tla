------------------------ MODULE ChainPlanner_proofs ------------------------
(***************************************************************************)
(* Proofs about ChainPlanner for every route length, number of segments    *)
(* and set of override declarations.                                       *)
(*                                                                         *)
(* Inv is about the plan's frame: for each place the plan can stand at,    *)
(* whose flight is in the slot, which parameters are applied, and whether  *)
(* a transition leads to the route.  From it follow the contract with the  *)
(* state machine, the parameters, the transition and the flight            *)
(* evaluation.                                                             *)
(*                                                                         *)
(* ChainInv is about the chain: the junctions that were authored, the runs *)
(* that were solved on each rung of the ladder, and what is left to try.   *)
(* From it follow the types, the hard limits, the seams, the phase labels  *)
(* and the meaning of SUCCESS.                                             *)
(***************************************************************************)
EXTENDS ChainPlanner, TLAPS, SequenceTheorems, FiniteSetTheorems,
        WellFoundedInduction

\* Until something is stored the slot is the one the plan was entered with.
SlotInv ==
  /\ held \in {"none", "old"}
  /\ slot \in {"none", "old", "new"}
  /\ pc \in {"enter", "transition", "dispatch", "size", "author", "solve",
             "retry", "direct", "fallback", "stitch"} => slot = held

\* Overrides are applied only inside the fallback and the baseline segments.
ParamInv ==
  /\ pc \notin {"fallback", "segments"} =>
       params = NoOverride /\ optimizer = NoOverride
  /\ flight.verdict \in Verdicts => flight.judged = NoOverride

\* Past its generation a transition mission always carries its prefix, and
\* the paths that have none are never its.
StartInv ==
  /\ job.start \in {"cruise", "transition", "unsupported"}
  /\ pc \in {"size", "author", "solve", "retry", "direct", "stitch"} =>
       \/ job.start = "cruise"
       \/ job.start = "transition" /\ prefix
  /\ pc \in {"dispatch", "fallback", "judge", "segments",
             "stitch_segments"} => job.start = "cruise"
  /\ pc = "transition" => job.start = "transition"

Inv ==
  /\ SlotInv
  /\ ParamInv
  /\ StartInv
  /\ TransitionNeverReplanned
  /\ FitForFlight

-----------------------------------------------------------------------------
(***************************************************************************)
(* Answers.                                                                *)
(***************************************************************************)

\* Degrading never makes a flight of a refusal, nor a refusal of a flight.
LEMMA SettledRefusal ==
  ASSUME NEW reason
  PROVE  Settled(Failed(reason)) = Failed(reason)
  BY DEF Settled, Failed, Degrade

\* A flight stays one, and a degraded one stays degraded.
LEMMA SettledFlight ==
  ASSUME NEW r, r.outcome \in {"SUCCESS", "DEGRADED"}
  PROVE  /\ Settled(r).outcome \in {"SUCCESS", "DEGRADED"}
         /\ r.outcome = "DEGRADED" => Settled(r).outcome = "DEGRADED"
  BY DEF Settled, Degrade

\* Which outcomes the constructors of an answer have.
LEMMA Outcomes ==
  /\ Success.outcome = "SUCCESS"
  /\ \A reason : Degrade(Success, reason).outcome = "DEGRADED"
  /\ DirectResult.outcome \in {"SUCCESS", "DEGRADED"}
  /\ StitchedResult.outcome \in {"SUCCESS", "DEGRADED"}
  /\ \A r, v : r.outcome \in {"SUCCESS", "DEGRADED"} =>
       /\ Budgeted(r, v).outcome \in {"SUCCESS", "DEGRADED"}
       /\ v = "hot" => Budgeted(r, v).outcome = "DEGRADED"
  BY DEF Success, Degrade, DirectResult, StitchedResult, Budgeted

\* A refusal never claims a trajectory.
LEMMA RefusalsDeliverNothing ==
  ASSUME NEW reason
  PROVE  ~HasTrajectory(Settled(Failed(reason)))
  BY SettledRefusal DEF HasTrajectory, Failed

\* What an answer says of the outcome is what the plan settled on.
LEMMA AnswerOutcomes ==
  /\ \A reason : Settled(Failed(reason)).outcome = "FAILED"
  /\ Settled(Success).outcome \in {"SUCCESS", "DEGRADED"}
  /\ \A reason :
       Settled(Degrade(Success, reason)).outcome \in {"SUCCESS", "DEGRADED"}
  /\ Settled(DirectResult).outcome \in {"SUCCESS", "DEGRADED"}
  /\ \A v : /\ Settled(Budgeted(StitchedResult, v)).outcome
                \in {"SUCCESS", "DEGRADED"}
            /\ Settled(Budgeted(Success, v)).outcome
                \in {"SUCCESS", "DEGRADED"}
  BY DEF Settled, Failed, Success, Degrade, DirectResult, StitchedResult,
         Budgeted

\* A flight over its envelope is never answered as a plain success.
LEMMA HotIsDegraded ==
  ASSUME NEW r, r.outcome \in {"SUCCESS", "DEGRADED"}
  PROVE  Settled(Budgeted(r, "hot")) # Success
  <1>1. Budgeted(r, "hot").outcome = "DEGRADED"
    BY DEF Budgeted, Degrade
  <1>2. Settled(Budgeted(r, "hot")).outcome = "DEGRADED"
    BY <1>1, SettledFlight
  <1> QED
    BY <1>2 DEF Success

\* Which flights the evaluation has spoken about, and under what.
LEMMA FlightFields ==
  /\ NoFlight.verdict = "unjudged" /\ NoFlight.judged = NoOverride
  /\ BaselineFlight.verdict = "unjudged" /\ BaselineFlight.kind = "baseline"
  /\ \A kind, rs, v :
       /\ Flight(kind, rs, v).verdict = v
       /\ Flight(kind, rs, v).kind = kind
       /\ Flight(kind, rs, v).prefix = prefix
       /\ params = NoOverride => Flight(kind, rs, v).judged = NoOverride
  BY DEF NoFlight, BaselineFlight, Flight

\* The evaluation never answers that it did not judge.
LEMMA UnjudgedIsNoVerdict == "unjudged" \notin Verdicts
  BY DEF Verdicts

-----------------------------------------------------------------------------
(***************************************************************************)
(* Every step keeps the parts of the invariant.                            *)
(***************************************************************************)

\* Stored on the way, a flight shows in the slot only at the answer.
LEMMA SlotStep ==
  ASSUME SlotInv, [Next]_vars
  PROVE  SlotInv'
  <1> USE DEF SlotInv, KeepSlot, Refuse, Answer, Store, Invalidate, vars,
    entryVars, phaseVars, chainVars, ladderVars, tuningVars, answerVars
  <1>1. CASE Begin
    BY <1>1 DEF Begin
  <1>2. CASE Enter
    BY <1>2 DEF Enter
  <1>3. CASE Transition
    BY <1>3 DEF Transition
  <1>4. CASE MultiWaypoint
    BY <1>4 DEF MultiWaypoint
  <1>5. CASE CommitRoute
    BY <1>5 DEF CommitRoute
  <1>6. CASE Size
    BY <1>6 DEF Size
  <1>7. CASE Author
    BY <1>7 DEF Author
  <1>8. CASE AuthorFails
    BY <1>8 DEF AuthorFails
  <1>9. ASSUME NEW bad \in SUBSET (1..segments), Solve(bad)
        PROVE  SlotInv'
    BY <1>9 DEF Solve
  <1>10. CASE RescueEdge
    BY <1>10 DEF RescueEdge
  <1>11. CASE Merge
    BY <1>11 DEF Merge
  <1>12. CASE RescueFails
    BY <1>12 DEF RescueFails
  <1>13. CASE Exhausted
    BY <1>13 DEF Exhausted
  <1>14. CASE ForbidDirect
    BY <1>14 DEF ForbidDirect
  <1>15. CASE ApplyHardLimits
    BY <1>15 DEF ApplyHardLimits
  <1>16. CASE PlanDirect
    BY <1>16 DEF PlanDirect
  <1>17. CASE JudgeDirect
    BY <1>17 DEF JudgeDirect
  <1>18. CASE Stitch
    BY <1>18 DEF Stitch
  <1>19. CASE Baseline
    BY <1>19 DEF Baseline
  <1>20. CASE SolveSegment
    BY <1>20 DEF SolveSegment
  <1>21. CASE RestoreBeforeStitch
    BY <1>21 DEF RestoreBeforeStitch
  <1>22. CASE StitchSegments
    BY <1>22 DEF StitchSegments
  <1>23. CASE Return
    BY <1>23 DEF Return
  <1>24. CASE UNCHANGED vars
    BY <1>24
  <1> QED
    BY <1>1, <1>2, <1>3, <1>4, <1>5, <1>6, <1>7, <1>8, <1>9, <1>10, <1>11,
      <1>12, <1>13, <1>14, <1>15, <1>16, <1>17, <1>18, <1>19, <1>20, <1>21,
      <1>22, <1>23, <1>24 DEF Next

\* What applies overrides also takes them off, on each of its ways out.
LEMMA ParamStep ==
  ASSUME ParamInv, [Next]_vars
  PROVE  ParamInv'
  <1> USE DEF ParamInv, KeepSlot, Refuse, Answer, Store, Invalidate,
    RestoreParams, vars, entryVars, phaseVars, chainVars, ladderVars,
    tuningVars, answerVars
  <1>1. CASE Begin
    BY <1>1, FlightFields, UnjudgedIsNoVerdict DEF Begin
  <1>2. CASE Enter
    BY <1>2, FlightFields, UnjudgedIsNoVerdict DEF Enter
  <1>3. CASE Transition
    BY <1>3, FlightFields, UnjudgedIsNoVerdict DEF Transition
  <1>4. CASE MultiWaypoint
    BY <1>4, FlightFields, UnjudgedIsNoVerdict DEF MultiWaypoint
  <1>5. CASE CommitRoute
    BY <1>5, FlightFields, UnjudgedIsNoVerdict DEF CommitRoute
  <1>6. CASE Size
    BY <1>6, FlightFields, UnjudgedIsNoVerdict DEF Size
  <1>7. CASE Author
    BY <1>7, FlightFields, UnjudgedIsNoVerdict DEF Author
  <1>8. CASE AuthorFails
    BY <1>8, FlightFields, UnjudgedIsNoVerdict DEF AuthorFails
  <1>9. ASSUME NEW bad \in SUBSET (1..segments), Solve(bad)
        PROVE  ParamInv'
    BY <1>9, FlightFields, UnjudgedIsNoVerdict DEF Solve
  <1>10. CASE RescueEdge
    BY <1>10, FlightFields, UnjudgedIsNoVerdict DEF RescueEdge
  <1>11. CASE Merge
    BY <1>11, FlightFields, UnjudgedIsNoVerdict DEF Merge
  <1>12. CASE RescueFails
    BY <1>12, FlightFields, UnjudgedIsNoVerdict DEF RescueFails
  <1>13. CASE Exhausted
    BY <1>13, FlightFields, UnjudgedIsNoVerdict DEF Exhausted
  <1>14. CASE ForbidDirect
    BY <1>14, FlightFields, UnjudgedIsNoVerdict DEF ForbidDirect
  <1>15. CASE ApplyHardLimits
    BY <1>15, FlightFields, UnjudgedIsNoVerdict DEF ApplyHardLimits
  <1>16. CASE PlanDirect
    BY <1>16, FlightFields, UnjudgedIsNoVerdict DEF PlanDirect
  <1>17. CASE JudgeDirect
    BY <1>17, FlightFields, UnjudgedIsNoVerdict DEF JudgeDirect
  <1>18. CASE Stitch
    BY <1>18, FlightFields, UnjudgedIsNoVerdict DEF Stitch
  <1>19. CASE Baseline
    BY <1>19, FlightFields, UnjudgedIsNoVerdict DEF Baseline
  <1>20. CASE SolveSegment
    BY <1>20, FlightFields, UnjudgedIsNoVerdict DEF SolveSegment
  <1>21. CASE RestoreBeforeStitch
    BY <1>21, FlightFields, UnjudgedIsNoVerdict DEF RestoreBeforeStitch
  <1>22. CASE StitchSegments
    BY <1>22, FlightFields, UnjudgedIsNoVerdict DEF StitchSegments
  <1>23. CASE Return
    BY <1>23, FlightFields, UnjudgedIsNoVerdict DEF Return
  <1>24. CASE UNCHANGED vars
    BY <1>24, FlightFields, UnjudgedIsNoVerdict
  <1> QED
    BY <1>1, <1>2, <1>3, <1>4, <1>5, <1>6, <1>7, <1>8, <1>9, <1>10, <1>11,
      <1>12, <1>13, <1>14, <1>15, <1>16, <1>17, <1>18, <1>19, <1>20, <1>21,
      <1>22, <1>23, <1>24 DEF Next

\* Only the generation of its prefix lets a transition mission past.
LEMMA StartStep ==
  ASSUME StartInv, [Next]_vars
  PROVE  StartInv'
  <1> USE DEF StartInv, KeepSlot, Refuse, Answer, Store, Invalidate,
    DirectAllowed, vars, entryVars, phaseVars, chainVars, ladderVars,
    tuningVars, answerVars
  <1>1. CASE Begin
    BY <1>1 DEF Begin, Jobs
  <1>2. CASE Enter
    BY <1>2 DEF Enter
  <1>3. CASE Transition
    BY <1>3 DEF Transition
  <1>4. CASE MultiWaypoint
    BY <1>4 DEF MultiWaypoint
  <1>5. CASE CommitRoute
    BY <1>5 DEF CommitRoute
  <1>6. CASE Size
    BY <1>6 DEF Size
  <1>7. CASE Author
    BY <1>7 DEF Author
  <1>8. CASE AuthorFails
    BY <1>8 DEF AuthorFails
  <1>9. ASSUME NEW bad \in SUBSET (1..segments), Solve(bad)
        PROVE  StartInv'
    BY <1>9 DEF Solve
  <1>10. CASE RescueEdge
    BY <1>10 DEF RescueEdge
  <1>11. CASE Merge
    BY <1>11 DEF Merge
  <1>12. CASE RescueFails
    BY <1>12 DEF RescueFails
  <1>13. CASE Exhausted
    BY <1>13 DEF Exhausted
  <1>14. CASE ForbidDirect
    BY <1>14 DEF ForbidDirect
  <1>15. CASE ApplyHardLimits
    BY <1>15 DEF ApplyHardLimits
  <1>16. CASE PlanDirect
    BY <1>16 DEF PlanDirect
  <1>17. CASE JudgeDirect
    BY <1>17 DEF JudgeDirect
  <1>18. CASE Stitch
    BY <1>18 DEF Stitch
  <1>19. CASE Baseline
    BY <1>19 DEF Baseline
  <1>20. CASE SolveSegment
    BY <1>20 DEF SolveSegment
  <1>21. CASE RestoreBeforeStitch
    BY <1>21 DEF RestoreBeforeStitch
  <1>22. CASE StitchSegments
    BY <1>22 DEF StitchSegments
  <1>23. CASE Return
    BY <1>23 DEF Return, IdleJob
  <1>24. CASE UNCHANGED vars
    BY <1>24
  <1> QED
    BY <1>1, <1>2, <1>3, <1>4, <1>5, <1>6, <1>7, <1>8, <1>9, <1>10, <1>11,
      <1>12, <1>13, <1>14, <1>15, <1>16, <1>17, <1>18, <1>19, <1>20, <1>21,
      <1>22, <1>23, <1>24 DEF Next

\* Every answer with a flight comes from a path that has the transition.
LEMMA TransitionStep ==
  ASSUME StartInv, TransitionNeverReplanned, [Next]_vars
  PROVE  TransitionNeverReplanned'
  <1> USE DEF StartInv, TransitionNeverReplanned, Delivered, KeepSlot,
    Refuse, Answer, Store, Invalidate, vars, entryVars, phaseVars, chainVars,
    ladderVars, tuningVars, answerVars
  <1>1. CASE Begin
    BY <1>1, RefusalsDeliverNothing, FlightFields DEF Begin
  <1>2. CASE Enter
    BY <1>2, RefusalsDeliverNothing, FlightFields DEF Enter
  <1>3. CASE Transition
    BY <1>3, RefusalsDeliverNothing, FlightFields DEF Transition
  <1>4. CASE MultiWaypoint
    BY <1>4, RefusalsDeliverNothing, FlightFields DEF MultiWaypoint
  <1>5. CASE CommitRoute
    BY <1>5, RefusalsDeliverNothing, FlightFields DEF CommitRoute
  <1>6. CASE Size
    BY <1>6, RefusalsDeliverNothing, FlightFields DEF Size
  <1>7. CASE Author
    BY <1>7, RefusalsDeliverNothing, FlightFields DEF Author
  <1>8. CASE AuthorFails
    BY <1>8, RefusalsDeliverNothing, FlightFields DEF AuthorFails
  <1>9. ASSUME NEW bad \in SUBSET (1..segments), Solve(bad)
        PROVE  TransitionNeverReplanned'
    BY <1>9, RefusalsDeliverNothing, FlightFields DEF Solve
  <1>10. CASE RescueEdge
    BY <1>10, RefusalsDeliverNothing, FlightFields DEF RescueEdge
  <1>11. CASE Merge
    BY <1>11, RefusalsDeliverNothing, FlightFields DEF Merge
  <1>12. CASE RescueFails
    BY <1>12, RefusalsDeliverNothing, FlightFields DEF RescueFails
  <1>13. CASE Exhausted
    BY <1>13, RefusalsDeliverNothing, FlightFields DEF Exhausted
  <1>14. CASE ForbidDirect
    BY <1>14, RefusalsDeliverNothing, FlightFields DEF ForbidDirect
  <1>15. CASE ApplyHardLimits
    BY <1>15, RefusalsDeliverNothing, FlightFields DEF ApplyHardLimits
  <1>16. CASE PlanDirect
    BY <1>16, RefusalsDeliverNothing, FlightFields DEF PlanDirect
  <1>17. CASE JudgeDirect
    BY <1>17, RefusalsDeliverNothing, FlightFields DEF JudgeDirect
  <1>18. CASE Stitch
    BY <1>18, RefusalsDeliverNothing, FlightFields DEF Stitch
  <1>19. CASE Baseline
    BY <1>19, RefusalsDeliverNothing, FlightFields DEF Baseline
  <1>20. CASE SolveSegment
    BY <1>20, RefusalsDeliverNothing, FlightFields DEF SolveSegment
  <1>21. CASE RestoreBeforeStitch
    BY <1>21, RefusalsDeliverNothing, FlightFields DEF RestoreBeforeStitch
  <1>22. CASE StitchSegments
    BY <1>22, RefusalsDeliverNothing, FlightFields DEF StitchSegments
  <1>23. CASE Return
    BY <1>23, RefusalsDeliverNothing, FlightFields DEF Return
  <1>24. CASE UNCHANGED vars
    BY <1>24, RefusalsDeliverNothing, FlightFields
  <1> QED
    BY <1>1, <1>2, <1>3, <1>4, <1>5, <1>6, <1>7, <1>8, <1>9, <1>10, <1>11,
      <1>12, <1>13, <1>14, <1>15, <1>16, <1>17, <1>18, <1>19, <1>20, <1>21,
      <1>22, <1>23, <1>24 DEF Next

\* Every answer with a flight stores one that was judged fit, where a
\* judgement is due.
LEMMA FitStep ==
  ASSUME FitForFlight, [Next]_vars
  PROVE  FitForFlight'
  <1> USE DEF FitForFlight, Delivered, FitDirect, FitStitched, KeepSlot,
    Refuse, Answer, Store, Invalidate, vars, entryVars, phaseVars, chainVars,
    ladderVars, tuningVars, answerVars
  <1>1. CASE Begin
    BY <1>1, RefusalsDeliverNothing, FlightFields, HotIsDegraded, Outcomes
      DEF Begin
  <1>2. CASE Enter
    BY <1>2, RefusalsDeliverNothing, FlightFields, HotIsDegraded, Outcomes
      DEF Enter
  <1>3. CASE Transition
    BY <1>3, RefusalsDeliverNothing, FlightFields, HotIsDegraded, Outcomes
      DEF Transition
  <1>4. CASE MultiWaypoint
    BY <1>4, RefusalsDeliverNothing, FlightFields, HotIsDegraded, Outcomes
      DEF MultiWaypoint
  <1>5. CASE CommitRoute
    BY <1>5, RefusalsDeliverNothing, FlightFields, HotIsDegraded, Outcomes
      DEF CommitRoute
  <1>6. CASE Size
    BY <1>6, RefusalsDeliverNothing, FlightFields, HotIsDegraded, Outcomes
      DEF Size
  <1>7. CASE Author
    BY <1>7, RefusalsDeliverNothing, FlightFields, HotIsDegraded, Outcomes
      DEF Author
  <1>8. CASE AuthorFails
    BY <1>8, RefusalsDeliverNothing, FlightFields, HotIsDegraded, Outcomes
      DEF AuthorFails
  <1>9. ASSUME NEW bad \in SUBSET (1..segments), Solve(bad)
        PROVE  FitForFlight'
    BY <1>9, RefusalsDeliverNothing, FlightFields, HotIsDegraded, Outcomes
      DEF Solve
  <1>10. CASE RescueEdge
    BY <1>10, RefusalsDeliverNothing, FlightFields, HotIsDegraded, Outcomes
      DEF RescueEdge
  <1>11. CASE Merge
    BY <1>11, RefusalsDeliverNothing, FlightFields, HotIsDegraded, Outcomes
      DEF Merge
  <1>12. CASE RescueFails
    BY <1>12, RefusalsDeliverNothing, FlightFields, HotIsDegraded, Outcomes
      DEF RescueFails
  <1>13. CASE Exhausted
    BY <1>13, RefusalsDeliverNothing, FlightFields, HotIsDegraded, Outcomes
      DEF Exhausted
  <1>14. CASE ForbidDirect
    BY <1>14, RefusalsDeliverNothing, FlightFields, HotIsDegraded, Outcomes
      DEF ForbidDirect
  <1>15. CASE ApplyHardLimits
    BY <1>15, RefusalsDeliverNothing, FlightFields, HotIsDegraded, Outcomes
      DEF ApplyHardLimits
  <1>16. CASE PlanDirect
    BY <1>16, RefusalsDeliverNothing, FlightFields, HotIsDegraded, Outcomes
      DEF PlanDirect
  <1>17. CASE JudgeDirect
    BY <1>17, RefusalsDeliverNothing, FlightFields, HotIsDegraded, Outcomes
      DEF JudgeDirect
  <1>18. CASE Stitch
    BY <1>18, RefusalsDeliverNothing, FlightFields, HotIsDegraded, Outcomes
      DEF Stitch
  <1>19. CASE Baseline
    BY <1>19, RefusalsDeliverNothing, FlightFields, HotIsDegraded, Outcomes
      DEF Baseline
  <1>20. CASE SolveSegment
    BY <1>20, RefusalsDeliverNothing, FlightFields, HotIsDegraded, Outcomes
      DEF SolveSegment
  <1>21. CASE RestoreBeforeStitch
    BY <1>21, RefusalsDeliverNothing, FlightFields, HotIsDegraded, Outcomes
      DEF RestoreBeforeStitch
  <1>22. CASE StitchSegments
    BY <1>22, RefusalsDeliverNothing, FlightFields, HotIsDegraded, Outcomes
      DEF StitchSegments
  <1>23. CASE Return
    BY <1>23, RefusalsDeliverNothing, FlightFields, HotIsDegraded, Outcomes
      DEF Return
  <1>24. CASE UNCHANGED vars
    BY <1>24, RefusalsDeliverNothing, FlightFields, HotIsDegraded, Outcomes
  <1> QED
    BY <1>1, <1>2, <1>3, <1>4, <1>5, <1>6, <1>7, <1>8, <1>9, <1>10, <1>11,
      <1>12, <1>13, <1>14, <1>15, <1>16, <1>17, <1>18, <1>19, <1>20, <1>21,
      <1>22, <1>23, <1>24 DEF Next

\* The starting state satisfies the invariant.
LEMMA InitInv == Init => Inv
  BY DEF Init, Inv, SlotInv, ParamInv, StartInv, TransitionNeverReplanned,
         FitForFlight, Delivered, IdleJob, NoFlight, Verdicts

\* The inductive invariant holds in every reachable state.
THEOREM InductiveInv == Spec => []Inv
  <1>1. Inv /\ [Next]_vars => Inv'
    BY SlotStep, ParamStep, StartStep, TransitionStep, FitStep DEF Inv
  <1> QED
    BY <1>1, InitInv, PTL DEF Spec

-----------------------------------------------------------------------------
(***************************************************************************)
(* Results.                                                                *)
(***************************************************************************)

\* Overrides never outlive the segment they were applied for, in the node or
\* in the optimizer, on any way out of a plan.
THEOREM ParametersAreRestored == Spec => []ParametersRestored
  <1>1. Inv => ParametersRestored
    BY DEF Inv, ParamInv, ParametersRestored
  <1> QED
    BY <1>1, InductiveInv, PTL

\* No rung of the ladder flies a transition mission with the cruise model.
THEOREM TransitionsAreNotReplanned == Spec => []TransitionNeverReplanned
  <1>1. Inv => TransitionNeverReplanned
    BY DEF Inv
  <1> QED
    BY <1>1, InductiveInv, PTL

\* What was not judged fit is not delivered where a judgement is due, and what
\* is over its envelope is not delivered as a plain success.
THEOREM OnlyFitFlights == Spec => []FitForFlight
  <1>1. Inv => FitForFlight
    BY DEF Inv
  <1> QED
    BY <1>1, InductiveInv, PTL

-----------------------------------------------------------------------------
(***************************************************************************)
(* The contract with the state machine.                                    *)
(***************************************************************************)

\* An idle planner with an empty slot is the contract's start.
LEMMA InitialContract == Init => Plan!Init
  BY DEF Init, Plan!Init, Failed

\* Entering a plan starts it, its answer delivers or refuses it; the steps
\* between, and its return, change nothing the state machine can see.
LEMMA ContractStep ==
  ASSUME SlotInv, [Next]_vars
  PROVE  [Plan!Next]_Plan!planVars
  <1> USE DEF SlotInv, KeepSlot, Refuse, Answer, Store, Invalidate,
    RestoreParams, Plan!planVars, Plan!Next, Plan!Start, Plan!Deliver,
    Plan!Refuse, vars, entryVars, phaseVars, chainVars, ladderVars,
    tuningVars, answerVars
  <1>1. CASE Begin
    BY <1>1, AnswerOutcomes DEF Begin
  <1>2. CASE Enter
    BY <1>2, AnswerOutcomes DEF Enter
  <1>3. CASE Transition
    BY <1>3, AnswerOutcomes DEF Transition
  <1>4. CASE MultiWaypoint
    BY <1>4, AnswerOutcomes DEF MultiWaypoint
  <1>5. CASE CommitRoute
    BY <1>5, AnswerOutcomes DEF CommitRoute
  <1>6. CASE Size
    BY <1>6, AnswerOutcomes DEF Size
  <1>7. CASE Author
    BY <1>7, AnswerOutcomes DEF Author
  <1>8. CASE AuthorFails
    BY <1>8, AnswerOutcomes DEF AuthorFails
  <1>9. ASSUME NEW bad \in SUBSET (1..segments), Solve(bad)
        PROVE  [Plan!Next]_Plan!planVars
    BY <1>9, AnswerOutcomes DEF Solve
  <1>10. CASE RescueEdge
    BY <1>10, AnswerOutcomes DEF RescueEdge
  <1>11. CASE Merge
    BY <1>11, AnswerOutcomes DEF Merge
  <1>12. CASE RescueFails
    BY <1>12, AnswerOutcomes DEF RescueFails
  <1>13. CASE Exhausted
    BY <1>13, AnswerOutcomes DEF Exhausted
  <1>14. CASE ForbidDirect
    BY <1>14, AnswerOutcomes DEF ForbidDirect
  <1>15. CASE ApplyHardLimits
    BY <1>15, AnswerOutcomes DEF ApplyHardLimits
  <1>16. CASE PlanDirect
    BY <1>16, AnswerOutcomes DEF PlanDirect
  <1>17. CASE JudgeDirect
    BY <1>17, AnswerOutcomes DEF JudgeDirect
  <1>18. CASE Stitch
    BY <1>18, AnswerOutcomes DEF Stitch
  <1>19. CASE Baseline
    BY <1>19, AnswerOutcomes DEF Baseline
  <1>20. CASE SolveSegment
    BY <1>20, AnswerOutcomes DEF SolveSegment
  <1>21. CASE RestoreBeforeStitch
    BY <1>21, AnswerOutcomes DEF RestoreBeforeStitch
  <1>22. CASE StitchSegments
    BY <1>22, AnswerOutcomes DEF StitchSegments
  <1>23. CASE Return
    BY <1>23, AnswerOutcomes DEF Return
  <1>24. CASE UNCHANGED vars
    BY <1>24, AnswerOutcomes
  <1> QED
    BY <1>1, <1>2, <1>3, <1>4, <1>5, <1>6, <1>7, <1>8, <1>9, <1>10, <1>11,
      <1>12, <1>13, <1>14, <1>15, <1>16, <1>17, <1>18, <1>19, <1>20, <1>21,
      <1>22, <1>23, <1>24 DEF Next

\* Whatever was tried and stored on the way, a delivered plan is in the slot
\* and a refused one is not.
THEOREM KeepsThePlanContract == Spec => Contract
  <1>1. Inv /\ [Next]_vars => [Plan!Next]_Plan!planVars
    BY ContractStep DEF Inv
  <1> QED
    BY <1>1, InitialContract, InductiveInv, PTL DEF Spec, Contract, Plan!Spec

-----------------------------------------------------------------------------
(***************************************************************************)
(* Minima and sequences.                                                   *)
(***************************************************************************)

\* The smallest element of a set of naturals is in it and below the rest.
LEMMA LeastNatural ==
  ASSUME NEW S \in SUBSET Nat, S # {}
  PROVE  /\ Min(S) \in S
         /\ \A y \in S : Min(S) <= y
  <1> DEFINE R == OpToRel(<, Nat)
  <1>1. \E i \in S : \A j \in S : ~ (<<j, i>> \in R)
    BY NatLessThanWellFounded, WFMin
  <1>2. \A i, j \in Nat : j < i => <<j, i>> \in R
    BY DEF OpToRel
  <1>3. PICK i \in S : \A j \in S : ~ (<<j, i>> \in R)
    BY <1>1
  <1>4. ASSUME NEW j \in S PROVE i <= j
    <2>1. ~ (j < i)
      BY <1>2, <1>3
    <2> QED
      BY <2>1
  <1> QED
    BY <1>4 DEF Min

\* The two neighbours of a merge, in order.
LEMMA PairOrder ==
  ASSUME NEW a \in Int, NEW b \in Int
  PROVE  /\ Min({a, b}) = IF a <= b THEN a ELSE b
         /\ Max({a, b}) = IF a >= b THEN a ELSE b
  <1>1. Min({a, b}) = IF a <= b THEN a ELSE b
    BY DEF Min
  <1>2. Max({a, b}) = IF a >= b THEN a ELSE b
    BY DEF Max
  <1> QED BY <1>1, <1>2

\* A function on 1..n is a sequence of length n.
LEMMA FunctionIsSeq ==
  ASSUME NEW n \in Nat, NEW S, NEW f \in [1..n -> S]
  PROVE  f \in Seq(S) /\ Len(f) = n /\ \A i \in 1..n : f[i] \in S
  OBVIOUS

\* What std::vector::erase leaves: the elements before k, then those after.
LEMMA RemoveOne ==
  ASSUME NEW S, NEW s \in Seq(S), NEW k \in 1..Len(s)
  PROVE  /\ RemoveAt(s, k) \in Seq(S)
         /\ Len(RemoveAt(s, k)) = Len(s) - 1
         /\ \A i \in 1..(Len(s) - 1) :
              RemoveAt(s, k)[i] = IF i < k THEN s[i] ELSE s[i + 1]
  <1> DEFINE a == SubSeq(s, 1, k - 1)
             b == SubSeq(s, k + 1, Len(s))
  <1>1. a \in Seq(S) /\ Len(a) = k - 1 /\ \A i \in 1..(k - 1) : a[i] = s[i]
    BY SubSeqProperties
  <1>2. b \in Seq(S) /\ Len(b) = Len(s) - k
        /\ \A i \in 1..(Len(s) - k) : b[i] = s[k + i]
    BY SubSeqProperties
  <1> HIDE DEF a, b
  <1>3. a \o b \in Seq(S) /\ Len(a \o b) = Len(s) - 1
        /\ \A i \in 1..(Len(s) - 1) :
             (a \o b)[i] = IF i <= k - 1 THEN a[i] ELSE b[i - (k - 1)]
    <2>1. /\ a \o b \in Seq(S) /\ Len(a \o b) = Len(a) + Len(b)
          /\ \A i \in 1..(Len(a) + Len(b)) :
               (a \o b)[i] = IF i <= Len(a) THEN a[i] ELSE b[i - Len(a)]
      BY <1>1, <1>2, ConcatProperties, Zenon
    <2>2. Len(a) + Len(b) = Len(s) - 1
      BY <1>1, <1>2
    <2> QED
      BY <1>1, <2>1, <2>2, Zenon
  <1>4. ASSUME NEW i \in 1..(Len(s) - 1)
        PROVE  (a \o b)[i] = IF i < k THEN s[i] ELSE s[i + 1]
    <2>1. CASE i < k
      BY <2>1, <1>1, <1>3
    <2>2. CASE ~ (i < k)
      <3>1. i - (k - 1) \in 1..(Len(s) - k)
        BY <2>2
      <3>2. b[i - (k - 1)] = s[k + (i - (k - 1))]
        BY <3>1, <1>2, Zenon
      <3>3. (a \o b)[i] = b[i - (k - 1)]
        BY <1>3, <2>2
      <3>4. k + (i - (k - 1)) = i + 1
        OBVIOUS
      <3>5. (a \o b)[i] = s[i + 1]
        BY <3>2, <3>3, <3>4, Zenon
      <3> QED BY <3>5, <2>2, Zenon
    <2> QED BY <2>1, <2>2
  <1> QED
    BY <1>3, <1>4 DEF RemoveAt, a, b

-----------------------------------------------------------------------------
(***************************************************************************)
(* What makes a chain sound.                                               *)
(***************************************************************************)

\* n - 1 junctions lie inside the route and advance along it.
JunctionsOf(js, n) ==
  /\ Len(js) = n - 1
  /\ \A i \in 1..(n - 1) : js[i].at \in 1..(Vertices - 1)
  /\ \A i \in 1..(n - 2) : js[i].at < js[i + 1].at

\* Run r is segment i alone: between its junctions, under its limits.
Alone(r, i, js, ls) ==
  /\ r.head = HeadOf(i, js)
  /\ i <= Len(js) => r.tail = js[i]
  /\ i > Len(js) => r.tail.at = Vertices
  /\ r.covers = {i}
  /\ r.max = ls[i].max /\ r.soft = ls[i].soft

\* The first k runs are the first k segments, each alone.
Plain(rs, k, js, ls) == \A i \in 1..k : Alone(rs[i], i, js, ls)

\* No run is faster than a limit stated for a segment it covers.
LimitsOf(rs, ls) ==
  \A k \in 1..Len(rs) : \A i \in rs[k].covers :
    ls[i].max # 0 => rs[k].max \in 1..ls[i].max
\* No run drops a weight declared for a segment it covers.
SoftOf(rs, ls) ==
  \A k \in 1..Len(rs) : \A i \in rs[k].covers : ls[i].soft \in {0, rs[k].soft}
\* The runs lie one after the other from start to goal and cover every
\* segment.
SeamsOf(rs, ls) ==
  /\ rs[1].head = StartState
  /\ rs[Len(rs)].tail.at = Vertices
  /\ \A i \in 1..(Len(rs) - 1) :
       /\ rs[i].tail = rs[i + 1].head
       /\ rs[i].head.at < rs[i].tail.at
       /\ \A a \in rs[i].covers, b \in rs[i + 1].covers : a < b
  /\ \A i \in 1..Len(ls) : \E k \in 1..Len(rs) : i \in rs[k].covers
  /\ \A k \in 1..Len(rs) : rs[k].covers \subseteq 1..Len(ls)
\* The first and last run are the first and last segment alone, cut at
\* candidates.
LabelsOf(rs, n, dep, arr) ==
  /\ rs[1].covers = {1} /\ rs[Len(rs)].covers = {n}
  /\ rs[1].tail.at \in ToSet(dep)
  /\ rs[Len(rs)].head.at \in ToSet(IF n = 2 THEN dep ELSE arr)
\* The last run ends at the stated speed, when one is stated.
Ends(rs, tail) == tail # 0 => rs[Len(rs)].tail.speed = tail

\* What it means for every segment to stand alone, field by field.
InOrder(rs, n, js, ls) ==
  /\ \A i \in 1..n : rs[i].covers = {i}
  /\ \A i \in 1..n : rs[i].max = ls[i].max /\ rs[i].soft = ls[i].soft
  /\ \A i \in 1..(n - 1) : rs[i].tail = js[i]
  /\ rs[n].tail.at = Vertices
  /\ rs[1].head = StartState
  /\ \A i \in 2..n : rs[i].head = js[i - 1]

\* Segments that stand alone follow one another.
LEMMA PlainInOrder ==
  ASSUME NEW n \in Nat, n >= 2, NEW js, Len(js) = n - 1, NEW ls, NEW rs,
         Plain(rs, n, js, ls)
  PROVE  InOrder(rs, n, js, ls)
  <1>1. \A i \in 1..n : Alone(rs[i], i, js, ls)
    BY DEF Plain
  <1>2. n \in 1..n /\ 1 \in 1..n
    OBVIOUS
  <1>3. /\ \A i \in 1..n : rs[i].covers = {i}
        /\ \A i \in 1..n : rs[i].max = ls[i].max /\ rs[i].soft = ls[i].soft
    BY <1>1 DEF Alone
  <1>4. \A i \in 1..(n - 1) : rs[i].tail = js[i]
    BY <1>1, <1>2 DEF Alone
  <1>5. rs[n].tail.at = Vertices
    BY <1>1, <1>2 DEF Alone
  <1>6. rs[1].head = StartState
    BY <1>1, <1>2 DEF Alone, HeadOf
  <1>7. \A i \in 2..n : rs[i].head = js[i - 1]
    BY <1>1 DEF Alone, HeadOf
  <1> QED
    BY <1>3, <1>4, <1>5, <1>6, <1>7 DEF InOrder

\* One run per segment, each between its junctions and under its own limits,
\* is a sound flight: this is what the workers deliver.
LEMMA PlainIsSound ==
  ASSUME NEW n \in Nat, n >= 2, NEW js, JunctionsOf(js, n),
         NEW ls, Len(ls) = n, \A i \in 1..n : ls[i].max \in Nat,
         NEW rs, Len(rs) = n, Plain(rs, n, js, ls)
  PROVE  SeamsOf(rs, ls) /\ LimitsOf(rs, ls) /\ SoftOf(rs, ls)
  <1>0. Vertices \in Nat \ {0} /\ StartState.at = 0
    BY RouteAssumption DEF StartState
  <1>1. /\ \A i \in 1..n : rs[i].covers = {i}
        /\ \A i \in 1..n : rs[i].max = ls[i].max /\ rs[i].soft = ls[i].soft
        /\ \A i \in 1..(n - 1) : rs[i].tail = js[i]
        /\ rs[n].tail.at = Vertices
        /\ rs[1].head = StartState
        /\ \A i \in 2..n : rs[i].head = js[i - 1]
    <2>1. Len(js) = n - 1
      BY DEF JunctionsOf
    <2>2. InOrder(rs, n, js, ls)
      BY <2>1, PlainInOrder, Zenon
    <2> QED
      BY <2>2 DEF InOrder
  <1>2. SeamsOf(rs, ls)
    <2>1. ASSUME NEW i \in 1..(n - 1)
          PROVE  /\ rs[i].tail = rs[i + 1].head
                 /\ rs[i].head.at < rs[i].tail.at
                 /\ \A a \in rs[i].covers, b \in rs[i + 1].covers : a < b
      <3>1. i + 1 \in 2..n /\ (i + 1) - 1 = i
        OBVIOUS
      <3>2. rs[i + 1].head = js[(i + 1) - 1]
        BY <3>1, <1>1, Zenon
      <3>3. rs[i].tail = rs[i + 1].head
        BY <3>1, <3>2, <1>1
      <3>4. rs[i].head.at < js[i].at
        <4>1. CASE i = 1
          BY <4>1, <1>0, <1>1 DEF JunctionsOf
        <4>2. CASE i # 1
          <5>1. i - 1 \in 1..(n - 2) /\ (i - 1) + 1 = i /\ i \in 2..n
            BY <4>2
          <5>2. js[i - 1].at < js[(i - 1) + 1].at
            BY <5>1, Zenon DEF JunctionsOf
          <5>3. rs[i].head = js[i - 1]
            BY <5>1, <1>1, Zenon
          <5> QED
            BY <5>1, <5>2, <5>3
        <4> QED
          BY <4>1, <4>2
      <3>5. i + 1 \in 1..n /\ i \in 1..n
        OBVIOUS
      <3>6. rs[i + 1].covers = {i + 1}
        BY <3>5, <1>1, Zenon
      <3>7. rs[i].covers = {i}
        BY <3>5, <1>1, Zenon
      <3> QED
        BY <3>3, <3>4, <3>6, <3>7, <1>1
    <2>2. \A i \in 1..n : i \in rs[i].covers
      BY <1>1
    <2> QED
      BY <1>1, <2>1, <2>2 DEF SeamsOf
  <1>3. LimitsOf(rs, ls)
    BY <1>1 DEF LimitsOf
  <1>4. SoftOf(rs, ls)
    BY <1>1 DEF SoftOf
  <1> QED
    BY <1>2, <1>3, <1>4

\* Run r is segments lo and lo + 1 merged, under the limits of both.
Spans(r, lo, n, js, ls) ==
  /\ r.head = HeadOf(lo, js)
  /\ lo + 1 <= n - 1 => r.tail = js[lo + 1]
  /\ lo + 1 = n => r.tail.at = Vertices
  /\ r.covers = {lo, lo + 1}
  /\ \A i \in {lo, lo + 1} : ls[i].max # 0 => r.max \in 1..ls[i].max

\* The runs after the merge: rs with lo and lo + 1 replaced by the merged
\* run.
MergedInto(new, rs, n, lo, merged) ==
  /\ Len(new) = n - 1
  /\ \A i \in 1..(n - 1) :
       new[i] = IF i < lo THEN rs[i] ELSE IF i = lo THEN merged ELSE rs[i + 1]

\* The plain chain rs of n segments, between js and under ls.
ChainOf(rs, n, js, ls) ==
  /\ JunctionsOf(js, n)
  /\ Len(ls) = n /\ \A i \in 1..n : ls[i].max \in Nat
  /\ Len(rs) = n /\ Plain(rs, n, js, ls)

\* A chain that has swallowed the junction between lo and lo + 1.
SoundMerge(new, ls, lo, merged) ==
  /\ SeamsOf(new, ls) /\ LimitsOf(new, ls)
  /\ (\A i \in {lo, lo + 1} : ls[i].soft \in {0, merged.soft})
       => SoftOf(new, ls)

\* Dropping one junction of a sound chain and flying the merged span under
\* both sides' limits leaves a sound chain, of one run fewer.
LEMMA MergedIsSound ==
  ASSUME NEW n \in Nat, n >= 2, NEW js, NEW ls, NEW rs,
         ChainOf(rs, n, js, ls),
         NEW lo \in 1..(n - 1), NEW merged, Spans(merged, lo, n, js, ls),
         NEW new, MergedInto(new, rs, n, lo, merged)
  PROVE  SoundMerge(new, ls, lo, merged)
  <1> USE DEF Spans, MergedInto, ChainOf, SoundMerge
  <1>0. Vertices \in Nat \ {0} /\ StartState.at = 0
    BY RouteAssumption DEF StartState
  <1>1. /\ \A i \in 1..n : rs[i].covers = {i}
        /\ \A i \in 1..n : rs[i].max = ls[i].max /\ rs[i].soft = ls[i].soft
        /\ \A i \in 1..(n - 1) : rs[i].tail = js[i]
        /\ rs[n].tail.at = Vertices
        /\ rs[1].head = StartState
        /\ \A i \in 2..n : rs[i].head = js[i - 1]
    <2>1. Len(js) = n - 1
      BY DEF JunctionsOf
    <2> HIDE DEF Spans, MergedInto
    <2>2. InOrder(rs, n, js, ls)
      BY <2>1, PlainInOrder
    <2> QED
      BY <2>2 DEF InOrder
  <1>2. SeamsOf(rs, ls)
    BY PlainIsSound
  <1>3. \A i \in 1..(lo - 1) : i \in 1..(n - 1) /\ new[i] = rs[i]
    OBVIOUS
  <1>4. new[lo] = merged
    OBVIOUS
  <1>5. \A i \in (lo + 1)..(n - 1) : new[i] = rs[i + 1]
    OBVIOUS
  <1>6. merged.head = rs[lo].head
    BY <1>1 DEF HeadOf
  <1>7. merged.tail = IF lo + 1 = n THEN merged.tail ELSE rs[lo + 1].tail
    BY <1>1
  <1>8. SeamsOf(new, ls)
    <2>1. new[1].head = StartState
      BY <1>1, <1>3, <1>4, <1>6
    <2>2. new[n - 1].tail.at = Vertices
      <3>1. CASE lo + 1 = n
        BY <3>1, <1>4
      <3>2. CASE lo + 1 # n
        <4>1. n - 1 \in (lo + 1)..(n - 1) /\ (n - 1) + 1 = n
          BY <3>2
        <4>2. new[n - 1] = rs[(n - 1) + 1]
          BY <4>1, <1>5, Zenon
        <4> QED
          BY <4>1, <4>2, <1>1
      <3> QED
        BY <3>1, <3>2
    <2>3. ASSUME NEW i \in 1..(n - 2)
          PROVE  /\ new[i].tail = new[i + 1].head
                 /\ new[i].head.at < new[i].tail.at
                 /\ \A a \in new[i].covers, b \in new[i + 1].covers : a < b
      <3>0. i \in 1..n /\ i + 1 \in 1..n /\ i \in 1..(n - 1) /\ i + 1 \in 1..(n - 1)
            /\ (i + 1) + 1 \in 1..n
        OBVIOUS
      <3>1. /\ rs[i].tail = rs[i + 1].head
            /\ rs[i].head.at < rs[i].tail.at
            /\ rs[i].covers = {i}
        BY <3>0, <1>1, <1>2 DEF SeamsOf
      <3>2. /\ rs[i + 1].tail = rs[(i + 1) + 1].head
            /\ rs[i + 1].head.at < rs[i + 1].tail.at
        BY <3>0, <1>2, Zenon DEF SeamsOf
      <3>3. /\ rs[i + 1].covers = {i + 1}
            /\ rs[(i + 1) + 1].covers = {(i + 1) + 1}
        BY <3>0, <1>1, Zenon
      <3>4. CASE i + 1 < lo
        <4>1. new[i] = rs[i] /\ new[i + 1] = rs[i + 1]
          BY <3>4, <3>0
        <4> QED
          BY <4>1, <3>1, <3>3
      <3>5. CASE i + 1 = lo
        <4>1. new[i] = rs[i] /\ new[i + 1] = merged
          BY <3>5, <3>0
        <4>2. rs[lo].head = rs[i + 1].head
          BY <3>5
        <4>3. new[i].tail = new[i + 1].head
          BY <4>1, <4>2, <3>1, <1>6, Zenon
        <4>4. \A a \in new[i].covers, b \in new[i + 1].covers : a < b
          BY <4>1, <3>1, <3>5
        <4> QED
          BY <4>1, <4>3, <4>4, <3>1, Zenon
      <3>6. CASE i = lo
        <4>1. new[i] = merged
          BY <3>6, <1>4
        <4>2. new[i + 1] = rs[(i + 1) + 1]
          BY <3>6, <3>0
        <4>3. merged.tail = rs[i + 1].tail /\ merged.head = rs[i].head
          BY <3>6, <3>0, <1>6, <1>7
        <4>4. /\ rs[i].head.at \in Int /\ rs[i].tail.at \in Int
              /\ rs[i + 1].head.at \in Int /\ rs[i + 1].tail.at \in Int
          <5>0. \A k \in 1..(n - 1) : js[k].at \in Int
            BY <1>0 DEF JunctionsOf
          <5>1. \A k \in 1..(n - 1) : rs[k].tail.at \in Int
            <6>1. \A k \in 1..(n - 1) : rs[k].tail = js[k]
              BY <1>1
            <6> QED
              BY <5>0, <6>1, Zenon
          <5>2. rs[i].head.at \in Int
            <6>1. CASE i = 1
              BY <6>1, <1>0, <1>1
            <6>2. CASE i # 1
              <7>1. i - 1 \in 1..(n - 1) /\ i \in 2..n
                BY <6>2
              <7>2. rs[i].head = js[i - 1]
                BY <7>1, <1>1, Zenon
              <7> QED
                BY <7>1, <7>2, <5>0, Zenon
            <6> QED
              BY <6>1, <6>2
          <5> QED
            BY <5>1, <5>2, <3>0, <3>1
        <4>5. merged.head.at < merged.tail.at
          <5>1. rs[i].head.at < rs[i + 1].tail.at
            BY <4>4, <3>1, <3>2
          <5> QED
            BY <5>1, <4>3, Zenon
        <4>6. new[i].tail = new[i + 1].head
          BY <4>1, <4>2, <4>3, <3>2, Zenon
        <4>7. \A a \in new[i].covers, b \in new[i + 1].covers : a < b
          <5>1. new[i].covers = {i, i + 1}
            BY <4>1, <3>6
          <5>2. new[i + 1].covers = {(i + 1) + 1}
            BY <4>2, <3>3, Zenon
          <5> QED
            BY <5>1, <5>2
        <4> QED
          BY <4>1, <4>5, <4>6, <4>7, Zenon
      <3>7. CASE i > lo
        <4>1. new[i] = rs[i + 1] /\ new[i + 1] = rs[(i + 1) + 1]
          BY <3>7, <3>0
        <4> QED
          BY <4>1, <3>2, <3>3
      <3> QED
        BY <3>4, <3>5, <3>6, <3>7
    <2>4. ASSUME NEW i \in 1..n
          PROVE  \E k \in 1..(n - 1) : i \in new[k].covers
      <3>0. i < lo \/ i \in {lo, lo + 1} \/ i > lo + 1
        OBVIOUS
      <3>1. CASE i < lo
        <4>1. i \in 1..(n - 1) /\ new[i] = rs[i] /\ rs[i].covers = {i}
          BY <3>1, <1>1, <1>3
        <4> QED
          BY <4>1
      <3>2. CASE i \in {lo, lo + 1}
        BY <3>2, <1>4
      <3>3. CASE i > lo + 1
        <4>1. i - 1 \in (lo + 1)..(n - 1) /\ (i - 1) + 1 = i /\ i - 1 \in 1..(n - 1)
          BY <3>3
        <4>2. new[i - 1] = rs[(i - 1) + 1]
          BY <4>1, <1>5, Zenon
        <4>3. i \in new[i - 1].covers
          BY <4>1, <4>2, <1>1
        <4> QED
          BY <4>1, <4>3, Zenon
      <3> QED
        BY <3>0, <3>1, <3>2, <3>3, Zenon
    <2>5. ASSUME NEW k \in 1..(n - 1)
          PROVE  new[k].covers \subseteq 1..n
      <3>1. CASE k < lo
        BY <3>1, <1>1, <1>3
      <3>2. CASE k = lo
        BY <3>2, <1>4
      <3>3. CASE k > lo
        <4>1. new[k] = rs[k + 1] /\ k + 1 \in 1..n
          BY <3>3
        <4>2. rs[k + 1].covers = {k + 1}
          BY <4>1, <1>1, Zenon
        <4> QED
          BY <4>1, <4>2
      <3> QED
        BY <3>1, <3>2, <3>3
    <2>6. Len(new) - 1 = n - 2
      OBVIOUS
    <2> QED
      BY <2>1, <2>2, <2>3, <2>4, <2>5, <2>6 DEF SeamsOf
  <1>9. ASSUME NEW k \in 1..(n - 1), k # lo
        PROVE  \E i \in 1..n : new[k] = rs[i]
    <2>1. k \in 1..n /\ k + 1 \in 1..n
      OBVIOUS
    <2>2. new[k] = rs[k] \/ new[k] = rs[k + 1]
      BY <1>3, <1>5, <1>9
    <2> QED
      BY <2>1, <2>2
  <1>10. LimitsOf(new, ls)
    <2>1. ASSUME NEW k \in 1..(n - 1), NEW i \in new[k].covers, ls[i].max # 0
          PROVE  new[k].max \in 1..ls[i].max
      <3>1. CASE k = lo
        BY <3>1, <2>1, <1>4
      <3>2. CASE k # lo
        <4>1. PICK j \in 1..n : new[k] = rs[j]
          BY <3>2, <1>9
        <4>2. i = j
          <5>1. rs[j].covers = {j}
            BY <1>1, Zenon
          <5> QED
            BY <4>1, <5>1, <2>1
        <4>3. ls[j].max # 0 => rs[j].max \in 1..ls[j].max
          BY <1>1
        <4> QED
          BY <4>1, <4>2, <4>3, <2>1
      <3> QED
        BY <3>1, <3>2
    <2> QED
      BY <2>1 DEF LimitsOf
  <1>11. ASSUME \A i \in {lo, lo + 1} : ls[i].soft \in {0, merged.soft}
         PROVE  SoftOf(new, ls)
    <2>1. ASSUME NEW k \in 1..(n - 1), NEW i \in new[k].covers
          PROVE  ls[i].soft \in {0, new[k].soft}
      <3>1. CASE k = lo
        BY <3>1, <2>1, <1>4, <1>11
      <3>2. CASE k # lo
        <4>1. PICK j \in 1..n : new[k] = rs[j]
          BY <3>2, <1>9
        <4> QED
          BY <4>1, <2>1, <1>1
      <3> QED
        BY <3>1, <3>2
    <2> QED
      BY <2>1 DEF SoftOf
  <1> QED
    BY <1>8, <1>10, <1>11

-----------------------------------------------------------------------------
(***************************************************************************)
(* Overrides and limits.                                                   *)
(***************************************************************************)

\* The stricter of a set of limits is below every limit that is set.
LEMMA HardMinBounds ==
  ASSUME NEW O, \A o \in O : o.max \in 0..Cruise
  PROVE  /\ HardMin(O) \in 0..Cruise
         /\ \A o \in O : o.max # 0 => HardMin(O) \in 1..o.max
  <1> DEFINE set == {o.max : o \in O} \ {0}
  <1>1. set \in SUBSET Nat /\ set \subseteq 1..Cruise
    BY RouteAssumption
  <1>2. \A o \in O : o.max # 0 => o.max \in set
    OBVIOUS
  <1>3. HardMin(O) = IF set = {} THEN 0 ELSE Min(set)
    BY DEF HardMin
  <1> HIDE DEF set
  <1>4. CASE set = {}
    BY <1>2, <1>3, <1>4, RouteAssumption
  <1>5. CASE set # {}
    <2>1. Min(set) \in set /\ \A y \in set : Min(set) <= y
      BY <1>1, <1>5, LeastNatural
    <2>2. HardMin(O) = Min(set)
      BY <1>3, <1>5
    <2>3. HardMin(O) \in 1..Cruise
      BY <1>1, <2>1, <2>2
    <2>4. \A o \in O : o.max # 0 => HardMin(O) <= o.max
      BY <1>2, <2>1, <2>2
    <2> QED
      BY <2>3, <2>4, RouteAssumption
  <1> QED
    BY <1>4, <1>5

\* Overrides, their overlays and ceilings stay in their ranges.
LEMMA OverrideTypes ==
  /\ NoOverride \in Override
  /\ \A p, s \in Override : Overlay(p, s) \in Override
  /\ \A o \in Override : Ceiling(o) \in 0..Cruise
  /\ \A o \in Override : o.max \in 0..Cruise /\ o.soft \in 0..2
  <1>1. NoOverride \in Override
    BY RouteAssumption DEF NoOverride, Override
  <1>2. ASSUME NEW p \in Override, NEW s \in Override
        PROVE  Overlay(p, s) \in Override
    BY DEF Overlay, Override
  <1> QED
    BY <1>1, <1>2, RouteAssumption DEF Override, Ceiling

\* Whatever profile or seg<i> a mission declares is an override.
LEMMA DeclarationTypes ==
  ASSUME job \in Jobs
  PROVE  /\ \A p \in Phases : job.declared.profile[p] \in Override
         /\ \A p \in Phases : ProfileOf(p) \in Override
         /\ \A i \in 1..MaxSegments : job.declared.seg[i] \in Override
  <1>1. job.declared \in [profile : [Phases -> Override],
                          seg : [1..MaxSegments -> Override]]
    BY DeclaredAssumption DEF Jobs
  <1> QED
    BY <1>1, OverrideTypes DEF ProfileOf

\* Every segment has limits in force, its own over its phase's.
LEMMA EffectiveLimitTypes ==
  ASSUME job \in Jobs, segments \in 1..MaxSegments
  PROVE  EffectiveLimits \in Seq(Override) /\ Len(EffectiveLimits) = segments
  <1>0. segments \in Nat /\ segments <= MaxSegments
    BY RouteAssumption
  <1>1. ASSUME NEW i \in 1..segments
        PROVE  Overlay(ProfileOf(WorkerPhase(i)), job.declared.seg[i]) \in Override
    <2>1. WorkerPhase(i) \in Phases
      <3>1. CASE i = 1
        BY <3>1 DEF WorkerPhase, Phases
      <3>2. CASE i # 1 /\ i = segments
        BY <3>2, <1>0 DEF WorkerPhase, Phases
      <3>3. CASE i # 1 /\ i # segments
        BY <3>3, <1>0 DEF WorkerPhase, Phases
      <3> QED
        BY <3>1, <3>2, <3>3
    <2>2. i \in 1..MaxSegments
      BY <1>0, RouteAssumption
    <2> QED
      BY <2>1, <2>2, DeclarationTypes, OverrideTypes
  <1>2. EffectiveLimits \in [1..segments -> Override]
    BY <1>1 DEF EffectiveLimits
  <1> QED
    BY <1>0, <1>2, FunctionIsSeq

-----------------------------------------------------------------------------
(***************************************************************************)
(* Junctions, heads and tails.                                             *)
(***************************************************************************)

\* Junctions at increasing vertices stay there when their speeds are lowered.
LEMMA HarmonisedJunctions ==
  ASSUME NEW n \in Nat, n >= 2,
         NEW vs \in [1..(n - 1) -> 1..(Vertices - 1)], Increasing(vs),
         NEW ls \in Seq(Override), Len(ls) = n
  PROVE  /\ Harmonised(vs, ls) \in Seq(States)
         /\ JunctionsOf(Harmonised(vs, ls), n)
         /\ \A i \in 1..(n - 1) : Harmonised(vs, ls)[i].at = vs[i]
  <1> DEFINE js == Harmonised(vs, ls)
  <1>0. Vertices \in Nat \ {0} /\ Cruise \in Nat
    BY RouteAssumption
  <1>1. vs \in Seq(1..(Vertices - 1)) /\ Len(vs) = n - 1
    <2>1. n - 1 \in Nat
      OBVIOUS
    <2> QED
      BY <2>1, FunctionIsSeq
  <1>2. ASSUME NEW i \in 1..(n - 1)
        PROVE  /\ js[i] \in States
               /\ js[i].at = vs[i]
    <2>1. ls[i] \in Override /\ ls[i + 1] \in Override
      <3>1. i \in 1..Len(ls) /\ i + 1 \in 1..Len(ls)
        OBVIOUS
      <3> QED
        BY <3>1, ElementOfSeq
    <2> DEFINE ceilings == {Cruise, Ceiling(ls[i]), Ceiling(ls[i + 1])}
    <2>2. ceilings \in SUBSET (0..Cruise) /\ ceilings # {}
      <3>1. Ceiling(ls[i]) \in 0..Cruise /\ Ceiling(ls[i + 1]) \in 0..Cruise
        BY <2>1, OverrideTypes, Zenon
      <3>2. Cruise \in 0..Cruise
        BY <1>0
      <3> QED
        BY <3>1, <3>2, Zenon
    <2>3. js[i] = [at |-> vs[i], speed |-> Min(ceilings)]
      BY DEF Harmonised
    <2> HIDE DEF ceilings, js
    <2>4. Min(ceilings) \in 0..Cruise
      <3>1. ceilings \in SUBSET Nat
        BY <2>2, <1>0
      <3>2. Min(ceilings) \in ceilings
        BY <3>1, <2>2, LeastNatural
      <3> QED
        BY <3>2, <2>2
    <2>5. vs[i] \in 0..Vertices
      BY <1>0
    <2> QED
      BY <2>3, <2>4, <2>5 DEF States
  <1>3. js \in [1..(n - 1) -> States]
    <2>1. js = [i \in 1..(n - 1) |-> js[i]]
      BY DEF Harmonised
    <2> HIDE DEF js
    <2> QED
      BY <2>1, <1>2
  <1> HIDE DEF js
  <1>4. js \in Seq(States) /\ Len(js) = n - 1
    BY <1>3, FunctionIsSeq
  <1>5. \A i \in 1..(n - 2) : js[i].at < js[i + 1].at
    <2>1. \A i \in 1..(n - 2) : vs[i] < vs[i + 1]
      BY <1>1 DEF Increasing
    <2>2. \A i \in 1..(n - 2) : i \in 1..(n - 1) /\ i + 1 \in 1..(n - 1)
      OBVIOUS
    <2>3. ASSUME NEW i \in 1..(n - 2)
          PROVE  js[i].at < js[i + 1].at
      <3>1. js[i].at = vs[i] /\ js[i + 1].at = vs[i + 1]
        BY <2>2, <1>2, Zenon
      <3> QED
        BY <3>1, <2>1
    <2> QED
      BY <2>3
  <1> QED
    BY <1>2, <1>4, <1>5 DEF JunctionsOf, js

\* Junctions that can be sliced advance along the route.
LEMMA SliceableJunctions ==
  ASSUME NEW n \in Nat, n >= 2,
         NEW js \in Seq(States), Len(js) = n - 1, Sliceable(js),
         \A i \in 1..(n - 1) : js[i].at \in 1..(Vertices - 1)
  PROVE  JunctionsOf(js, n)
  <1> DEFINE vs == [i \in DOMAIN js |-> js[i].at]
  <1>1. vs \in [1..(n - 1) -> 1..(Vertices - 1)]
    BY LenProperties
  <1>2. Increasing(vs)
    BY DEF Sliceable
  <1>3. \A i \in 1..(n - 1) : vs[i] = js[i].at
    BY LenProperties
  <1> HIDE DEF vs
  <1>4. Len(vs) = n - 1
    <2>1. n - 1 \in Nat
      OBVIOUS
    <2> QED
      BY <2>1, <1>1, FunctionIsSeq
  <1>5. \A i \in 1..(n - 2) : vs[i] < vs[i + 1]
    BY <1>2, <1>4 DEF Increasing
  <1>6. ASSUME NEW i \in 1..(n - 2)
        PROVE  js[i].at < js[i + 1].at
    <2>1. i \in 1..(n - 1) /\ i + 1 \in 1..(n - 1)
      OBVIOUS
    <2>2. vs[i] = js[i].at /\ vs[i + 1] = js[i + 1].at
      BY <2>1, <1>3, Zenon
    <2> QED
      BY <2>2, <1>5
  <1> QED
    BY <1>6 DEF JunctionsOf

\* A chain was authored and its mission's stated end is within the envelope.
Authored ==
  /\ segments \in 2..MaxSegments
  /\ junctions \in Seq(States) /\ JunctionsOf(junctions, segments)
  /\ limits \in Seq(Override) /\ Len(limits) = segments
  /\ StatedTail \in 0..Cruise

\* The goal is at the route's end, at the stated speed when one is stated.
LEMMA GoalTypes ==
  ASSUME StatedTail \in 0..Cruise, NEW speed \in 0..Cruise
  PROVE  /\ Goal(speed) \in States /\ Goal(speed).at = Vertices
         /\ StatedTail # 0 => Goal(speed).speed = StatedTail
  BY RouteAssumption DEF Goal, States

\* A run between two states is a run.
LEMMA RunTypes ==
  ASSUME NEW head \in States, NEW tail \in States,
         NEW covers \in SUBSET (1..MaxSegments), NEW o,
         o.max \in 0..Cruise, o.soft \in 0..2
  PROVE  Run(head, tail, covers, o) \in Runs
  BY DEF Run, Runs

\* A run is made of what it was asked for.
LEMMA RunFields ==
  \A head, tail, covers, o :
    LET r == Run(head, tail, covers, o)
    IN  /\ r.head = head /\ r.tail = tail /\ r.covers = covers
        /\ r.max = o.max /\ r.soft = o.soft
  BY DEF Run

\* Heads and tails of segments are states of the route.
LEMMA BoundaryTypes ==
  ASSUME NEW n \in 2..MaxSegments, NEW js \in Seq(States), Len(js) = n - 1,
         NEW goal \in States, NEW i \in 1..n
  PROVE  HeadOf(i, js) \in States /\ TailOf(i, js, goal) \in States
  <1>1. StartState \in States
    BY RouteAssumption DEF StartState, States
  <1>2. n \in Nat
    BY RouteAssumption
  <1>3. HeadOf(i, js) \in States
    <2>1. CASE i = 1
      BY <2>1, <1>1 DEF HeadOf
    <2>2. CASE i # 1
      <3>1. i - 1 \in 1..Len(js)
        BY <2>2, <1>2
      <3>2. js[i - 1] \in States
        BY <3>1, ElementOfSeq
      <3> QED
        BY <2>2, <3>2 DEF HeadOf
    <2> QED
      BY <2>1, <2>2
  <1>4. TailOf(i, js, goal) \in States
    <2>1. CASE i > Len(js)
      BY <2>1 DEF TailOf
    <2>2. CASE ~ (i > Len(js))
      <3>1. i \in 1..Len(js)
        BY <2>2, <1>2
      <3>2. js[i] \in States
        BY <3>1, ElementOfSeq
      <3> QED
        BY <2>2, <3>2 DEF TailOf
    <2> QED
      BY <2>1, <2>2
  <1> QED
    BY <1>3, <1>4

\* The limits of an authored chain stay in their ranges.
LEMMA LimitTypes ==
  ASSUME Authored
  PROVE  \A i \in 1..segments :
           /\ limits[i] \in Override
           /\ limits[i].max \in 0..Cruise /\ limits[i].max \in Nat
           /\ limits[i].soft \in 0..2
           /\ Ceiling(limits[i]) \in 0..Cruise
  <1>1. \A i \in 1..segments : limits[i] \in Override
    BY ElementOfSeq DEF Authored
  <1> QED
    BY <1>1, OverrideTypes, RouteAssumption

-----------------------------------------------------------------------------
(***************************************************************************)
(* The runs of every rung.                                                 *)
(***************************************************************************)

\* A segment solved between its junctions under its limits stands alone.
LEMMA SegmentFits ==
  ASSUME Authored
  PROVE  \A goal \in States, js \in Seq(States) : \A i \in 1..segments :
           goal.at = Vertices /\ Len(js) = segments - 1 =>
             LET r == Run(HeadOf(i, js), TailOf(i, js, goal), {i}, limits[i])
             IN  /\ r \in Runs /\ Alone(r, i, js, limits)
                 /\ i > Len(js) => r.tail = goal
  <1> SUFFICES ASSUME NEW goal \in States, NEW js \in Seq(States),
                      NEW i \in 1..segments,
                      goal.at = Vertices, Len(js) = segments - 1
               PROVE  LET r == Run(HeadOf(i, js), TailOf(i, js, goal), {i},
                                   limits[i])
                      IN  /\ r \in Runs /\ Alone(r, i, js, limits)
                          /\ i > Len(js) => r.tail = goal
    OBVIOUS
  <1> DEFINE r == Run(HeadOf(i, js), TailOf(i, js, goal), {i}, limits[i])
  <1>0. segments \in 2..MaxSegments /\ segments \in Nat /\ {i} \in SUBSET (1..MaxSegments)
    BY RouteAssumption DEF Authored
  <1>1. r \in Runs
    BY <1>0, BoundaryTypes, RunTypes, LimitTypes
  <1>2. /\ r.head = HeadOf(i, js) /\ r.tail = TailOf(i, js, goal)
        /\ r.covers = {i}
        /\ r.max = limits[i].max /\ r.soft = limits[i].soft
    BY RunFields
  <1> HIDE DEF r
  <1>3. i \in Nat /\ Len(js) \in Nat
    BY <1>0
  <1>4. /\ i <= Len(js) => TailOf(i, js, goal) = js[i]
        /\ i > Len(js) => TailOf(i, js, goal) = goal
    BY <1>3 DEF TailOf
  <1>5. Alone(r, i, js, limits)
    BY <1>2, <1>4 DEF Alone
  <1> QED
    BY <1>1, <1>2, <1>4, <1>5 DEF r

\* The workers' runs are the segments, one each, and reach the stated speed.
LEMMA WorkerRunsFit ==
  ASSUME Authored
  PROVE  /\ WorkerRuns \in Seq(Runs) /\ Len(WorkerRuns) = segments
         /\ Plain(WorkerRuns, segments, junctions, limits)
         /\ Ends(WorkerRuns, StatedTail)
  <1> DEFINE goal == Goal(Ceiling(limits[segments]))
             one(i) == Run(HeadOf(i, junctions), TailOf(i, junctions, goal), {i}, limits[i])
  <1>0. /\ segments \in Nat /\ segments >= 2
        /\ junctions \in Seq(States) /\ Len(junctions) = segments - 1
    BY RouteAssumption DEF Authored, JunctionsOf
  <1>1. /\ goal \in States /\ goal.at = Vertices
        /\ StatedTail # 0 => goal.speed = StatedTail
    BY <1>0, LimitTypes, GoalTypes DEF Authored
  <1>2. WorkerRuns = [i \in 1..segments |-> one(i)]
    BY DEF WorkerRuns
  <1> HIDE DEF goal
  <1>3. ASSUME NEW i \in 1..segments
        PROVE  /\ one(i) \in Runs /\ Alone(one(i), i, junctions, limits)
               /\ i > Len(junctions) => one(i).tail = goal
    BY <1>0, <1>1, SegmentFits, Zenon
  <1> HIDE DEF one
  <1>4. WorkerRuns \in [1..segments -> Runs]
    BY <1>2, <1>3
  <1>5. WorkerRuns \in Seq(Runs) /\ Len(WorkerRuns) = segments
    BY <1>0, <1>4, FunctionIsSeq
  <1>6. \A i \in 1..segments : WorkerRuns[i] = one(i)
    BY <1>2
  <1>7. Plain(WorkerRuns, segments, junctions, limits)
    BY <1>3, <1>6 DEF Plain
  <1>8. Ends(WorkerRuns, StatedTail)
    <2>1. segments \in 1..segments /\ segments > Len(junctions)
      BY <1>0
    <2>2. WorkerRuns[segments].tail = goal
      BY <2>1, <1>3, <1>6
    <2> QED
      BY <2>2, <1>1, <1>5 DEF Ends
  <1> QED
    BY <1>5, <1>7, <1>8

\* The junction an edge segment's hand-off is at.
HandoffPlace(f) == IF f = 1 THEN 1 ELSE segments - 1

\* Moving a hand-off moves one junction; the route stays sliceable or the
\* candidate is refused.
LEMMA MovedJunctions ==
  ASSUME Authored, NEW f \in {1, segments}, NEW v \in 1..(Vertices - 1)
  PROVE  /\ Moved(f, v) \in Seq(States) /\ Len(Moved(f, v)) = segments - 1
         /\ HandoffPlace(f) \in 1..(segments - 1)
         /\ Moved(f, v)[HandoffPlace(f)].at = v
         /\ \A i \in 1..(segments - 1) :
              i # HandoffPlace(f) => Moved(f, v)[i] = junctions[i]
         /\ Sliceable(Moved(f, v)) => JunctionsOf(Moved(f, v), segments)
  <1>0. /\ segments \in Nat /\ segments >= 2 /\ Len(junctions) = segments - 1
        /\ junctions \in Seq(States)
        /\ \A i \in 1..(segments - 1) : junctions[i].at \in 1..(Vertices - 1)
    BY RouteAssumption DEF Authored, JunctionsOf
  <1>1. HandoffPlace(f) \in 1..(segments - 1)
    BY <1>0 DEF HandoffPlace
  <1> DEFINE k == HandoffPlace(f)
             e == [at |-> v, speed |-> Cruise]
  <1>2. Moved(f, v) = [junctions EXCEPT ![k] = e]
    BY DEF Moved, HandoffPlace
  <1>3. e \in States /\ e.at = v
    BY RouteAssumption DEF States
  <1> HIDE DEF k, e
  <1>4. k \in 1..Len(junctions)
    BY <1>0, <1>1 DEF k
  <1>5. /\ Moved(f, v) \in Seq(States) /\ Len(Moved(f, v)) = Len(junctions)
        /\ \A i \in 1..Len(junctions) :
             Moved(f, v)[i] = IF i = k THEN e ELSE junctions[i]
    BY <1>0, <1>2, <1>3, <1>4, ExceptSeq
  <1>6. \A i \in 1..(segments - 1) : Moved(f, v)[i].at \in 1..(Vertices - 1)
    BY <1>0, <1>3, <1>5
  <1>7. Sliceable(Moved(f, v)) => JunctionsOf(Moved(f, v), segments)
    BY <1>0, <1>5, <1>6, SliceableJunctions
  <1> QED
    BY <1>0, <1>1, <1>3, <1>4, <1>5, <1>7 DEF k

\* After a hand-off moved, its two neighbours are solved again and the others
\* still stand on their own junctions.
LEMMA RescuedRunsFit ==
  ASSUME Authored, NEW f \in {1, segments}, NEW v \in 1..(Vertices - 1),
         runs \in Seq(Runs), Len(runs) = segments,
         Plain(runs, segments, junctions, limits), Ends(runs, StatedTail)
  PROVE  /\ RescuedRuns(f, v) \in Seq(Runs)
         /\ Len(RescuedRuns(f, v)) = segments
         /\ Plain(RescuedRuns(f, v), segments, Moved(f, v), limits)
         /\ Ends(RescuedRuns(f, v), StatedTail)
  <1> DEFINE moved == Moved(f, v)
             end == Goal(Cruise)
             edge == IF f = 1 THEN {1, 2} ELSE {segments - 1, segments}
             one(i) == Run(HeadOf(i, moved), TailOf(i, moved, end), {i}, limits[i])
             new == RescuedRuns(f, v)
  <1>0. segments \in Nat /\ segments >= 2 /\ Len(junctions) = segments - 1
    BY RouteAssumption DEF Authored, JunctionsOf
  <1>1. /\ end \in States /\ end.at = Vertices
        /\ StatedTail # 0 => end.speed = StatedTail
    BY GoalTypes, RouteAssumption DEF Authored
  <1>2. new = [i \in 1..segments |-> IF i \in edge THEN one(i) ELSE runs[i]]
    BY LenProperties DEF RescuedRuns
  <1>3. /\ moved \in Seq(States) /\ Len(moved) = segments - 1
        /\ \A i \in 1..(segments - 1) :
             i # HandoffPlace(f) => moved[i] = junctions[i]
    BY MovedJunctions
  <1> HIDE DEF end, moved, new
  <1>4. ASSUME NEW i \in 1..segments
        PROVE  /\ one(i) \in Runs /\ Alone(one(i), i, moved, limits)
               /\ i > Len(moved) => one(i).tail = end
    <2>1. moved \in Seq(States) /\ Len(moved) = segments - 1
      BY <1>3
    <2> QED
      BY <2>1, <1>1, SegmentFits, Zenon
  <1> HIDE DEF one
  <1>5. ASSUME NEW i \in 1..segments, i \notin edge
        PROVE  Alone(runs[i], i, moved, limits)
    <2>0. Alone(runs[i], i, junctions, limits)
      BY DEF Plain
    <2>1. /\ i # HandoffPlace(f) /\ i # HandoffPlace(f) + 1
          /\ i - 1 # HandoffPlace(f)
      BY <1>0, <1>5 DEF HandoffPlace
    <2>2. i <= Len(moved) => moved[i] = junctions[i]
      BY <2>1, <1>0, <1>3
    <2>3. HeadOf(i, moved) = HeadOf(i, junctions)
      <3>1. CASE i = 1
        BY <3>1 DEF HeadOf
      <3>2. CASE i # 1
        <4>1. i - 1 \in 1..(segments - 1)
          BY <3>2, <1>0
        <4>2. moved[i - 1] = junctions[i - 1]
          BY <4>1, <2>1, <1>3, Zenon
        <4> QED
          BY <3>2, <4>2 DEF HeadOf
      <3> QED
        BY <3>1, <3>2
    <2>4. Len(moved) = Len(junctions)
      BY <1>0, <1>3
    <2> QED
      BY <2>0, <2>2, <2>3, <2>4 DEF Alone
  <1>6. \A i \in 1..segments : runs[i] \in Runs
    BY ElementOfSeq
  <1>7. new \in [1..segments -> Runs]
    <2>1. \A i \in 1..segments : (IF i \in edge THEN one(i) ELSE runs[i]) \in Runs
      BY <1>4, <1>6
    <2> QED
      BY <1>2, <2>1
  <1>8. new \in Seq(Runs) /\ Len(new) = segments
    BY <1>0, <1>7, FunctionIsSeq
  <1>9. \A i \in 1..segments : new[i] = IF i \in edge THEN one(i) ELSE runs[i]
    BY <1>2
  <1>10. Plain(new, segments, moved, limits)
    <2>1. ASSUME NEW i \in 1..segments
          PROVE  Alone(new[i], i, moved, limits)
      <3>1. CASE i \in edge
        <4>1. new[i] = one(i)
          BY <3>1, <1>9
        <4> QED
          BY <4>1, <1>4
      <3>2. CASE i \notin edge
        <4>1. new[i] = runs[i]
          BY <3>2, <1>9
        <4> QED
          BY <4>1, <3>2, <1>5
      <3> QED
        BY <3>1, <3>2
    <2> QED
      BY <2>1 DEF Plain
  <1>11. Ends(new, StatedTail)
    <2>0. segments \in 1..segments /\ segments > Len(moved)
      BY <1>0, <1>3
    <2>1. new[segments] = one(segments) \/ new[segments] = runs[segments]
      BY <2>0, <1>9
    <2> QED
      BY <2>0, <2>1, <1>1, <1>4, <1>8 DEF Ends
  <1> QED
    BY <1>8, <1>10, <1>11 DEF new, moved

\* The baseline's segments too stand alone, whatever their last goal.
LEMMA SegmentRunFits ==
  ASSUME Authored
  PROVE  \A i \in 1..segments :
           SegmentRun(i) \in Runs /\ Alone(SegmentRun(i), i, junctions, limits)
  <1>0. /\ segments \in Nat /\ segments >= 2 /\ segments \in 1..segments
        /\ junctions \in Seq(States) /\ Len(junctions) = segments - 1
    BY RouteAssumption DEF Authored, JunctionsOf
  <1>1. LastGoal \in States /\ LastGoal.at = Vertices
    <2> DEFINE speeds == {Goal(Cruise).speed, Ceiling(limits[segments])}
    <2>1. Goal(Cruise).speed \in 0..Cruise
      BY GoalTypes, RouteAssumption DEF Authored, States
    <2>2. Ceiling(limits[segments]) \in 0..Cruise
      BY <1>0, LimitTypes
    <2>3. speeds \in SUBSET Nat /\ speeds \subseteq 0..Cruise /\ speeds # {}
      BY <2>1, <2>2, RouteAssumption
    <2>4. LastGoal = [at |-> Vertices, speed |-> Min(speeds)]
      BY DEF LastGoal
    <2> HIDE DEF speeds
    <2>5. Min(speeds) \in 0..Cruise
      BY <2>3, LeastNatural
    <2> QED
      BY <2>4, <2>5, RouteAssumption DEF States
  <1> QED
    BY <1>0, <1>1, SegmentFits, Zenon DEF SegmentRun

\* A merged run spans both segments, under the limits of both; a weight one
\* of them declared is lost only when that is noted.
LEMMA MergedRunTypes ==
  ASSUME Authored, job \in Jobs, NEW lo \in 1..(segments - 1)
  PROVE  LET merged == MergedRun(lo, lo + 1)
         IN  /\ merged \in Runs
             /\ merged.head = HeadOf(lo, junctions)
             /\ lo + 1 <= segments - 1 => merged.tail = junctions[lo + 1]
             /\ lo + 1 = segments => merged.tail = Goal(Cruise)
             /\ merged.covers = {lo, lo + 1}
             /\ \A i \in {lo, lo + 1} :
                  limits[i].max # 0 => merged.max \in 1..limits[i].max
             /\ ~ DropsSoft(lo, lo + 1) =>
                  \A i \in {lo, lo + 1} : limits[i].soft \in {0, merged.soft}
  <1> DEFINE hi == lo + 1
             merged == MergedRun(lo, hi)
             o == MergedOverride(lo, hi)
             profile == ProfileOf(MergedPhase(lo, hi))
  <1>0. /\ segments \in Nat /\ segments >= 2 /\ segments <= MaxSegments
        /\ junctions \in Seq(States) /\ Len(junctions) = segments - 1
        /\ lo \in 1..segments /\ hi \in 1..segments
        /\ {lo, hi} \in SUBSET (1..MaxSegments)
    BY RouteAssumption DEF Authored, JunctionsOf
  <1>1. MergedPhase(lo, hi) \in Phases
    BY <1>0 DEF MergedPhase, Phases
  <1>2. profile \in Override
    BY <1>1, DeclarationTypes
  <1>3. o.max = HardMin({profile, limits[lo], limits[hi]}) /\ o.soft = profile.soft
    BY DEF MergedOverride
  <1>4. /\ limits[lo] \in Override /\ limits[hi] \in Override
    BY <1>0, LimitTypes
  <1> HIDE DEF hi, profile, o
  <1>5. /\ o.max \in 0..Cruise /\ o.soft \in 0..2
        /\ \A i \in {lo, hi} : limits[i].max # 0 => o.max \in 1..limits[i].max
    <2> DEFINE both == {profile, limits[lo], limits[hi]}
    <2>1. \A x \in both : x.max \in 0..Cruise
      BY <1>2, <1>4, OverrideTypes
    <2>2. o.max = HardMin(both)
      BY <1>3
    <2>3. limits[lo] \in both /\ limits[hi] \in both
      OBVIOUS
    <2> HIDE DEF both
    <2>4. /\ HardMin(both) \in 0..Cruise
          /\ \A x \in both : x.max # 0 => HardMin(both) \in 1..x.max
      BY <2>1, HardMinBounds
    <2>5. o.soft \in 0..2
      BY <1>2, <1>3, OverrideTypes
    <2> QED
      BY <2>2, <2>3, <2>4, <2>5
  <1>6. merged = Run(HeadOf(lo, junctions), TailOf(hi, junctions, Goal(Cruise)), {lo, hi}, o)
    BY DEF MergedRun, o
  <1>7. Goal(Cruise) \in States /\ Goal(Cruise).at = Vertices
    BY GoalTypes, RouteAssumption DEF Authored
  <1>8. /\ HeadOf(lo, junctions) \in States
        /\ TailOf(hi, junctions, Goal(Cruise)) \in States
    BY <1>0, <1>7, BoundaryTypes DEF Authored
  <1>9. merged \in Runs
    BY <1>0, <1>5, <1>6, <1>8, RunTypes
  <1>10. /\ merged.head = HeadOf(lo, junctions)
         /\ merged.tail = TailOf(hi, junctions, Goal(Cruise))
         /\ merged.covers = {lo, hi} /\ merged.max = o.max /\ merged.soft = o.soft
    BY <1>6, RunFields
  <1>11. /\ hi <= segments - 1 =>
              TailOf(hi, junctions, Goal(Cruise)) = junctions[hi]
         /\ hi = segments =>
              TailOf(hi, junctions, Goal(Cruise)) = Goal(Cruise)
    BY <1>0 DEF TailOf
  <1>12. ASSUME ~ DropsSoft(lo, hi)
         PROVE  \A i \in {lo, hi} : limits[i].soft \in {0, o.soft}
    BY <1>3, <1>12 DEF DropsSoft, profile
  <1> HIDE DEF merged
  <1> QED
    BY <1>5, <1>7, <1>9, <1>10, <1>11, <1>12 DEF merged, hi

\* The runs after a merge of lo and lo + 1.
MergedRuns(lo) ==
  RemoveAt([runs EXCEPT ![lo] = MergedRun(lo, lo + 1)], lo + 1)

\* A merge keeps the chain sound, and keeps the edge runs unless it takes
\* them.
LEMMA MergedRunsFit ==
  ASSUME Authored, job \in Jobs, NEW lo \in 1..(segments - 1),
         runs \in Seq(Runs), Len(runs) = segments,
         Plain(runs, segments, junctions, limits), Ends(runs, StatedTail)
  PROVE  /\ MergedRuns(lo) \in Seq(Runs) /\ Len(MergedRuns(lo)) = segments - 1
         /\ SeamsOf(MergedRuns(lo), limits) /\ LimitsOf(MergedRuns(lo), limits)
         /\ Ends(MergedRuns(lo), StatedTail)
         /\ ~ DropsSoft(lo, lo + 1) => SoftOf(MergedRuns(lo), limits)
         /\ lo > 1 => MergedRuns(lo)[1] = runs[1]
         /\ lo + 1 < segments =>
              MergedRuns(lo)[segments - 1] = runs[segments]
  <1> DEFINE merged == MergedRun(lo, lo + 1)
             swapped == [runs EXCEPT ![lo] = merged]
             new == RemoveAt(swapped, lo + 1)
  <1>0. /\ segments \in Nat /\ segments >= 2
        /\ junctions \in Seq(States) /\ Len(junctions) = segments - 1
        /\ JunctionsOf(junctions, segments) /\ Len(limits) = segments
        /\ lo \in 1..segments /\ lo + 1 \in 1..segments
    BY RouteAssumption DEF Authored, JunctionsOf
  <1>1. /\ merged \in Runs
        /\ merged.head = HeadOf(lo, junctions)
        /\ lo + 1 <= segments - 1 => merged.tail = junctions[lo + 1]
        /\ lo + 1 = segments => merged.tail = Goal(Cruise)
        /\ merged.covers = {lo, lo + 1}
        /\ \A i \in {lo, lo + 1} :
             limits[i].max # 0 => merged.max \in 1..limits[i].max
        /\ ~ DropsSoft(lo, lo + 1) =>
             \A i \in {lo, lo + 1} : limits[i].soft \in {0, merged.soft}
    BY MergedRunTypes
  <1>2. /\ Goal(Cruise).at = Vertices
        /\ StatedTail # 0 => Goal(Cruise).speed = StatedTail
    BY GoalTypes, RouteAssumption DEF Authored
  <1> HIDE DEF merged
  <1>3. /\ swapped \in Seq(Runs) /\ Len(swapped) = segments
        /\ \A j \in 1..segments : swapped[j] = IF j = lo THEN merged ELSE runs[j]
    BY <1>0, <1>1, ExceptSeq
  <1> HIDE DEF swapped
  <1>4. /\ new \in Seq(Runs) /\ Len(new) = segments - 1
        /\ \A i \in 1..(segments - 1) :
             new[i] = IF i < lo + 1 THEN swapped[i] ELSE swapped[i + 1]
    <2>1. lo + 1 \in 1..Len(swapped)
      BY <1>0, <1>3
    <2>2. /\ new \in Seq(Runs) /\ Len(new) = Len(swapped) - 1
          /\ \A i \in 1..(Len(swapped) - 1) :
               new[i] = IF i < lo + 1 THEN swapped[i] ELSE swapped[i + 1]
      BY <1>3, <2>1, RemoveOne, Zenon
    <2> QED
      BY <1>3, <2>2, Zenon
  <1> HIDE DEF new
  <1>5. ASSUME NEW i \in 1..(segments - 1)
        PROVE  new[i] = IF i < lo THEN runs[i]
                        ELSE IF i = lo THEN merged ELSE runs[i + 1]
    <2>1. i \in 1..segments /\ i + 1 \in 1..segments
      BY <1>0
    <2>2. swapped[i + 1] = IF i + 1 = lo THEN merged ELSE runs[i + 1]
      BY <2>1, <1>3, Zenon
    <2> QED
      BY <2>1, <2>2, <1>3, <1>4
  <1>6. \A i \in 1..segments : limits[i].max \in Nat
    BY LimitTypes
  <1>7. lo + 1 = segments => merged.tail.at = Vertices
    BY <1>1, <1>2
  <1>8. /\ SeamsOf(new, limits) /\ LimitsOf(new, limits)
        /\ (\A i \in {lo, lo + 1} : limits[i].soft \in {0, merged.soft})
             => SoftOf(new, limits)
    <2>1. Spans(merged, lo, segments, junctions, limits)
      BY <1>1, <1>7 DEF Spans
    <2>2. MergedInto(new, runs, segments, lo, merged)
      BY <1>4, <1>5 DEF MergedInto
    <2>3. Len(runs) = segments /\ Plain(runs, segments, junctions, limits)
      OBVIOUS
    <2>4. ChainOf(runs, segments, junctions, limits)
      BY <1>0, <1>6, <2>3 DEF ChainOf
    <2>5. segments \in Nat /\ segments >= 2 /\ lo \in 1..(segments - 1)
      BY <1>0
    <2>6. SoundMerge(new, limits, lo, merged)
      BY <2>1, <2>2, <2>4, <2>5, MergedIsSound, Zenon
    <2> QED
      BY <2>6 DEF SoundMerge
  <1>9. lo > 1 => new[1] = runs[1]
    BY <1>0, <1>5
  <1>10. lo + 1 < segments => new[segments - 1] = runs[segments]
    <2>1. ASSUME lo + 1 < segments
          PROVE  new[segments - 1] = runs[(segments - 1) + 1]
      <3>1. segments - 1 \in 1..(segments - 1)
        BY <1>0
      <3>2. ~ (segments - 1 < lo) /\ segments - 1 # lo
        BY <1>0, <2>1
      <3> QED
        BY <3>1, <3>2, <1>5, Zenon
    <2>2. (segments - 1) + 1 = segments
      BY <1>0
    <2> QED
      BY <2>1, <2>2
  <1>11. Ends(new, StatedTail)
    <2>1. CASE lo + 1 < segments
      BY <2>1, <1>4, <1>10 DEF Ends
    <2>2. CASE lo + 1 = segments
      <3>1. segments - 1 = lo
        BY <2>2, <1>0
      <3>2. new[segments - 1] = merged
        BY <3>1, <1>0, <1>5
      <3> QED
        BY <2>2, <3>2, <1>1, <1>2, <1>4 DEF Ends
    <2> QED
      BY <2>1, <2>2, <1>0
  <1> QED
    BY <1>1, <1>4, <1>8, <1>9, <1>10, <1>11 DEF MergedRuns, new, swapped, merged

-----------------------------------------------------------------------------
(***************************************************************************)
(* The invariant of the chain.                                             *)
(***************************************************************************)

\* TypeOK in parts: the entry, the chain, the answer.
TypeEntry ==
  /\ pc \in {"idle", "enter", "transition", "dispatch", "size", "author",
             "solve", "retry", "direct", "fallback", "judge", "stitch",
             "segments", "stitch_segments", "done"}
  /\ job \in Jobs /\ relaxed \in BOOLEAN /\ small \in BOOLEAN
  /\ held \in {"none", "old"} /\ slot \in {"none", "old", "new"}
  /\ soft_drop_note \in BOOLEAN
  /\ phase_applied \in BOOLEAN /\ phase_note \in BOOLEAN
  /\ prefix \in BOOLEAN

TypeChain ==
  /\ segments \in 1..MaxSegments
  /\ junctions \in Seq(States) /\ limits \in Seq(Override)
  /\ runs \in Seq(Runs) /\ attempts \in Seq(1..(Vertices + MaxSegments))
  /\ failed \in 0..MaxSegments
  /\ dep_candidates \in Seq(1..(Vertices - 1))
  /\ arr_candidates \in Seq(1..(Vertices - 1))

\* What may be stored.
Flights == [kind : Kinds, runs : Seq(Runs), prefix : BOOLEAN,
            labels : BOOLEAN, verdict : Verdicts \cup {"unjudged"},
            judged : Override]

TypeAnswer ==
  /\ params \in Override /\ optimizer \in Override
  /\ flight \in Flights
  /\ result \in ConsistentResults

\* Past the dispatch there is one goal and its stated end is within the
\* envelope.
GoalInv ==
  /\ pc \in {"size", "author", "solve", "retry", "direct", "fallback",
             "judge", "stitch"} => ~ job.multi
  /\ pc \notin {"idle", "enter", "done"} => StatedTail \in 0..Cruise

\* From authoring to the answer the junctions advance and every segment has
\* its limits.
AuthoredInv ==
  /\ pc \in {"author", "solve", "retry", "segments"} =>
       segments \in 2..MaxSegments
  /\ pc \in {"solve", "retry", "segments"} =>
       JunctionsOf(junctions, segments) /\ Len(limits) = segments

\* A mission that asked for phases has them or a note that says it has not;
\* the outer junctions of a phased chain are screened hand-offs.
HandoffInv ==
  /\ pc \in {"solve", "retry", "stitch"} =>
       /\ job.phase => phase_applied \/ phase_note
       /\ phase_applied => job.phase
  /\ pc \in {"solve", "retry"} /\ phase_applied =>
       /\ junctions[1].at \in ToSet(dep_candidates)
       /\ junctions[segments - 1].at \in
            ToSet(IF segments = 2 THEN dep_candidates ELSE arr_candidates)

\* On the ladder the runs are still the workers', and what is left to try is
\* what the rung may try: neighbours to merge with, or hand-offs to move to.
RetryInv ==
  pc = "retry" =>
    /\ failed \in 1..segments
    /\ Len(runs) = segments /\ Plain(runs, segments, junctions, limits)
    /\ Ends(runs, StatedTail)
    /\ ~ MovesHandoff =>
         \A k \in 1..Len(attempts) : attempts[k] \in MergeSides(failed)
    /\ MovesHandoff /\ failed = 1 =>
         \A k \in 1..Len(attempts) : attempts[k] \in ToSet(dep_candidates)
    /\ MovesHandoff /\ failed # 1 =>
         \A k \in 1..Len(attempts) :
           segments # 2 /\ attempts[k] \in ToSet(arr_candidates)

\* What reaches the stitch is sound in every respect the answer speaks of.
StitchInv ==
  pc = "stitch" =>
    /\ SeamsOf(runs, limits) /\ LimitsOf(runs, limits)
    /\ Ends(runs, StatedTail)
    /\ phase_applied =>
         LabelsOf(runs, Len(limits), dep_candidates, arr_candidates)
    /\ ~ soft_drop_note => SoftOf(runs, limits)

\* The baseline's segments are solved in order, each alone.
SegmentsInv ==
  /\ pc = "segments" =>
       Len(runs) <= segments /\ Plain(runs, Len(runs), junctions, limits)
  /\ pc = "stitch_segments" =>
       SeamsOf(runs, limits) /\ LimitsOf(runs, limits)

\* The direct plan runs under the strictest limit in force, through the
\* solve.
DirectInv ==
  /\ pc = "fallback" => optimizer.max = HardMin(InForce)
  /\ pc = "judge" => Len(runs) = 1 /\ runs[1].max = HardMin(InForce)

\* The last conjunct of TypeOK.
CountInv ==
  pc \in {"stitch", "stitch_segments"} =>
    Len(runs) = segments /\ Len(junctions) = segments - 1

\* The mission between plans is a mission.
LEMMA IdleJobType == IdleJob \in Jobs
  <1>1. (CHOOSE d \in Declared : TRUE) \in Declared
    BY DeclaredAssumption
  <1> QED
    BY <1>1, RouteAssumption DEF IdleJob, Jobs

\* By which actions a plan comes to stand where it does, and which can
\* deliver.
LEMMA Arrivals ==
  ASSUME [Next]_vars
  PROVE  /\ pc' = "author" => Size \/ UNCHANGED vars
         /\ pc' = "solve" => Author \/ UNCHANGED vars
         /\ pc' = "retry" =>
              \/ \E bad \in SUBSET (1..segments) : Solve(bad)
              \/ Merge \/ RescueFails \/ UNCHANGED vars
         /\ pc' = "stitch" =>
              \/ \E bad \in SUBSET (1..segments) : Solve(bad)
              \/ Merge \/ RescueEdge \/ UNCHANGED vars
         /\ pc' = "fallback" => ApplyHardLimits \/ UNCHANGED vars
         /\ pc' = "judge" => PlanDirect \/ UNCHANGED vars
         /\ pc' = "segments" => Baseline \/ SolveSegment \/ UNCHANGED vars
         /\ pc' = "stitch_segments" =>
              RestoreBeforeStitch \/ UNCHANGED vars
         /\ Delivered' =>
              \/ MultiWaypoint \/ JudgeDirect \/ Stitch \/ Baseline
              \/ SolveSegment \/ StitchSegments \/ UNCHANGED vars
  <1> USE DEF Refuse, Answer, KeepSlot
  <1>1. ASSUME Begin PROVE pc' = "enter"
    BY <1>1 DEF Begin
  <1>2. ASSUME Enter PROVE pc' \in {"transition", "dispatch", "done"} /\ ~ Delivered'
    BY <1>2, RefusalsDeliverNothing DEF Enter, Delivered
  <1>3. ASSUME Transition PROVE pc' \in {"size", "done"} /\ ~ Delivered'
    BY <1>3, RefusalsDeliverNothing DEF Transition, Delivered
  <1>4. ASSUME MultiWaypoint PROVE pc' = "done"
    BY <1>4 DEF MultiWaypoint
  <1>5. ASSUME CommitRoute PROVE pc' \in {"size", "done"} /\ ~ Delivered'
    BY <1>5, RefusalsDeliverNothing DEF CommitRoute, Delivered
  <1>6. ASSUME Size PROVE pc' \in {"author", "direct"}
    BY <1>6 DEF Size
  <1>7. ASSUME Author PROVE pc' = "solve"
    BY <1>7 DEF Author
  <1>8. ASSUME AuthorFails PROVE pc' = "direct"
    BY <1>8 DEF AuthorFails
  <1>9. ASSUME NEW bad \in SUBSET (1..segments), Solve(bad)
        PROVE  pc' \in {"stitch", "retry", "direct"}
    BY <1>9 DEF Solve
  <1>10. ASSUME RescueEdge PROVE pc' = "stitch"
    BY <1>10 DEF RescueEdge
  <1>11. ASSUME Merge PROVE pc' \in {"stitch", "retry"}
    BY <1>11 DEF Merge
  <1>12. ASSUME RescueFails PROVE pc' = "retry"
    BY <1>12 DEF RescueFails
  <1>13. ASSUME Exhausted PROVE pc' = "direct"
    BY <1>13 DEF Exhausted
  <1>14. ASSUME ForbidDirect PROVE pc' = "done" /\ ~ Delivered'
    BY <1>14, RefusalsDeliverNothing DEF ForbidDirect, Delivered
  <1>15. ASSUME ApplyHardLimits PROVE pc' = "fallback"
    BY <1>15 DEF ApplyHardLimits
  <1>16. ASSUME PlanDirect PROVE pc' \in {"judge", "done"} /\ ~ Delivered'
    BY <1>16, RefusalsDeliverNothing DEF PlanDirect, Delivered
  <1>17. ASSUME JudgeDirect PROVE pc' = "done"
    BY <1>17 DEF JudgeDirect
  <1>18. ASSUME Stitch PROVE pc' = "done"
    BY <1>18 DEF Stitch
  <1>19. ASSUME Baseline PROVE pc' \in {"segments", "done"}
    BY <1>19 DEF Baseline
  <1>20. ASSUME SolveSegment PROVE pc' \in {"segments", "done"}
    BY <1>20 DEF SolveSegment
  <1>21. ASSUME RestoreBeforeStitch PROVE pc' = "stitch_segments"
    BY <1>21 DEF RestoreBeforeStitch
  <1>22. ASSUME StitchSegments PROVE pc' = "done"
    BY <1>22 DEF StitchSegments
  <1>23. ASSUME Return PROVE pc' = "idle"
    BY <1>23 DEF Return
  <1>24. Delivered' => pc' = "done"
    BY DEF Delivered
  <1> HIDE DEF Refuse, Answer, KeepSlot
  <1> QED
    BY <1>1, <1>2, <1>3, <1>4, <1>5, <1>6, <1>7, <1>8, <1>9, <1>10, <1>11,
      <1>12, <1>13, <1>14, <1>15, <1>16, <1>17, <1>18, <1>19, <1>20, <1>21,
      <1>22, <1>23, <1>24 DEF Next

\* Every step keeps it.
LEMMA TypeEntryStep ==
  ASSUME TypeEntry, [Next]_vars
  PROVE  TypeEntry'
  <1> USE DEF TypeEntry, KeepSlot, Refuse, Answer, Store, Invalidate, vars,
    entryVars, phaseVars, chainVars, ladderVars, tuningVars, answerVars
  <1>1. CASE Begin
    BY <1>1 DEF Begin
  <1>2. CASE Enter
    <2>1. relaxed' \in BOOLEAN
      <3>1. CASE UNCHANGED relaxed
        BY <3>1
      <3>2. CASE relaxed' = (job.tail > Cruise)
        BY <3>2
      <3>3. UNCHANGED relaxed \/ relaxed' = (job.tail > Cruise)
        BY <1>2, Zenon DEF Enter
      <3> QED
        BY <3>1, <3>2, <3>3, Zenon
    <2>2. UNCHANGED <<job, small, held, slot, soft_drop_note, phase_applied, phase_note, prefix>>
      BY <1>2 DEF Enter
    <2>3. pc' \in {"done", "transition", "dispatch"}
      BY <1>2 DEF Enter
    <2> QED
      BY <2>1, <2>2, <2>3
  <1>3. CASE Transition
    BY <1>3 DEF Transition
  <1>4. CASE MultiWaypoint
    BY <1>4 DEF MultiWaypoint
  <1>5. CASE CommitRoute
    BY <1>5 DEF CommitRoute
  <1>6. CASE Size
    BY <1>6 DEF Size
  <1>7. CASE Author
    BY <1>7 DEF Author, Jobs
  <1>8. CASE AuthorFails
    BY <1>8 DEF AuthorFails
  <1>9. ASSUME NEW bad \in SUBSET (1..segments), Solve(bad)
        PROVE  TypeEntry'
    BY <1>9 DEF Solve
  <1>10. CASE RescueEdge
    BY <1>10 DEF RescueEdge
  <1>11. CASE Merge
    BY <1>11 DEF Merge
  <1>12. CASE RescueFails
    BY <1>12 DEF RescueFails
  <1>13. CASE Exhausted
    BY <1>13 DEF Exhausted
  <1>14. CASE ForbidDirect
    BY <1>14 DEF ForbidDirect
  <1>15. CASE ApplyHardLimits
    BY <1>15 DEF ApplyHardLimits
  <1>16. CASE PlanDirect
    BY <1>16 DEF PlanDirect
  <1>17. CASE JudgeDirect
    BY <1>17 DEF JudgeDirect
  <1>18. CASE Stitch
    BY <1>18 DEF Stitch
  <1>19. CASE Baseline
    BY <1>19 DEF Baseline
  <1>20. CASE SolveSegment
    BY <1>20 DEF SolveSegment
  <1>21. CASE RestoreBeforeStitch
    BY <1>21 DEF RestoreBeforeStitch
  <1>22. CASE StitchSegments
    BY <1>22 DEF StitchSegments
  <1>23. CASE Return
    BY <1>23, IdleJobType DEF Return
  <1>24. CASE UNCHANGED vars
    BY <1>24
  <1> QED
    BY <1>1, <1>2, <1>3, <1>4, <1>5, <1>6, <1>7, <1>8, <1>9, <1>10, <1>11,
      <1>12, <1>13, <1>14, <1>15, <1>16, <1>17, <1>18, <1>19, <1>20, <1>21,
      <1>22, <1>23, <1>24 DEF Next

\* Every step keeps it.
LEMMA GoalStep ==
  ASSUME TypeEntry, GoalInv, [Next]_vars
  PROVE  GoalInv'
  <1> USE DEF GoalInv, StatedTail, KeepSlot, Refuse, Answer, Store, Invalidate, vars,
    entryVars, phaseVars, chainVars, ladderVars, tuningVars, answerVars
  <1>1. CASE Begin
    BY <1>1 DEF Begin
  <1>2. CASE Enter
    <2>1. CASE pc' = "done"
      BY <2>1
    <2>2. CASE pc' # "done"
      <3>1. job.tail \in 0..(Cruise + 1) /\ UNCHANGED job
        BY <1>2 DEF Enter, TypeEntry, Jobs
      <3>2. /\ relaxed' <=> job.tail > Cruise
            /\ pc' \in {"transition", "dispatch"}
        BY <1>2, <2>2 DEF Enter
      <3>3. StatedTail' \in 0..Cruise
        BY <3>1, <3>2, RouteAssumption
      <3> QED
        BY <3>2, <3>3
    <2> QED
      BY <2>1, <2>2
  <1>3. CASE Transition
    BY <1>3 DEF Transition
  <1>4. CASE MultiWaypoint
    BY <1>4 DEF MultiWaypoint
  <1>5. CASE CommitRoute
    BY <1>5 DEF CommitRoute
  <1>6. CASE Size
    BY <1>6 DEF Size
  <1>7. CASE Author
    BY <1>7 DEF Author
  <1>8. CASE AuthorFails
    BY <1>8 DEF AuthorFails
  <1>9. ASSUME NEW bad \in SUBSET (1..segments), Solve(bad)
        PROVE  GoalInv'
    BY <1>9 DEF Solve
  <1>10. CASE RescueEdge
    BY <1>10 DEF RescueEdge
  <1>11. CASE Merge
    BY <1>11 DEF Merge
  <1>12. CASE RescueFails
    BY <1>12 DEF RescueFails
  <1>13. CASE Exhausted
    BY <1>13 DEF Exhausted
  <1>14. CASE ForbidDirect
    BY <1>14 DEF ForbidDirect
  <1>15. CASE ApplyHardLimits
    BY <1>15 DEF ApplyHardLimits
  <1>16. CASE PlanDirect
    BY <1>16 DEF PlanDirect
  <1>17. CASE JudgeDirect
    BY <1>17 DEF JudgeDirect
  <1>18. CASE Stitch
    BY <1>18 DEF Stitch
  <1>19. CASE Baseline
    BY <1>19 DEF Baseline
  <1>20. CASE SolveSegment
    BY <1>20 DEF SolveSegment
  <1>21. CASE RestoreBeforeStitch
    BY <1>21 DEF RestoreBeforeStitch
  <1>22. CASE StitchSegments
    BY <1>22 DEF StitchSegments
  <1>23. CASE Return
    BY <1>23 DEF Return
  <1>24. CASE UNCHANGED vars
    BY <1>24
  <1> QED
    BY <1>1, <1>2, <1>3, <1>4, <1>5, <1>6, <1>7, <1>8, <1>9, <1>10, <1>11,
      <1>12, <1>13, <1>14, <1>15, <1>16, <1>17, <1>18, <1>19, <1>20, <1>21,
      <1>22, <1>23, <1>24 DEF Next

-----------------------------------------------------------------------------
(***************************************************************************)
(* What the actions that touch the chain do to it.                         *)
(***************************************************************************)

\* Where a chain is authored, the facts about its runs apply.
LEMMA AuthoredChain ==
  ASSUME TypeChain, GoalInv, AuthoredInv,
         pc \in {"solve", "retry", "segments"}
  PROVE  Authored
  BY DEF TypeChain, GoalInv, AuthoredInv, Authored

\* The values a sequence takes are elements of what it is a sequence of.
LEMMA ElementsOfSeq ==
  ASSUME NEW S, NEW s \in Seq(S)
  PROVE  ToSet(s) \subseteq S
  BY LenProperties, ElementOfSeq DEF ToSet

\* The outer junctions of a chain are different ones unless N=2.
LEMMA HandoffPlaces ==
  ASSUME TypeChain, RetryInv, AuthoredInv, pc = "retry", MovesHandoff,
         attempts # <<>>
  PROVE  /\ failed \in {1, segments}
         /\ Head(attempts) \in 1..(Vertices - 1)
         /\ failed = 1 => Head(attempts) \in ToSet(dep_candidates)
         /\ failed # 1 =>
              segments # 2 /\ Head(attempts) \in ToSet(arr_candidates)
  <1>1. 1 \in 1..Len(attempts) /\ Head(attempts) = attempts[1]
    BY HeadTailProperties, EmptySeq DEF TypeChain
  <1>2. /\ failed = 1 => Head(attempts) \in ToSet(dep_candidates)
        /\ failed # 1 =>
              segments # 2 /\ Head(attempts) \in ToSet(arr_candidates)
    BY <1>1 DEF RetryInv
  <1>3. /\ ToSet(dep_candidates) \subseteq 1..(Vertices - 1)
        /\ ToSet(arr_candidates) \subseteq 1..(Vertices - 1)
    BY ElementsOfSeq DEF TypeChain
  <1>4. failed \in {1, segments}
    BY DEF MovesHandoff, Edge
  <1> QED
    BY <1>2, <1>3, <1>4

\* A merge takes two neighbouring segments, and in a phased chain neither the
\* departure nor the arrival.
LEMMA MergeSpan ==
  ASSUME TypeChain, RetryInv, AuthoredInv, pc = "retry", ~ MovesHandoff,
         attempts # <<>>
  PROVE  LET lo == Min({failed, Head(attempts)})
             hi == Max({failed, Head(attempts)})
         IN  /\ lo \in 1..(segments - 1) /\ hi = lo + 1
             /\ phase_applied => lo > 1 /\ lo + 1 < segments
  <1> DEFINE h == Head(attempts)
  <1>1. 1 \in 1..Len(attempts) /\ h = attempts[1]
    BY HeadTailProperties, EmptySeq DEF TypeChain
  <1>2. h \in MergeSides(failed)
    BY <1>1 DEF RetryInv
  <1> HIDE DEF h
  <1>3. failed \in 1..segments /\ segments \in Nat /\ segments >= 2
    BY RouteAssumption DEF RetryInv, AuthoredInv
  <1>4. /\ h \in {failed - 1, failed + 1} /\ h \in 1..segments
        /\ phase_applied => Min({failed, h}) \notin {1, segments - 1}
    BY <1>2 DEF MergeSides
  <1>5. failed \in Int /\ h \in Int
    BY <1>3, <1>4
  <1>6. /\ Min({failed, h}) = IF failed <= h THEN failed ELSE h
        /\ Max({failed, h}) = IF failed >= h THEN failed ELSE h
    BY <1>5, PairOrder
  <1>7. Min({failed, h}) \in 1..(segments - 1)
    BY <1>3, <1>4, <1>6
  <1>8. Max({failed, h}) = Min({failed, h}) + 1
    BY <1>3, <1>4, <1>6
  <1> QED
    BY <1>3, <1>4, <1>7, <1>8 DEF h

\* An order of the sides to merge with is made of those sides.
LEMMA MergeAttemptsAreSides ==
  ASSUME NEW f \in Int, segments \in Nat, NEW s \in MergeAttempts(f)
  PROVE  s \in Seq(MergeSides(f))
  <1>1. MergeSides(f) \subseteq {f - 1, f + 1}
    BY DEF MergeSides
  <1>2. IsFiniteSet({f - 1, f + 1})
    <2>1. IsFiniteSet({f - 1})
      BY FS_Singleton
    <2>2. {f - 1, f + 1} = {f - 1} \cup {f + 1}
      OBVIOUS
    <2> QED
      BY <2>1, <2>2, FS_AddElement
  <1>3. Cardinality(MergeSides(f)) \in Nat
    BY <1>1, <1>2, FS_Subset, FS_CardinalityType
  <1>4. s \in [1..Cardinality(MergeSides(f)) -> MergeSides(f)]
    BY DEF MergeAttempts, SetToSeqs
  <1> QED
    BY <1>3, <1>4, FunctionIsSeq

\* What an edge segment is retried at are screened hand-offs.
LEMMA EdgeAttemptsAreCandidates ==
  ASSUME TypeChain, NEW f
  PROVE  /\ EdgeAttempts(f) \in Seq(1..(Vertices - 1))
         /\ \A k \in 1..Len(EdgeAttempts(f)) :
              EdgeAttempts(f)[k] \in
                ToSet(IF f = 1 THEN dep_candidates ELSE arr_candidates)
  <1>1. CASE f = 1
    BY <1>1 DEF EdgeAttempts, TypeChain, ToSet
  <1>2. CASE f # 1
    <2> DEFINE n == Len(arr_candidates)
    <2>1. n \in Nat /\ arr_candidates \in Seq(1..(Vertices - 1))
      BY DEF TypeChain
    <2>2. \A i \in 2..n : arr_candidates[i] \in 1..(Vertices - 1)
      <3>1. \A i \in 2..n : i \in 1..n
        BY <2>1
      <3> QED
        BY <2>1, <3>1, ElementOfSeq
    <2>3. /\ SubSeq(arr_candidates, 2, n) \in Seq(1..(Vertices - 1))
          /\ Len(SubSeq(arr_candidates, 2, n)) = IF 2 <= n THEN n - 2 + 1 ELSE 0
          /\ \A i \in 1..(n - 2 + 1) :
               SubSeq(arr_candidates, 2, n)[i] = arr_candidates[2 + i - 1]
      BY <2>1, <2>2, SubSeqProperties
    <2>4. ASSUME NEW k \in 1..Len(SubSeq(arr_candidates, 2, n))
          PROVE  SubSeq(arr_candidates, 2, n)[k] \in ToSet(arr_candidates)
      <3>1. k \in 1..(n - 2 + 1) /\ 2 + k - 1 \in 1..n
        BY <2>1, <2>3
      <3>2. SubSeq(arr_candidates, 2, n)[k] = arr_candidates[2 + k - 1]
        BY <3>1, <2>3, Zenon
      <3>3. DOMAIN arr_candidates = 1..n
        BY <2>1
      <3> QED
        BY <3>1, <3>2, <3>3 DEF ToSet
    <2> QED
      BY <1>2, <2>3, <2>4 DEF EdgeAttempts
  <1> QED
    BY <1>1, <1>2

\* Candidate hand-offs are sequences of vertices inside the route.
LEMMA CandidateTypes ==
  ASSUME NEW c \in Candidates
  PROVE  c \in Seq(1..(Vertices - 1)) /\ Len(c) >= 1
  <1>1. PICK n \in 1..MaxCandidates : c \in [1..n -> 1..(Vertices - 1)]
    BY DEF Candidates
  <1>2. n \in Nat /\ n >= 1
    BY <1>1
  <1> QED
    BY <1>1, <1>2, FunctionIsSeq

\* The head of a sequence that is not empty is its first element.
LEMMA FirstElement ==
  ASSUME NEW S, NEW s \in Seq(S), Len(s) >= 1
  PROVE  s[1] \in ToSet(s)
  <1>1. 1 \in DOMAIN s
    BY LenProperties
  <1> QED
    BY <1>1 DEF ToSet

\* Authoring yields a sliceable chain, its limits and its outer hand-offs.
LEMMA AuthorStep ==
  ASSUME TypeEntry, TypeChain, AuthoredInv, Author
  PROVE  /\ segments \in 2..MaxSegments /\ UNCHANGED segments
         /\ junctions' \in Seq(States) /\ JunctionsOf(junctions', segments)
         /\ limits' \in Seq(Override) /\ Len(limits') = segments
         /\ dep_candidates' \in Seq(1..(Vertices - 1))
         /\ arr_candidates' \in Seq(1..(Vertices - 1))
         /\ job.phase => phase_applied' \/ phase_note'
         /\ phase_applied' =>
              /\ job.phase
              /\ junctions'[1].at \in ToSet(dep_candidates')
              /\ junctions'[segments - 1].at \in
                   ToSet(IF segments = 2 THEN dep_candidates'
                         ELSE arr_candidates')
  <1>0. /\ segments \in 2..MaxSegments /\ segments \in Nat /\ segments >= 2
        /\ segments \in 1..MaxSegments /\ job \in Jobs
        /\ job.phase \in BOOLEAN
    BY RouteAssumption DEF Author, AuthoredInv, TypeEntry, Jobs
  <1>1. PICK vs \in Picks :
          /\ \/ /\ phase_applied' = FALSE /\ phase_note' = job.phase
                /\ UNCHANGED <<dep_candidates, arr_candidates>>
             \/ /\ job.phase
                /\ dep_candidates' \in Candidates
                /\ arr_candidates' \in Candidates \cup {<<>>}
                /\ Handoffs(vs, dep_candidates', arr_candidates')
                /\ phase_applied' = TRUE /\ phase_note' = FALSE
          /\ limits' = EffectiveLimits
          /\ junctions' = Harmonised(vs, EffectiveLimits)
    BY Zenon DEF Author
  <1>2. EffectiveLimits \in Seq(Override) /\ Len(EffectiveLimits) = segments
    BY <1>0, EffectiveLimitTypes
  <1>3. vs \in [1..(segments - 1) -> 1..(Vertices - 1)] /\ Increasing(vs)
    BY DEF Picks
  <1>4. /\ junctions' \in Seq(States) /\ JunctionsOf(junctions', segments)
        /\ \A i \in 1..(segments - 1) : junctions'[i].at = vs[i]
    BY <1>0, <1>1, <1>2, <1>3, HarmonisedJunctions
  <1>5. CASE /\ phase_applied' = FALSE /\ phase_note' = job.phase
             /\ UNCHANGED <<dep_candidates, arr_candidates>>
    BY <1>0, <1>1, <1>2, <1>4, <1>5 DEF Author, TypeChain
  <1>6. CASE /\ job.phase
             /\ dep_candidates' \in Candidates
             /\ arr_candidates' \in Candidates \cup {<<>>}
             /\ Handoffs(vs, dep_candidates', arr_candidates')
             /\ phase_applied' = TRUE /\ phase_note' = FALSE
    <2>1. /\ dep_candidates' \in Seq(1..(Vertices - 1))
          /\ Len(dep_candidates') >= 1
      BY <1>6, CandidateTypes
    <2>2. arr_candidates' \in Seq(1..(Vertices - 1))
      BY <1>6, CandidateTypes, EmptySeq
    <2>3. vs[1] \in ToSet(dep_candidates')
      BY <1>6, <2>1, FirstElement DEF Handoffs
    <2>4. vs[segments - 1] \in
            ToSet(IF segments = 2 THEN dep_candidates' ELSE arr_candidates')
      <3>1. CASE segments = 2
        BY <3>1, <2>3
      <3>2. CASE segments # 2
        <4>1. arr_candidates' \in Candidates /\ vs[segments - 1] = arr_candidates'[1]
          BY <1>6, <3>2 DEF Handoffs
        <4>2. vs[segments - 1] \in ToSet(arr_candidates')
          BY <4>1, CandidateTypes, FirstElement
        <4> QED
          BY <3>2, <4>2
      <3> QED
        BY <3>1, <3>2
    <2>5. 1 \in 1..(segments - 1) /\ segments - 1 \in 1..(segments - 1)
      BY <1>0
    <2>6. junctions'[1].at = vs[1] /\ junctions'[segments - 1].at = vs[segments - 1]
      BY <2>5, <1>4, Zenon
    <2>7. UNCHANGED segments
      BY DEF Author
    <2> QED
      BY <1>0, <1>1, <1>2, <1>4, <1>6, <2>1, <2>2, <2>3, <2>4, <2>6, <2>7
  <1> QED
    BY <1>1, <1>5, <1>6, Zenon

\* The workers' outcome: a sound chain, or one failed segment and its ladder.
LEMMA SolveStep ==
  ASSUME TypeEntry, TypeChain, GoalInv, AuthoredInv,
         NEW bad \in SUBSET (1..segments), Solve(bad)
  PROVE  /\ Authored /\ UNCHANGED <<segments, junctions, limits>>
         /\ runs' \in Seq(Runs) /\ Len(runs') = segments
         /\ Plain(runs', segments, junctions, limits)
         /\ Ends(runs', StatedTail)
         /\ attempts' \in Seq(1..(Vertices + MaxSegments))
         /\ failed' \in 0..MaxSegments
         /\ pc' = "retry" =>
              /\ failed' \in 1..segments
              /\ ~ (phase_applied /\ Edge(failed')) =>
                   \A k \in 1..Len(attempts') :
                     attempts'[k] \in MergeSides(failed')
              /\ phase_applied /\ failed' = 1 =>
                   \A k \in 1..Len(attempts') :
                     attempts'[k] \in ToSet(dep_candidates)
              /\ phase_applied /\ Edge(failed') /\ failed' # 1 =>
                   \A k \in 1..Len(attempts') :
                     segments # 2 /\ attempts'[k] \in ToSet(arr_candidates)
  <1>0. Authored
    BY AuthoredChain DEF Solve
  <1>1. UNCHANGED <<segments, junctions, limits>>
    BY DEF Solve
  <1>2. /\ runs' \in Seq(Runs) /\ Len(runs') = segments
        /\ Plain(runs', segments, junctions, limits)
        /\ Ends(runs', StatedTail)
    <2>1. runs' = WorkerRuns
      BY DEF Solve
    <2> QED
      BY <1>0, <2>1, WorkerRunsFit
  <1>3. segments \in Nat /\ segments \in 2..MaxSegments /\ MaxSegments \in Nat /\ Vertices \in Nat
    BY <1>0, RouteAssumption DEF Authored
  <1>4. CASE UNCHANGED <<attempts, failed>> /\ pc' # "retry"
    BY <1>0, <1>1, <1>2, <1>4 DEF TypeChain
  <1>5. ASSUME NEW f \in bad, failed' = f, pc' = "retry",
               IF phase_applied /\ Edge(f)
               THEN attempts' = IF segments = 2 /\ f = 2 THEN <<>>
                                ELSE EdgeAttempts(f)
               ELSE attempts' \in MergeAttempts(f)
        PROVE  /\ failed' \in 1..segments
               /\ attempts' \in Seq(1..(Vertices + MaxSegments))
               /\ ~ (phase_applied /\ Edge(f)) =>
                    \A k \in 1..Len(attempts') : attempts'[k] \in MergeSides(f)
               /\ phase_applied /\ f = 1 =>
                    \A k \in 1..Len(attempts') :
                      attempts'[k] \in ToSet(dep_candidates)
               /\ phase_applied /\ Edge(f) /\ f # 1 =>
                    \A k \in 1..Len(attempts') :
                      segments # 2 /\ attempts'[k] \in ToSet(arr_candidates)
    <2>0. f \in 1..segments
      OBVIOUS
    <2>1. CASE ~ (phase_applied /\ Edge(f))
      <3>1. attempts' \in Seq(MergeSides(f))
        BY <1>3, <1>5, <2>0, <2>1, MergeAttemptsAreSides
      <3>2. MergeSides(f) \subseteq 1..(Vertices + MaxSegments)
        BY <1>3 DEF MergeSides
      <3>3. attempts' \in Seq(1..(Vertices + MaxSegments))
        BY <3>1, <3>2, SeqMonotonic
      <3>4. \A k \in 1..Len(attempts') : attempts'[k] \in MergeSides(f)
        BY <3>1, ElementOfSeq
      <3>5. ~ phase_applied \/ f # 1
        BY <2>1 DEF Edge
      <3> QED
        BY <1>5, <2>0, <2>1, <3>3, <3>4, <3>5
    <2>2. CASE phase_applied /\ Edge(f) /\ segments = 2 /\ f = 2
      <3>1. attempts' = <<>>
        BY <1>5, <2>2
      <3>2. attempts' \in Seq(1..(Vertices + MaxSegments)) /\ Len(attempts') = 0
        BY <3>1, EmptySeq
      <3> QED
        BY <1>5, <2>0, <2>2, <3>2
    <2>3. CASE phase_applied /\ Edge(f) /\ ~ (segments = 2 /\ f = 2)
      <3>1. attempts' = EdgeAttempts(f)
        BY <1>5, <2>3
      <3>2. attempts' \in Seq(1..(Vertices + MaxSegments))
        <4> DEFINE A == 1..(Vertices - 1)
                   B == 1..(Vertices + MaxSegments)
        <4>1. A \subseteq B
          BY <1>3
        <4>2. EdgeAttempts(f) \in Seq(A)
          BY EdgeAttemptsAreCandidates
        <4> HIDE DEF A, B
        <4>3. EdgeAttempts(f) \in Seq(B)
          BY <4>1, <4>2, SeqMonotonic
        <4> QED
          BY <3>1, <4>3 DEF B
      <3>3. \A k \in 1..Len(attempts') :
              attempts'[k] \in ToSet(IF f = 1 THEN dep_candidates ELSE arr_candidates)
        BY <3>1, EdgeAttemptsAreCandidates
      <3>4. f # 1 => segments # 2
        BY <1>3, <2>0, <2>3
      <3> QED
        BY <1>5, <2>0, <2>3, <3>2, <3>3, <3>4
    <2> QED
      BY <2>1, <2>2, <2>3
  <1>6. \/ UNCHANGED <<attempts, failed>> /\ pc' # "retry"
        \/ \E f \in bad :
             /\ failed' = f /\ pc' = "retry"
             /\ IF phase_applied /\ Edge(f)
                THEN attempts' = IF segments = 2 /\ f = 2 THEN <<>>
                                 ELSE EdgeAttempts(f)
                ELSE attempts' \in MergeAttempts(f)
    BY DEF Solve, ladderVars
  <1>7. CASE \E f \in bad :
               /\ failed' = f /\ pc' = "retry"
               /\ IF phase_applied /\ Edge(f)
                  THEN attempts' = IF segments = 2 /\ f = 2 THEN <<>>
                                   ELSE EdgeAttempts(f)
                  ELSE attempts' \in MergeAttempts(f)
    <2>1. PICK f \in bad :
             /\ failed' = f /\ pc' = "retry"
             /\ IF phase_applied /\ Edge(f)
                THEN attempts' = IF segments = 2 /\ f = 2 THEN <<>>
                                 ELSE EdgeAttempts(f)
                ELSE attempts' \in MergeAttempts(f)
      BY <1>7
    <2>2. failed' \in 0..MaxSegments
      BY <1>3, <1>5, <2>1
    <2> QED
      BY <1>0, <1>1, <1>2, <1>5, <2>1, <2>2
  <1> QED
    BY <1>4, <1>6, <1>7

\* A moved hand-off leaves a sound chain whose labels are still true.
LEMMA RescueStep ==
  ASSUME TypeChain, GoalInv, AuthoredInv, HandoffInv, RetryInv, RescueEdge
  PROVE  /\ junctions' \in Seq(States) /\ Len(junctions') = segments - 1
         /\ runs' \in Seq(Runs) /\ Len(runs') = segments
         /\ Len(limits) = segments
         /\ SeamsOf(runs', limits) /\ LimitsOf(runs', limits)
         /\ SoftOf(runs', limits) /\ Ends(runs', StatedTail)
         /\ LabelsOf(runs', segments, dep_candidates, arr_candidates)
         /\ UNCHANGED <<segments, limits>>
  <1> DEFINE v == Head(attempts)
             place == HandoffPlace(failed)
  <1>0. pc = "retry" /\ MovesHandoff /\ attempts # <<>> /\ phase_applied
    BY DEF RescueEdge, MovesHandoff
  <1>1. Authored
    BY <1>0, AuthoredChain
  <1>2. /\ failed \in {1, segments} /\ v \in 1..(Vertices - 1)
        /\ failed = 1 => v \in ToSet(dep_candidates)
        /\ failed # 1 => segments # 2 /\ v \in ToSet(arr_candidates)
    BY <1>0, HandoffPlaces
  <1> HIDE DEF v
  <1>3. /\ runs \in Seq(Runs) /\ Len(runs) = segments
        /\ Plain(runs, segments, junctions, limits) /\ Ends(runs, StatedTail)
    BY <1>0 DEF RetryInv, TypeChain
  <1>4. /\ junctions' = Moved(failed, v) /\ runs' = RescuedRuns(failed, v)
        /\ Sliceable(Moved(failed, v)) /\ UNCHANGED <<segments, limits>>
    BY DEF RescueEdge, v
  <1>5. /\ Moved(failed, v) \in Seq(States)
        /\ Len(Moved(failed, v)) = segments - 1
        /\ place \in 1..(segments - 1)
        /\ Moved(failed, v)[place].at = v
        /\ \A i \in 1..(segments - 1) :
             i # place => Moved(failed, v)[i] = junctions[i]
        /\ JunctionsOf(Moved(failed, v), segments)
    BY <1>1, <1>2, <1>4, MovedJunctions
  <1>6. /\ RescuedRuns(failed, v) \in Seq(Runs)
        /\ Len(RescuedRuns(failed, v)) = segments
        /\ Plain(RescuedRuns(failed, v), segments, Moved(failed, v), limits)
        /\ Ends(RescuedRuns(failed, v), StatedTail)
    BY <1>1, <1>2, <1>3, RescuedRunsFit
  <1>7. /\ segments \in Nat /\ segments >= 2 /\ Len(limits) = segments
        /\ \A i \in 1..segments : limits[i].max \in Nat
    BY <1>1, LimitTypes, RouteAssumption DEF Authored
  <1> DEFINE js == Moved(failed, v)
             rs == RescuedRuns(failed, v)
  <1> HIDE DEF js, rs
  <1>8. SeamsOf(rs, limits) /\ LimitsOf(rs, limits) /\ SoftOf(rs, limits)
    BY <1>5, <1>6, <1>7, PlainIsSound DEF js, rs
  <1>9. LabelsOf(rs, segments, dep_candidates, arr_candidates)
    <2>1. /\ rs[1].covers = {1} /\ rs[segments].covers = {segments}
          /\ rs[1].tail = js[1]
          /\ rs[segments].head = js[segments - 1]
          /\ Len(rs) = segments
      BY <1>5, <1>6, <1>7 DEF Plain, Alone, HeadOf, js, rs
    <2>2. /\ junctions[1].at \in ToSet(dep_candidates)
          /\ junctions[segments - 1].at \in
               ToSet(IF segments = 2 THEN dep_candidates ELSE arr_candidates)
      BY <1>0 DEF HandoffInv
    <2>3. 1 \in 1..(segments - 1) /\ segments - 1 \in 1..(segments - 1)
      BY <1>7
    <2>4. \A i \in 1..(segments - 1) : i # place => js[i] = junctions[i]
      BY <1>5 DEF js
    <2>5. js[place].at = v
      BY <1>5 DEF js
    <2>6. js[1].at \in ToSet(dep_candidates)
      <3>1. CASE failed = 1
        BY <3>1, <2>5, <1>2 DEF HandoffPlace
      <3>2. CASE failed # 1
        <4>1. place = segments - 1 /\ segments # 2
          BY <3>2, <1>2 DEF HandoffPlace
        <4>2. 1 # place
          BY <4>1, <1>7
        <4> QED
          BY <4>2, <2>2, <2>3, <2>4
      <3> QED
        BY <3>1, <3>2
    <2>7. js[segments - 1].at \in
            ToSet(IF segments = 2 THEN dep_candidates ELSE arr_candidates)
      <3>1. CASE failed = 1 /\ segments = 2
        BY <3>1, <2>6
      <3>2. CASE failed = 1 /\ segments # 2
        <4>1. segments - 1 # place
          BY <3>2, <1>7 DEF HandoffPlace
        <4> QED
          BY <4>1, <2>2, <2>3, <2>4, Zenon
      <3>3. CASE failed # 1
        <4>1. place = segments - 1 /\ segments # 2
          BY <3>3, <1>2 DEF HandoffPlace
        <4> QED
          BY <4>1, <2>5, <1>2, <3>3
      <3> QED
        BY <3>1, <3>2, <3>3
    <2> QED
      BY <2>1, <2>6, <2>7 DEF LabelsOf
  <1> QED
    BY <1>4, <1>5, <1>6, <1>7, <1>8, <1>9 DEF js, rs

\* A merge leaves a sound chain; labels stay true, a dropped weight is noted.
LEMMA MergeStep ==
  ASSUME TypeEntry, TypeChain, GoalInv, AuthoredInv, HandoffInv, RetryInv,
         Merge, pc' = "stitch"
  PROVE  /\ junctions' \in Seq(States) /\ Len(junctions') = segments - 2
         /\ segments' = segments - 1 /\ segments \in 2..MaxSegments
         /\ runs' \in Seq(Runs) /\ Len(runs') = segments - 1
         /\ Len(limits) = segments
         /\ SeamsOf(runs', limits) /\ LimitsOf(runs', limits)
         /\ ~ soft_drop_note' => SoftOf(runs', limits)
         /\ Ends(runs', StatedTail)
         /\ phase_applied =>
              LabelsOf(runs', segments, dep_candidates, arr_candidates)
  <1> DEFINE lo == Min({failed, Head(attempts)})
             hi == Max({failed, Head(attempts)})
  <1>0. pc = "retry" /\ ~ MovesHandoff /\ attempts # <<>> /\ job \in Jobs
    BY DEF Merge, TypeEntry
  <1>1. Authored
    BY <1>0, AuthoredChain
  <1>2. /\ lo \in 1..(segments - 1) /\ hi = lo + 1
        /\ phase_applied => lo > 1 /\ lo + 1 < segments
    BY <1>0, MergeSpan
  <1>3. /\ runs \in Seq(Runs) /\ Len(runs) = segments
        /\ Plain(runs, segments, junctions, limits) /\ Ends(runs, StatedTail)
    BY <1>0 DEF RetryInv, TypeChain
  <1>4. /\ soft_drop_note' <=> (soft_drop_note \/ DropsSoft(lo, hi))
        /\ runs' = RemoveAt([runs EXCEPT ![lo] = MergedRun(lo, hi)], hi)
        /\ junctions' = RemoveAt(junctions, lo)
        /\ segments' = segments - 1
    BY <1>0 DEF Merge
  <1> HIDE DEF lo, hi
  <1>5. runs' = MergedRuns(lo)
    BY <1>2, <1>4 DEF MergedRuns
  <1>6. /\ MergedRuns(lo) \in Seq(Runs) /\ Len(MergedRuns(lo)) = segments - 1
        /\ SeamsOf(MergedRuns(lo), limits) /\ LimitsOf(MergedRuns(lo), limits)
        /\ Ends(MergedRuns(lo), StatedTail)
        /\ ~ DropsSoft(lo, lo + 1) => SoftOf(MergedRuns(lo), limits)
        /\ lo > 1 => MergedRuns(lo)[1] = runs[1]
        /\ lo + 1 < segments =>
             MergedRuns(lo)[segments - 1] = runs[segments]
    BY <1>0, <1>1, <1>2, <1>3, MergedRunsFit
  <1>7. /\ segments \in Nat /\ segments >= 2 /\ Len(limits) = segments
        /\ segments \in 2..MaxSegments
        /\ junctions \in Seq(States) /\ Len(junctions) = segments - 1
    BY <1>1, RouteAssumption DEF Authored, JunctionsOf
  <1>8. junctions' \in Seq(States) /\ Len(junctions') = segments - 2
    <2>1. lo \in 1..Len(junctions)
      BY <1>2, <1>7
    <2>2. /\ RemoveAt(junctions, lo) \in Seq(States)
          /\ Len(RemoveAt(junctions, lo)) = Len(junctions) - 1
      BY <2>1, <1>7, RemoveOne
    <2> QED
      BY <2>2, <1>4, <1>7
  <1>9. ASSUME phase_applied
        PROVE  LabelsOf(runs', segments, dep_candidates, arr_candidates)
    <2>1. /\ runs[1].covers = {1} /\ runs[segments].covers = {segments}
          /\ runs[1].tail = junctions[1]
          /\ runs[segments].head = junctions[segments - 1]
      BY <1>3, <1>7 DEF Plain, Alone, HeadOf
    <2>2. /\ junctions[1].at \in ToSet(dep_candidates)
          /\ junctions[segments - 1].at \in
               ToSet(IF segments = 2 THEN dep_candidates ELSE arr_candidates)
      BY <1>0, <1>9 DEF HandoffInv
    <2>3. runs'[1] = runs[1] /\ runs'[Len(runs')] = runs[segments]
      BY <1>2, <1>5, <1>6, <1>9
    <2> QED
      BY <2>1, <2>2, <2>3 DEF LabelsOf
  <1>10. ~ soft_drop_note' => SoftOf(runs', limits)
    BY <1>2, <1>4, <1>5, <1>6
  <1> QED
    BY <1>4, <1>5, <1>6, <1>7, <1>8, <1>9, <1>10

\* A baseline that is split has its junctions and limits.
LEMMA BaselineStep ==
  ASSUME TypeEntry, TypeChain, Baseline
  PROVE  /\ segments' \in 1..MaxSegments
         /\ junctions' \in Seq(States) /\ limits' \in Seq(Override)
         /\ runs' \in Seq(Runs)
         /\ pc' = "segments" =>
              /\ segments' \in 2..MaxSegments /\ Len(limits') = segments'
              /\ JunctionsOf(junctions', segments') /\ Len(runs') = 0
  <1>1. CASE UNCHANGED chainVars /\ pc' # "segments"
    BY <1>1 DEF chainVars, TypeChain
  <1>2. CASE /\ segments' \in 2..MaxSegments
             /\ limits' = [i \in 1..segments' |-> job.declared.seg[i]]
             /\ \E vs \in [1..(segments' - 1) -> 1..(Vertices - 1)] :
                  Increasing(vs) /\ junctions' = Harmonised(vs, limits')
             /\ runs' = <<>>
    <2> DEFINE n == segments'
    <2>1. n \in Nat /\ n >= 2 /\ n \in 2..MaxSegments /\ n <= MaxSegments
      BY <1>2, RouteAssumption
    <2>2. /\ limits' = [i \in 1..n |-> job.declared.seg[i]]
          /\ \E vs \in [1..(n - 1) -> 1..(Vertices - 1)] :
                  Increasing(vs) /\ junctions' = Harmonised(vs, limits')
          /\ runs' = <<>>
      BY <1>2
    <2> HIDE DEF n
    <2>3. \A i \in 1..n : job.declared.seg[i] \in Override
      BY <2>1, DeclarationTypes, RouteAssumption DEF TypeEntry
    <2>4. limits' \in [1..n -> Override]
      BY <2>2, <2>3
    <2>5. limits' \in Seq(Override) /\ Len(limits') = n
      BY <2>1, <2>4, FunctionIsSeq
    <2>6. junctions' \in Seq(States) /\ JunctionsOf(junctions', n)
      BY <2>1, <2>2, <2>5, HarmonisedJunctions
    <2>7. runs' \in Seq(Runs) /\ Len(runs') = 0
      BY <2>2, EmptySeq
    <2>8. n \in 1..MaxSegments
      BY <2>1
    <2> QED
      BY <2>1, <2>5, <2>6, <2>7, <2>8 DEF n
  <1> QED
    BY <1>1, <1>2 DEF Baseline, Refuse, Answer

\* One more segment solved alone.
LEMMA SegmentStep ==
  ASSUME TypeChain, GoalInv, AuthoredInv, SegmentsInv, SolveSegment
  PROVE  /\ Authored /\ UNCHANGED <<segments, junctions, limits>>
         /\ runs' \in Seq(Runs)
         /\ \A i \in 1..segments : SegmentRun(i) \in Runs
         /\ Len(runs) + 1 \in 1..segments
         /\ pc' = "segments" =>
              /\ Len(runs') <= segments
              /\ Plain(runs', Len(runs'), junctions, limits)
  <1>0. pc = "segments" /\ Len(runs) < segments /\ UNCHANGED <<segments, junctions, limits>>
    BY DEF SolveSegment
  <1>1. Authored
    BY <1>0, AuthoredChain
  <1>2. \A i \in 1..segments :
          SegmentRun(i) \in Runs /\ Alone(SegmentRun(i), i, junctions, limits)
    BY <1>1, SegmentRunFits
  <1>3. /\ runs \in Seq(Runs) /\ Len(runs) \in Nat
        /\ Plain(runs, Len(runs), junctions, limits)
        /\ Len(runs) + 1 \in 1..segments
    BY <1>0, <1>1, LenProperties, RouteAssumption DEF TypeChain, SegmentsInv, Authored
  <1>4. CASE runs' = Append(runs, SegmentRun(Len(runs) + 1))
    <2>1. SegmentRun(Len(runs) + 1) \in Runs
      BY <1>2, <1>3
    <2>2. /\ runs' \in Seq(Runs) /\ Len(runs') = Len(runs) + 1
          /\ \A i \in 1..Len(runs) : runs'[i] = runs[i]
          /\ runs'[Len(runs) + 1] = SegmentRun(Len(runs) + 1)
      BY <1>3, <1>4, <2>1, AppendProperties
    <2>3. ASSUME NEW i \in 1..(Len(runs) + 1)
          PROVE  Alone(runs'[i], i, junctions, limits)
      <3>1. CASE i = Len(runs) + 1
        BY <3>1, <2>2, <1>2, <1>3
      <3>2. CASE i # Len(runs) + 1
        <4>1. i \in 1..Len(runs)
          BY <3>2, <1>3
        <4> QED
          BY <4>1, <2>2, <1>3 DEF Plain
      <3> QED
        BY <3>1, <3>2
    <2>4. Plain(runs', Len(runs'), junctions, limits)
      BY <2>2, <2>3 DEF Plain
    <2> QED
      BY <1>0, <1>1, <1>2, <1>3, <2>2, <2>4
  <1>5. CASE UNCHANGED runs /\ pc' = "done"
    BY <1>0, <1>1, <1>2, <1>3, <1>5
  <1> QED
    BY <1>4, <1>5 DEF SolveSegment, Answer

\* The unsplit mission is one run.
LEMMA WholeRunType ==
  ASSUME StatedTail \in 0..Cruise, NEW o \in Override
  PROVE  Run(StartState, Goal(Cruise), {}, o) \in Runs
  <1>1. StartState \in States /\ Cruise \in 0..Cruise
    BY RouteAssumption DEF StartState, States
  <1>2. Goal(Cruise) \in States
    BY <1>1, GoalTypes
  <1>3. o.max \in 0..Cruise /\ o.soft \in 0..2 /\ {} \in SUBSET (1..MaxSegments)
    BY OverrideTypes
  <1> QED
    BY <1>1, <1>2, <1>3, RunTypes

\* A flight of one run.
LEMMA OneRun ==
  ASSUME NEW S, NEW r \in S
  PROVE  <<r>> \in Seq(S) /\ Len(<<r>>) = 1 /\ <<r>>[1] = r
  OBVIOUS

\* The direct plan is one run under what the optimizer last read.
LEMMA PlanDirectStep ==
  ASSUME TypeAnswer, GoalInv, PlanDirect
  PROVE  /\ runs' \in Seq(Runs)
         /\ pc' = "judge" =>
              Len(runs') = 1 /\ runs'[1].max = optimizer.max
  <1>1. CASE runs' = <<>> /\ pc' # "judge"
    BY <1>1, EmptySeq
  <1>2. CASE runs' = <<WholeRun>>
    <2>1. WholeRun \in Runs
      BY WholeRunType DEF WholeRun, GoalInv, TypeAnswer, PlanDirect
    <2>2. WholeRun.max = optimizer.max
      BY RunFields DEF WholeRun
    <2> QED
      BY <1>2, <2>1, <2>2, OneRun
  <1> QED
    BY <1>1, <1>2 DEF PlanDirect, Refuse, Answer

-----------------------------------------------------------------------------
(***************************************************************************)
(* Every step keeps every part.                                            *)
(***************************************************************************)

\* The inductive invariant: each conjunct is the strengthening another one
\* needs at the step before it.
ChainInv ==
  /\ TypeEntry /\ TypeChain /\ TypeAnswer
  /\ GoalInv /\ AuthoredInv /\ HandoffInv /\ RetryInv
  /\ StitchInv /\ SegmentsInv /\ DirectInv /\ CountInv

\* Every step keeps it.
LEMMA TypeChainStep ==
  ASSUME ChainInv, [Next]_vars
  PROVE  TypeChain'
  <1>0. /\ TypeEntry /\ TypeChain /\ TypeAnswer
        /\ GoalInv /\ AuthoredInv /\ HandoffInv /\ RetryInv /\ SegmentsInv
    BY DEF ChainInv
  <1> USE <1>0 DEF TypeChain, vars, entryVars, phaseVars, chainVars, ladderVars
  <1>1. CASE Begin
    BY <1>1, RouteAssumption DEF Begin
  <1>2. CASE Enter
    BY <1>2 DEF Enter
  <1>3. CASE Transition
    BY <1>3 DEF Transition
  <1>4. CASE MultiWaypoint
    BY <1>4 DEF MultiWaypoint
  <1>5. CASE CommitRoute
    BY <1>5 DEF CommitRoute
  <1>6. CASE Size
    BY <1>6, RouteAssumption DEF Size
  <1>7. CASE Author
    <2>1. /\ UNCHANGED <<segments, runs, attempts, failed>>
          /\ junctions' \in Seq(States) /\ limits' \in Seq(Override)
          /\ dep_candidates' \in Seq(1..(Vertices - 1))
          /\ arr_candidates' \in Seq(1..(Vertices - 1))
      BY <1>7, AuthorStep DEF Author
    <2> QED
      BY <2>1
  <1>8. CASE AuthorFails
    BY <1>8 DEF AuthorFails
  <1>9. ASSUME NEW bad \in SUBSET (1..segments), Solve(bad)
        PROVE  TypeChain'
    <2>1. /\ UNCHANGED <<segments, junctions, limits, dep_candidates, arr_candidates>>
          /\ runs' \in Seq(Runs)
          /\ attempts' \in Seq(1..(Vertices + MaxSegments))
          /\ failed' \in 0..MaxSegments
      BY <1>9, SolveStep DEF Solve
    <2> QED
      BY <2>1
  <1>10. CASE RescueEdge
    <2>1. /\ UNCHANGED <<segments, limits, attempts, failed, dep_candidates, arr_candidates>>
          /\ junctions' \in Seq(States) /\ runs' \in Seq(Runs)
      BY <1>10, RescueStep DEF RescueEdge
    <2> QED
      BY <2>1
  <1>11. CASE Merge
    <2>1. UNCHANGED <<limits, failed, dep_candidates, arr_candidates>>
      BY <1>11 DEF Merge
    <2>2. CASE pc' = "stitch"
      <3>1. /\ junctions' \in Seq(States) /\ runs' \in Seq(Runs)
            /\ segments' = segments - 1 /\ segments \in 2..MaxSegments
        BY <1>11, <2>2, MergeStep
      <3>2. UNCHANGED attempts
        BY <1>11, <2>2 DEF Merge
      <3> QED
        BY <2>1, <3>1, <3>2, RouteAssumption
    <2>3. CASE pc' # "stitch"
      <3>1. /\ attempts' = Tail(attempts) /\ attempts # <<>>
            /\ UNCHANGED <<runs, junctions, segments>>
        BY <1>11, <2>3 DEF Merge
      <3>2. attempts' \in Seq(1..(Vertices + MaxSegments))
        BY <3>1, HeadTailProperties
      <3> QED
        BY <2>1, <3>1, <3>2
    <2> QED
      BY <2>2, <2>3
  <1>12. CASE RescueFails
    <2>1. attempts' \in Seq(1..(Vertices + MaxSegments))
      BY <1>12, HeadTailProperties DEF RescueFails
    <2> QED
      BY <1>12, <2>1 DEF RescueFails
  <1>13. CASE Exhausted
    BY <1>13 DEF Exhausted
  <1>14. CASE ForbidDirect
    BY <1>14 DEF ForbidDirect
  <1>15. CASE ApplyHardLimits
    BY <1>15 DEF ApplyHardLimits
  <1>16. CASE PlanDirect
    BY <1>16, PlanDirectStep DEF PlanDirect
  <1>17. CASE JudgeDirect
    BY <1>17 DEF JudgeDirect
  <1>18. CASE Stitch
    BY <1>18 DEF Stitch
  <1>19. CASE Baseline
    BY <1>19, BaselineStep DEF Baseline
  <1>20. CASE SolveSegment
    BY <1>20, SegmentStep DEF SolveSegment
  <1>21. CASE RestoreBeforeStitch
    BY <1>21 DEF RestoreBeforeStitch
  <1>22. CASE StitchSegments
    BY <1>22 DEF StitchSegments
  <1>23. CASE Return
    BY <1>23, EmptySeq, RouteAssumption DEF Return
  <1>24. CASE UNCHANGED vars
    BY <1>24
  <1> HIDE DEF TypeChain, vars, entryVars, phaseVars, chainVars, ladderVars
  <1> QED
    BY <1>1, <1>2, <1>3, <1>4, <1>5, <1>6, <1>7, <1>8, <1>9, <1>10, <1>11,
      <1>12, <1>13, <1>14, <1>15, <1>16, <1>17, <1>18, <1>19, <1>20, <1>21,
      <1>22, <1>23, <1>24 DEF Next

\* The order of reasons, as far as answers need it.
LEMMA ReasonRanks ==
  /\ \A reason \in DegradeReasons : Rank(reason) > Rank("NONE")
  /\ DegradeReasons \subseteq Reasons /\ FailReasons \subseteq Reasons
  /\ "NONE" \in Reasons /\ "NONE" \notin DegradeReasons
  <1>1. /\ ReasonOrder[1] = "NONE" /\ ReasonOrder[2] = "PHASE_BOUNDARY_FALLBACK"
        /\ ReasonOrder[3] = "SINGLE_PLAN_FALLBACK"
        /\ ReasonOrder[4] = "STITCHED_ENVELOPE_BUDGET"
        /\ ReasonOrder[5] = "FINAL_BOUNDARY_RELAXED"
        /\ ReasonOrder[6] = "INITIAL_MODE_UNSUPPORTED"
        /\ ReasonOrder[7] = "DIRECT_FALLBACK_UNSAFE"
        /\ ReasonOrder[8] = "STITCHED_FLIGHT_UNSAFE"
        /\ ReasonOrder[9] = "TRANSITION_GENERATION_FAILED"
        /\ ReasonOrder[10] = "TRANSITION_ADAPTER_UNSOUND"
        /\ ReasonOrder[11] = "TRANSITION_JUNCTION_UNSOUND"
    BY DEF ReasonOrder
  <1>2. \A i \in 2..11 : ReasonOrder[i] # "NONE"
    BY <1>1
  <1>3. Rank("NONE") = 1
    <2>1. \A i \in 1..11 : ReasonOrder[i] = "NONE" <=> i = 1
      BY <1>1, <1>2
    <2> QED
      BY <2>1 DEF Rank
  <1>4. ASSUME NEW reason \in DegradeReasons
        PROVE  Rank(reason) > 1
    <2>1. PICK i \in 2..5 : reason = ReasonOrder[i]
      BY DEF DegradeReasons
    <2>2. \E j \in 1..11 : ReasonOrder[j] = reason
      BY <2>1
    <2>3. Rank(reason) \in 1..11 /\ ReasonOrder[Rank(reason)] = reason
      BY <2>2 DEF Rank
    <2>4. reason # "NONE"
      BY <1>2, <2>1
    <2> QED
      BY <1>1, <2>3, <2>4
  <1> QED
    BY <1>1, <1>2, <1>3, <1>4 DEF DegradeReasons, FailReasons, Reasons

\* Degrading a consistent answer leaves it consistent.
LEMMA DegradedIsConsistent ==
  ASSUME NEW r \in ConsistentResults, NEW reason \in DegradeReasons
  PROVE  Degrade(r, reason) \in ConsistentResults
  <1>1. CASE r.outcome = "FAILED"
    BY <1>1 DEF Degrade
  <1>2. CASE r.outcome # "FAILED"
    <2>1. Stronger(r, reason) \in DegradeReasons
      <3>1. CASE r.reason \in DegradeReasons
        BY <3>1 DEF Stronger
      <3>2. CASE r.reason = "NONE"
        BY <3>2, ReasonRanks DEF Stronger
      <3> QED
        BY <1>2, <3>1, <3>2 DEF ConsistentResults, Results
    <2>2. Degrade(r, reason) = [outcome |-> "DEGRADED", reason |-> Stronger(r, reason)]
      BY <1>2 DEF Degrade
    <2>3. Stronger(r, reason) \in Reasons
      BY <2>1, ReasonRanks
    <2> QED
      BY <2>1, <2>2, <2>3 DEF ConsistentResults, Results
  <1> QED
    BY <1>1, <1>2

\* Every answer the planner gives has a reason that matches its outcome.
LEMMA AnswersAreConsistent ==
  /\ \A reason \in FailReasons \cup {"NONE"} :
       Settled(Failed(reason)) \in ConsistentResults
  /\ Settled(Success) \in ConsistentResults
  /\ Settled(Degrade(Success, "SINGLE_PLAN_FALLBACK")) \in ConsistentResults
  /\ Settled(DirectResult) \in ConsistentResults
  /\ \A v : /\ Settled(Budgeted(StitchedResult, v)) \in ConsistentResults
            /\ Settled(Budgeted(Success, v)) \in ConsistentResults
  <1>1. /\ "SINGLE_PLAN_FALLBACK" \in DegradeReasons
        /\ "PHASE_BOUNDARY_FALLBACK" \in DegradeReasons
        /\ "STITCHED_ENVELOPE_BUDGET" \in DegradeReasons
        /\ "FINAL_BOUNDARY_RELAXED" \in DegradeReasons
    BY DEF DegradeReasons, ReasonOrder
  <1>2. \A r \in ConsistentResults : Settled(r) \in ConsistentResults
    BY <1>1, DegradedIsConsistent DEF Settled
  <1>3. Success \in ConsistentResults
    BY ReasonRanks DEF Success, ConsistentResults, Results
  <1>4. \A reason \in FailReasons \cup {"NONE"} : Failed(reason) \in ConsistentResults
    BY ReasonRanks DEF Failed, ConsistentResults, Results
  <1>5. Degrade(Success, "SINGLE_PLAN_FALLBACK") \in ConsistentResults
    BY <1>1, <1>3, DegradedIsConsistent
  <1>6. DirectResult \in ConsistentResults
    BY <1>3, <1>5 DEF DirectResult
  <1>7. StitchedResult \in ConsistentResults
    BY <1>1, <1>3, DegradedIsConsistent DEF StitchedResult
  <1>8. \A r \in ConsistentResults : \A v : Budgeted(r, v) \in ConsistentResults
    BY <1>1, DegradedIsConsistent DEF Budgeted
  <1> QED
    BY <1>2, <1>3, <1>4, <1>5, <1>6, <1>7, <1>8

\* The reasons plans are refused for are reasons of a refusal.
LEMMA RefusalReasons ==
  {"NONE", "INITIAL_MODE_UNSUPPORTED", "TRANSITION_GENERATION_FAILED",
   "TRANSITION_ADAPTER_UNSOUND", "TRANSITION_JUNCTION_UNSOUND",
   "DIRECT_FALLBACK_UNSAFE", "STITCHED_FLIGHT_UNSAFE"}
    \subseteq FailReasons \cup {"NONE"}
  <1>1. \A i \in 6..11 : ReasonOrder[i] \in FailReasons
    BY DEF FailReasons
  <1> QED
    BY <1>1 DEF ReasonOrder

\* What is stored is a flight.
LEMMA FlightTypes ==
  ASSUME TypeEntry, TypeAnswer
  PROVE  /\ NoFlight \in Flights
         /\ \A kind \in Kinds, rs \in Seq(Runs), v \in Verdicts \cup {"unjudged"} :
              Flight(kind, rs, v) \in Flights
         /\ StatedTail \in 0..Cruise => BaselineFlight \in Flights
  <1>1. NoFlight \in Flights
    BY OverrideTypes, EmptySeq DEF NoFlight, Flights, Kinds
  <1>2. ASSUME NEW kind \in Kinds, NEW rs \in Seq(Runs),
               NEW v \in Verdicts \cup {"unjudged"}
        PROVE  Flight(kind, rs, v) \in Flights
    <2>1. (phase_applied /\ kind = "chain") \in BOOLEAN
      OBVIOUS
    <2>2. (IF v \in Verdicts THEN params ELSE NoOverride) \in Override
      BY OverrideTypes DEF TypeAnswer
    <2> QED
      BY <2>1, <2>2 DEF Flight, Flights, TypeEntry
  <1>3. ASSUME StatedTail \in 0..Cruise
        PROVE  BaselineFlight \in Flights
    <2>1. Run(StartState, Goal(Cruise), {}, NoOverride) \in Runs
      BY <1>3, OverrideTypes, WholeRunType
    <2>2. <<Run(StartState, Goal(Cruise), {}, NoOverride)>> \in Seq(Runs)
      BY <2>1, OneRun
    <2>3. "baseline" \in Kinds
      BY DEF Kinds
    <2> QED
      BY <2>2, <2>3, <1>2 DEF BaselineFlight
  <1> QED
    BY <1>1, <1>2, <1>3

\* The overrides in force are overrides.
LEMMA InForceTypes ==
  ASSUME TypeEntry, TypeChain
  PROVE  \A o \in InForce : o \in Override /\ o.max \in 0..Cruise
  <1>1. \A o \in DeclaredOverrides : o \in Override
    BY DeclarationTypes, RouteAssumption
      DEF TypeEntry, TypeChain, DeclaredOverrides
  <1>2. \A i \in DOMAIN limits : limits[i] \in Override
    BY LenProperties, ElementOfSeq DEF TypeChain
  <1> QED
    BY <1>1, <1>2, OverrideTypes DEF InForce

\* Every step keeps it.
LEMMA TypeAnswerStep ==
  ASSUME ChainInv, [Next]_vars
  PROVE  TypeAnswer'
  <1>0. /\ TypeEntry /\ TypeChain /\ TypeAnswer
        /\ GoalInv /\ AuthoredInv /\ HandoffInv /\ RetryInv /\ SegmentsInv
    BY DEF ChainInv
  <1> USE <1>0 DEF TypeAnswer, KeepSlot, Refuse, Answer, Store, Invalidate, vars,
    tuningVars, answerVars
  <1>1. CASE Begin
    BY <1>1 DEF Begin
  <1>2. CASE Enter
    BY <1>2, RefusalReasons, AnswersAreConsistent DEF Enter
  <1>3. CASE Transition
    BY <1>3, RefusalReasons, AnswersAreConsistent DEF Transition
  <1>4. CASE MultiWaypoint
    <2>1. StatedTail \in 0..Cruise
      BY <1>4 DEF MultiWaypoint, GoalInv
    <2>2. WholeRun \in Runs
      BY <2>1, WholeRunType DEF WholeRun, TypeAnswer
    <2>3. Flight("single", <<WholeRun>>, "unjudged") \in Flights
      BY <2>2, OneRun, FlightTypes DEF Kinds
    <2> QED
      BY <1>4, <2>3, RefusalReasons, AnswersAreConsistent DEF MultiWaypoint
  <1>5. CASE CommitRoute
    BY <1>5, RefusalReasons, AnswersAreConsistent DEF CommitRoute
  <1>6. CASE Size
    BY <1>6 DEF Size
  <1>7. CASE Author
    BY <1>7 DEF Author
  <1>8. CASE AuthorFails
    BY <1>8 DEF AuthorFails
  <1>9. ASSUME NEW bad \in SUBSET (1..segments), Solve(bad)
        PROVE  TypeAnswer'
    BY <1>9 DEF Solve
  <1>10. CASE RescueEdge
    BY <1>10 DEF RescueEdge
  <1>11. CASE Merge
    BY <1>11 DEF Merge
  <1>12. CASE RescueFails
    BY <1>12 DEF RescueFails
  <1>13. CASE Exhausted
    BY <1>13 DEF Exhausted
  <1>14. CASE ForbidDirect
    BY <1>14, RefusalReasons, AnswersAreConsistent DEF ForbidDirect
  <1>15. CASE ApplyHardLimits
    <2>1. \A o \in InForce : o.max \in 0..Cruise
      BY InForceTypes
    <2>2. HardMin(InForce) \in 0..Cruise
      BY <2>1, HardMinBounds
    <2>3. params' = [max |-> HardMin(InForce), soft |-> 0] /\ optimizer' = params'
      BY <1>15 DEF ApplyHardLimits, NoOverride
    <2>4. params' \in Override
      BY <2>2, <2>3 DEF Override
    <2> QED
      BY <1>15, <2>3, <2>4 DEF ApplyHardLimits
  <1>16. CASE PlanDirect
    BY <1>16, OverrideTypes, RefusalReasons, AnswersAreConsistent
      DEF PlanDirect, RestoreParams
  <1>17. CASE JudgeDirect
    <2>1. \A v \in Verdicts \cup {"unjudged"} : Flight("direct", runs, v) \in Flights
      BY FlightTypes DEF Kinds, TypeChain
    <2> QED
      BY <1>17, <2>1, FlightTypes, RefusalReasons, AnswersAreConsistent
        DEF JudgeDirect
  <1>18. CASE Stitch
    <2>1. \A v \in Verdicts : Flight("chain", runs, v) \in Flights
      BY FlightTypes DEF Kinds, TypeChain
    <2> QED
      BY <1>18, <2>1, FlightTypes, RefusalReasons, AnswersAreConsistent
        DEF Stitch
  <1>19. CASE Baseline
    <2>1. BaselineFlight \in Flights
      BY <1>19, FlightTypes DEF Baseline, GoalInv
    <2> QED
      BY <1>19, <2>1, RefusalReasons, AnswersAreConsistent DEF Baseline
  <1>20. CASE SolveSegment
    <2> DEFINE i == Len(runs) + 1
    <2>1. BaselineFlight \in Flights
      BY <1>20, FlightTypes DEF SolveSegment, GoalInv
    <2>2. i \in 1..segments /\ SegmentRun(i) \in Runs /\ Authored
      BY <1>20, SegmentStep
    <2>3. limits[i] \in Override
      BY <2>2, LimitTypes
    <2>4. Flight("segment", <<SegmentRun(i)>>, "unjudged") \in Flights
      BY <2>2, OneRun, FlightTypes DEF Kinds
    <2>5. CASE /\ params' = limits[i] /\ optimizer' = limits[i]
               /\ flight' = Flight("segment", <<SegmentRun(i)>>, "unjudged")
               /\ UNCHANGED result
      BY <2>3, <2>4, <2>5
    <2>6. CASE /\ RestoreParams /\ flight' = BaselineFlight
               /\ result' = Settled(Degrade(Success, "SINGLE_PLAN_FALLBACK"))
      BY <2>1, <2>6, OverrideTypes, AnswersAreConsistent DEF RestoreParams
    <2> QED
      BY <1>20, <2>5, <2>6 DEF SolveSegment
  <1>21. CASE RestoreBeforeStitch
    BY <1>21, OverrideTypes DEF RestoreBeforeStitch, RestoreParams
  <1>22. CASE StitchSegments
    <2>1. \A v \in Verdicts : Flight("segments", runs, v) \in Flights
      BY FlightTypes DEF Kinds, TypeChain
    <2>2. BaselineFlight \in Flights
      BY <1>22, FlightTypes DEF StitchSegments, GoalInv
    <2> QED
      BY <1>22, <2>1, <2>2, RefusalReasons, AnswersAreConsistent
        DEF StitchSegments
  <1>23. CASE Return
    BY <1>23, FlightTypes DEF Return
  <1>24. CASE UNCHANGED vars
    BY <1>24
  <1> HIDE DEF TypeAnswer, KeepSlot, Refuse, Answer, Store, Invalidate, vars,
    tuningVars, answerVars
  <1> QED
    BY <1>1, <1>2, <1>3, <1>4, <1>5, <1>6, <1>7, <1>8, <1>9, <1>10, <1>11,
      <1>12, <1>13, <1>14, <1>15, <1>16, <1>17, <1>18, <1>19, <1>20, <1>21,
      <1>22, <1>23, <1>24 DEF Next

\* Every step keeps it.
LEMMA AuthoredStep ==
  ASSUME ChainInv, [Next]_vars
  PROVE  AuthoredInv'
  <1>0. /\ TypeEntry /\ TypeChain /\ GoalInv /\ AuthoredInv /\ HandoffInv
        /\ RetryInv /\ SegmentsInv
    BY DEF ChainInv
  <1>1. CASE UNCHANGED vars
    BY <1>0, <1>1 DEF AuthoredInv, vars, chainVars
  <1>2. CASE Size
    BY <1>2 DEF Size, AuthoredInv
  <1>3. CASE Author
    <2>1. pc' = "solve"
      BY <1>3 DEF Author
    <2>2. /\ segments \in 2..MaxSegments /\ UNCHANGED segments
          /\ JunctionsOf(junctions', segments) /\ Len(limits') = segments
      BY <1>0, <1>3, AuthorStep
    <2> QED
      BY <2>1, <2>2 DEF AuthoredInv
  <1>4. CASE \E bad \in SUBSET (1..segments) : Solve(bad)
    <2>1. Authored /\ UNCHANGED <<segments, junctions, limits>>
      BY <1>0, <1>4, SolveStep
    <2> QED
      BY <2>1 DEF AuthoredInv, Authored
  <1>5. CASE Merge /\ pc' = "retry"
    BY <1>0, <1>5 DEF Merge, AuthoredInv
  <1>6. CASE RescueFails
    BY <1>0, <1>6 DEF RescueFails, AuthoredInv, chainVars
  <1>7. CASE Baseline
    <2>1. /\ pc' \in {"segments", "done"}
          /\ pc' = "segments" =>
              /\ segments' \in 2..MaxSegments /\ Len(limits') = segments'
              /\ JunctionsOf(junctions', segments')
      BY <1>0, <1>7, BaselineStep DEF Baseline, Refuse, Answer
    <2> QED
      BY <2>1 DEF AuthoredInv
  <1>8. CASE SolveSegment
    <2>1. Authored /\ UNCHANGED <<segments, junctions, limits>>
      BY <1>0, <1>8, SegmentStep
    <2> QED
      BY <2>1 DEF AuthoredInv, Authored
  <1>9. CASE pc' \notin {"author", "solve", "retry", "segments"}
    BY <1>9 DEF AuthoredInv
  <1> QED
    BY <1>1, <1>2, <1>3, <1>4, <1>5, <1>6, <1>7, <1>8, <1>9, Arrivals

\* Every step keeps it.
LEMMA HandoffStep ==
  ASSUME ChainInv, [Next]_vars
  PROVE  HandoffInv'
  <1>0. /\ TypeEntry /\ TypeChain /\ GoalInv /\ AuthoredInv /\ HandoffInv
        /\ RetryInv
    BY DEF ChainInv
  <1> USE DEF entryVars, phaseVars
  <1>1. CASE UNCHANGED vars
    BY <1>0, <1>1 DEF HandoffInv, vars, chainVars
  <1>2. CASE Author
    <2>1. UNCHANGED <<job, segments>> /\ pc' = "solve"
      BY <1>2 DEF Author
    <2>2. /\ job.phase => phase_applied' \/ phase_note'
          /\ phase_applied' =>
              /\ job.phase
              /\ junctions'[1].at \in ToSet(dep_candidates')
              /\ junctions'[segments - 1].at \in
                   ToSet(IF segments = 2 THEN dep_candidates'
                         ELSE arr_candidates')
      BY <1>0, <1>2, AuthorStep
    <2> QED
      BY <2>1, <2>2 DEF HandoffInv
  <1>3. CASE \E bad \in SUBSET (1..segments) : Solve(bad)
    <2>1. /\ pc = "solve"
          /\ UNCHANGED <<job, segments, junctions, phaseVars>>
      BY <1>3 DEF Solve
    <2> QED
      BY <1>0, <2>1 DEF HandoffInv
  <1>4. CASE Merge
    <2>1. pc = "retry" /\ UNCHANGED <<job, phaseVars>>
      BY <1>4 DEF Merge
    <2>2. CASE pc' = "stitch"
      BY <1>0, <2>1, <2>2 DEF HandoffInv
    <2>3. CASE pc' # "stitch"
      <3>1. UNCHANGED <<segments, junctions>>
        BY <1>4, <2>3 DEF Merge
      <3> QED
        BY <1>0, <2>1, <3>1 DEF HandoffInv
    <2> QED
      BY <2>2, <2>3
  <1>5. CASE RescueFails
    BY <1>0, <1>5 DEF RescueFails, HandoffInv, chainVars
  <1>6. CASE RescueEdge
    <2>1. pc = "retry" /\ pc' = "stitch" /\ UNCHANGED <<job, phaseVars>>
      BY <1>6 DEF RescueEdge
    <2> QED
      BY <1>0, <2>1 DEF HandoffInv
  <1>7. CASE pc' \notin {"solve", "retry", "stitch"}
    BY <1>7 DEF HandoffInv
  <1> HIDE DEF entryVars, phaseVars
  <1> QED
    BY <1>1, <1>2, <1>3, <1>4, <1>5, <1>6, <1>7, Arrivals

\* Every step keeps it.
LEMMA RetryStep ==
  ASSUME ChainInv, [Next]_vars
  PROVE  RetryInv'
  <1>0. /\ TypeEntry /\ TypeChain /\ GoalInv /\ AuthoredInv /\ RetryInv
    BY DEF ChainInv
  <1> USE DEF MovesHandoff, Edge, MergeSides, StatedTail
  <1>1. CASE UNCHANGED vars
    BY <1>0, <1>1 DEF RetryInv, vars, chainVars, ladderVars, phaseVars, entryVars
  <1>2. CASE pc' = "retry" /\ \E bad \in SUBSET (1..segments) : Solve(bad)
    <2>1. UNCHANGED <<segments, junctions, limits, phase_applied, job, relaxed,
                      dep_candidates, arr_candidates>>
      BY <1>2 DEF Solve, phaseVars, entryVars
    <2>2. /\ Len(runs') = segments
          /\ Plain(runs', segments, junctions, limits)
          /\ Ends(runs', StatedTail)
          /\ failed' \in 1..segments
          /\ ~ (phase_applied /\ Edge(failed')) =>
               \A k \in 1..Len(attempts') :
                 attempts'[k] \in MergeSides(failed')
          /\ phase_applied /\ failed' = 1 =>
               \A k \in 1..Len(attempts') :
                 attempts'[k] \in ToSet(dep_candidates)
          /\ phase_applied /\ Edge(failed') /\ failed' # 1 =>
               \A k \in 1..Len(attempts') :
                 segments # 2 /\ attempts'[k] \in ToSet(arr_candidates)
      BY <1>0, <1>2, SolveStep
    <2> QED
      BY <2>1, <2>2 DEF RetryInv
  <1>3. CASE pc' = "retry" /\ (Merge \/ RescueFails)
    <2>1. /\ pc = "retry"
          /\ UNCHANGED <<segments, junctions, limits, runs, failed,
                         phase_applied, job, relaxed,
                         dep_candidates, arr_candidates>>
          /\ attempts' = Tail(attempts) /\ attempts # <<>>
      BY <1>3 DEF Merge, RescueFails, phaseVars, entryVars, chainVars
    <2>2. /\ Len(attempts') = Len(attempts) - 1
          /\ \A k \in 1..Len(attempts') :
               k + 1 \in 1..Len(attempts) /\ attempts'[k] = attempts[k + 1]
      <3>1. /\ Len(attempts') = Len(attempts) - 1
            /\ \A k \in 1..Len(attempts') : attempts'[k] = attempts[k + 1]
        BY <1>0, <2>1, HeadTailProperties DEF TypeChain
      <3>2. Len(attempts) \in Nat
        BY <1>0, LenProperties DEF TypeChain
      <3> QED
        BY <3>1, <3>2
    <2>3. ASSUME NEW S, \A k \in 1..Len(attempts) : attempts[k] \in S
          PROVE  \A k \in 1..Len(attempts') : attempts'[k] \in S
      BY <2>2, <2>3, Zenon
    <2>4. /\ failed \in 1..segments
          /\ Len(runs) = segments /\ Plain(runs, segments, junctions, limits)
          /\ Ends(runs, StatedTail)
      BY <1>0, <2>1 DEF RetryInv
    <2>5. ~ MovesHandoff =>
            \A k \in 1..Len(attempts') : attempts'[k] \in MergeSides(failed)
      BY <1>0, <2>1, <2>3 DEF RetryInv
    <2>6. MovesHandoff /\ failed = 1 =>
            \A k \in 1..Len(attempts') : attempts'[k] \in ToSet(dep_candidates)
      BY <1>0, <2>1, <2>3 DEF RetryInv
    <2>7. MovesHandoff /\ failed # 1 =>
            \A k \in 1..Len(attempts') :
              segments # 2 /\ attempts'[k] \in ToSet(arr_candidates)
      BY <1>0, <2>1, <2>2 DEF RetryInv
    <2> QED
      BY <2>1, <2>4, <2>5, <2>6, <2>7 DEF RetryInv
  <1>4. CASE pc' # "retry"
    BY <1>4 DEF RetryInv
  <1> HIDE DEF MovesHandoff, Edge, MergeSides, StatedTail
  <1> QED
    BY <1>1, <1>2, <1>3, <1>4, Arrivals

\* Every step keeps it.
LEMMA StitchStep ==
  ASSUME ChainInv, [Next]_vars
  PROVE  StitchInv' /\ CountInv'
  <1>0. /\ TypeEntry /\ TypeChain /\ GoalInv /\ AuthoredInv /\ HandoffInv
        /\ RetryInv /\ StitchInv /\ SegmentsInv /\ CountInv
    BY DEF ChainInv
  <1>1. CASE UNCHANGED vars
    BY <1>0, <1>1 DEF StitchInv, CountInv, StatedTail, vars, chainVars,
      ladderVars, phaseVars, entryVars
  <1>2. CASE pc' = "stitch" /\ \E bad \in SUBSET (1..segments) : Solve(bad)
    <2>1. /\ UNCHANGED <<segments, junctions, limits, phase_applied, job,
                         relaxed, dep_candidates, arr_candidates>>
          /\ pc = "solve"
      BY <1>2 DEF Solve, phaseVars, entryVars
    <2>2. UNCHANGED StatedTail
      BY <2>1 DEF StatedTail
    <2>3. /\ Len(runs') = segments
          /\ Plain(runs', segments, junctions, limits)
          /\ Ends(runs', StatedTail) /\ Authored
      BY <1>0, <1>2, SolveStep
    <2>4. /\ segments \in Nat /\ segments >= 2 /\ Len(limits) = segments
          /\ JunctionsOf(junctions, segments)
          /\ \A i \in 1..segments : limits[i].max \in Nat
      BY <2>3, LimitTypes, RouteAssumption DEF Authored
    <2>5. /\ SeamsOf(runs', limits) /\ LimitsOf(runs', limits)
          /\ SoftOf(runs', limits)
      BY <2>3, <2>4, PlainIsSound
    <2>6. phase_applied =>
            LabelsOf(runs', segments, dep_candidates, arr_candidates)
      <3>1. /\ runs'[1].covers = {1} /\ runs'[segments].covers = {segments}
            /\ runs'[1].tail = junctions[1]
            /\ runs'[segments].head = junctions[segments - 1]
        BY <2>3, <2>4 DEF Plain, Alone, HeadOf, JunctionsOf
      <3> QED
        BY <1>0, <2>1, <2>3, <3>1 DEF HandoffInv, LabelsOf
    <2> QED
      BY <1>2, <2>1, <2>2, <2>3, <2>4, <2>5, <2>6
        DEF StitchInv, CountInv, JunctionsOf
  <1>3. CASE pc' = "stitch" /\ Merge
    <2>1. /\ UNCHANGED <<limits, phase_applied, job, relaxed,
                         dep_candidates, arr_candidates>>
      BY <1>3 DEF Merge, phaseVars, entryVars
    <2>2. UNCHANGED StatedTail
      BY <2>1 DEF StatedTail
    <2>3. /\ Len(junctions') = segments - 2
          /\ segments' = segments - 1 /\ segments \in 2..MaxSegments
          /\ Len(runs') = segments - 1
          /\ Len(limits) = segments
          /\ SeamsOf(runs', limits) /\ LimitsOf(runs', limits)
          /\ ~ soft_drop_note' => SoftOf(runs', limits)
          /\ Ends(runs', StatedTail)
          /\ phase_applied =>
               LabelsOf(runs', segments, dep_candidates, arr_candidates)
      BY <1>0, <1>3, MergeStep
    <2>4. Len(runs') = segments' /\ Len(junctions') = segments' - 1
      BY <2>3, RouteAssumption
    <2> QED
      BY <1>3, <2>1, <2>2, <2>3, <2>4 DEF StitchInv, CountInv
  <1>4. CASE RescueEdge
    <2>1. /\ UNCHANGED <<limits, phase_applied, job, relaxed,
                         dep_candidates, arr_candidates>>
          /\ pc' = "stitch"
      BY <1>4 DEF RescueEdge, phaseVars, entryVars
    <2>2. UNCHANGED StatedTail
      BY <2>1 DEF StatedTail
    <2>3. /\ Len(junctions') = segments - 1
          /\ Len(runs') = segments
          /\ Len(limits) = segments
          /\ SeamsOf(runs', limits) /\ LimitsOf(runs', limits)
          /\ SoftOf(runs', limits) /\ Ends(runs', StatedTail)
          /\ LabelsOf(runs', segments, dep_candidates, arr_candidates)
          /\ UNCHANGED segments
      BY <1>0, <1>4, RescueStep
    <2> QED
      BY <2>1, <2>2, <2>3 DEF StitchInv, CountInv
  <1>5. CASE RestoreBeforeStitch
    <2>1. /\ pc = "segments" /\ Len(runs) = segments
          /\ pc' = "stitch_segments" /\ UNCHANGED chainVars
      BY <1>5 DEF RestoreBeforeStitch
    <2>2. Len(junctions) = segments - 1
      BY <1>0, <2>1 DEF AuthoredInv, JunctionsOf
    <2> QED
      BY <2>1, <2>2 DEF StitchInv, CountInv, chainVars
  <1>6. CASE pc' \notin {"stitch", "stitch_segments"}
    BY <1>6 DEF StitchInv, CountInv
  <1> QED
    BY <1>1, <1>2, <1>3, <1>4, <1>5, <1>6, Arrivals

\* Every step keeps it.
LEMMA SegmentsStep ==
  ASSUME ChainInv, [Next]_vars
  PROVE  SegmentsInv'
  <1>0. /\ TypeEntry /\ TypeChain /\ GoalInv /\ AuthoredInv /\ SegmentsInv
    BY DEF ChainInv
  <1>1. CASE UNCHANGED vars
    BY <1>0, <1>1 DEF SegmentsInv, vars, chainVars
  <1>2. CASE Baseline /\ pc' = "segments"
    <2>1. Len(runs') = 0 /\ segments' \in 2..MaxSegments
      BY <1>0, <1>2, BaselineStep
    <2> QED
      BY <1>2, <2>1, RouteAssumption DEF SegmentsInv, Plain
  <1>3. CASE SolveSegment /\ pc' = "segments"
    BY <1>0, <1>3, SegmentStep DEF SegmentsInv
  <1>4. CASE RestoreBeforeStitch
    <2>1. /\ pc = "segments" /\ Len(runs) = segments
          /\ pc' = "stitch_segments" /\ UNCHANGED chainVars
      BY <1>4 DEF RestoreBeforeStitch
    <2>2. Authored /\ Plain(runs, segments, junctions, limits)
      BY <1>0, <2>1, AuthoredChain DEF SegmentsInv
    <2>3. /\ segments \in Nat /\ segments >= 2 /\ Len(limits) = segments
          /\ JunctionsOf(junctions, segments)
          /\ \A i \in 1..segments : limits[i].max \in Nat
      BY <2>2, LimitTypes, RouteAssumption DEF Authored
    <2>4. SeamsOf(runs, limits) /\ LimitsOf(runs, limits)
      BY <2>1, <2>2, <2>3, PlainIsSound
    <2> QED
      BY <2>1, <2>4 DEF SegmentsInv, chainVars
  <1>5. CASE pc' \notin {"segments", "stitch_segments"}
    BY <1>5 DEF SegmentsInv
  <1> QED
    BY <1>1, <1>2, <1>3, <1>4, <1>5, Arrivals

\* Every step keeps it.
LEMMA DirectStep ==
  ASSUME ChainInv, [Next]_vars
  PROVE  DirectInv'
  <1>0. TypeAnswer /\ GoalInv /\ DirectInv
    BY DEF ChainInv
  <1> USE DEF InForce, DeclaredOverrides
  <1>1. CASE UNCHANGED vars
    BY <1>0, <1>1 DEF DirectInv, vars, chainVars, entryVars, tuningVars
  <1>2. CASE ApplyHardLimits
    <2>1. /\ optimizer' = [NoOverride EXCEPT !.max = HardMin(InForce)]
          /\ pc' = "fallback" /\ UNCHANGED <<limits, job, segments>>
      BY <1>2 DEF ApplyHardLimits, entryVars, chainVars
    <2>2. optimizer'.max = HardMin(InForce)
      BY <2>1 DEF NoOverride
    <2> QED
      BY <2>1, <2>2 DEF DirectInv
  <1>3. CASE PlanDirect /\ pc' = "judge"
    <2>1. /\ pc = "fallback" /\ UNCHANGED <<limits, job, segments>>
      BY <1>3 DEF PlanDirect, entryVars
    <2>2. Len(runs') = 1 /\ runs'[1].max = optimizer.max
      BY <1>0, <1>3, PlanDirectStep
    <2> QED
      BY <1>0, <1>3, <2>1, <2>2 DEF DirectInv
  <1>4. CASE pc' \notin {"fallback", "judge"}
    BY <1>4 DEF DirectInv
  <1> HIDE DEF InForce, DeclaredOverrides
  <1> QED
    BY <1>1, <1>2, <1>3, <1>4, Arrivals

\* Before the first plan nothing is authored.
LEMMA InitChainInv == Init => ChainInv
  <1> SUFFICES ASSUME Init PROVE ChainInv
    OBVIOUS
  <1> USE DEF Init
  <1>1. TypeEntry
    BY IdleJobType DEF TypeEntry
  <1>2. TypeChain
    BY EmptySeq, RouteAssumption DEF TypeChain
  <1>3. TypeAnswer
    <2>1. NoFlight \in Flights
      BY OverrideTypes, EmptySeq DEF NoFlight, Flights, Kinds
    <2>2. Failed("NONE") \in ConsistentResults
      BY ReasonRanks DEF Failed, ConsistentResults, Results
    <2> QED
      BY <2>1, <2>2, OverrideTypes DEF TypeAnswer
  <1>4. /\ GoalInv /\ AuthoredInv /\ HandoffInv /\ RetryInv /\ StitchInv
        /\ SegmentsInv /\ DirectInv /\ CountInv
    BY DEF GoalInv, AuthoredInv, HandoffInv, RetryInv, StitchInv, SegmentsInv,
      DirectInv, CountInv
  <1> QED
    BY <1>1, <1>2, <1>3, <1>4 DEF ChainInv

\* Every chain the planner builds, on every rung of the ladder, is sound up
\* to the point where it is answered (SegmentChainPlanner::planImpl and its
\* retries).
THEOREM ChainInductive == Spec => []ChainInv
  <1>1. ASSUME ChainInv, [Next]_vars
        PROVE  ChainInv'
    <2>1. TypeEntry /\ GoalInv
      BY <1>1 DEF ChainInv
    <2> QED
      BY <1>1, <2>1, TypeEntryStep, TypeChainStep, TypeAnswerStep, GoalStep,
        AuthoredStep, HandoffStep, RetryStep, StitchStep, SegmentsStep,
        DirectStep DEF ChainInv
  <1> QED
    BY <1>1, InitChainInv, PTL DEF Spec

-----------------------------------------------------------------------------
(***************************************************************************)
(* Delivered flights.                                                      *)
(***************************************************************************)

\* A delivering step answers with one of five flights; the mission, its
\* junction hand-offs and its limits stand as they did.
Delivers ==
  /\ UNCHANGED <<job, relaxed, small, segments, limits, dep_candidates,
                 arr_candidates>>
  /\ \/ /\ flight' = Flight("single", <<WholeRun>>, "unjudged")
        /\ result' = Settled(Degrade(Success, "SINGLE_PLAN_FALLBACK"))
     \/ /\ pc = "judge" /\ result' = Settled(DirectResult)
        /\ \E v \in {"clean", "unjudged"} : flight' = Flight("direct", runs, v)
     \/ /\ pc = "stitch"
        /\ \E v \in {"clean", "hot"} :
             /\ flight' = Flight("chain", runs, v)
             /\ result' = Settled(Budgeted(StitchedResult, v))
     \/ flight' = BaselineFlight
     \/ /\ pc = "stitch_segments"
        /\ \E v \in {"clean", "hot"} : flight' = Flight("segments", runs, v)

\* No other step delivers.
LEMMA DeliveringSteps ==
  ASSUME [Next]_vars, Delivered'
  PROVE  Delivers \/ UNCHANGED vars
  <1> USE DEF Answer, Store, Refuse, KeepSlot, Invalidate, entryVars, chainVars,
    phaseVars, Delivers
  <1>0. pc' = "done" /\ HasTrajectory(result')
    BY DEF Delivered, HasTrajectory
  <1>1. CASE MultiWaypoint
    BY <1>0, <1>1, RefusalsDeliverNothing DEF MultiWaypoint
  <1>2. CASE JudgeDirect
    BY <1>0, <1>2, RefusalsDeliverNothing DEF JudgeDirect, FitDirect
  <1>3. CASE Stitch
    BY <1>0, <1>3, RefusalsDeliverNothing DEF Stitch, FitStitched
  <1>4. CASE Baseline
    BY <1>0, <1>4, RefusalsDeliverNothing DEF Baseline
  <1>5. CASE SolveSegment
    <2>1. flight' = BaselineFlight
      BY <1>0, <1>5 DEF SolveSegment
    <2> QED
      BY <1>5, <2>1 DEF SolveSegment
  <1>6. CASE StitchSegments
    BY <1>0, <1>6 DEF StitchSegments, FitStitched
  <1> HIDE DEF Answer, Store, Refuse, KeepSlot, Invalidate, entryVars, chainVars,
    phaseVars, Delivers
  <1> QED
    BY <1>1, <1>2, <1>3, <1>4, <1>5, <1>6, Arrivals

\* The runs of a flight, as a set.
LEMMA ElementsOfRuns ==
  \A rs \in Seq(Runs) :
    ToSet(rs) = {rs[k] : k \in 1..Len(rs)}
  BY LenProperties DEF ToSet

\* A stored flight keeps the runs, the kind, the verdict and the labels.
LEMMA StoredFlight ==
  \A kind, rs, v :
    /\ Flight(kind, rs, v).runs = rs /\ Flight(kind, rs, v).kind = kind
    /\ Flight(kind, rs, v).verdict = v
    /\ Flight(kind, rs, v).labels = (phase_applied /\ kind = "chain")
  BY DEF Flight

\* What is stored from a stitch is the chain that reached it.
LEMMA StitchedFlights ==
  ASSUME ChainInv, Delivers, flight'.kind \in {"chain", "segments"}
  PROVE  /\ flight'.runs = runs /\ runs \in Seq(Runs) /\ runs # <<>>
         /\ SeamsOf(runs, limits) /\ LimitsOf(runs, limits)
  <1>0. /\ TypeChain /\ StitchInv /\ SegmentsInv /\ CountInv
    BY DEF ChainInv
  <1>1. /\ flight'.runs = runs /\ pc \in {"stitch", "stitch_segments"}
    BY StoredFlight, FlightFields DEF Delivers
  <1>2. Len(runs) >= 1
    BY <1>0, <1>1, RouteAssumption DEF TypeChain, CountInv
  <1> QED
    BY <1>0, <1>1, <1>2 DEF TypeChain, StitchInv, SegmentsInv

\* Delivered flights keep their limits: one lemma per property, by the flight
\* that is stored.
LEMMA LimitsKeptStep ==
  ASSUME ChainInv, HardLimitsKept, [Next]_vars
  PROVE  HardLimitsKept'
  <1>0. TypeEntry /\ TypeChain /\ DirectInv
    BY DEF ChainInv
  <1>1. CASE UNCHANGED vars
    BY <1>1 DEF HardLimitsKept, Stitched, Delivered, InForce, DeclaredOverrides,
      vars, entryVars, chainVars, answerVars
  <1>2. CASE ~ Delivered'
    BY <1>2 DEF HardLimitsKept, Stitched
  <1>3. CASE Delivers
    <2>0. UNCHANGED <<limits, InForce>>
      BY <1>3 DEF Delivers, InForce, DeclaredOverrides
    <2>1. ASSUME flight'.kind \in {"chain", "segments"}
          PROVE  \A r \in ToSet(flight'.runs) : \A i \in r.covers :
                   limits[i].max # 0 => r.max \in 1..limits[i].max
      BY <1>3, <2>1, StitchedFlights, ElementsOfRuns DEF LimitsOf
    <2>2. ASSUME flight'.kind = "direct"
          PROVE  \A o \in InForce : o.max # 0 => flight'.runs[1].max \in 1..o.max
      <3>1. pc = "judge" /\ flight'.runs = runs
        BY <1>3, <2>2, StoredFlight, FlightFields DEF Delivers
      <3>2. flight'.runs[1].max = HardMin(InForce)
        BY <1>0, <3>1 DEF DirectInv
      <3> QED
        BY <1>0, <3>2, HardMinBounds, InForceTypes
    <2> QED
      BY <2>0, <2>1, <2>2 DEF HardLimitsKept, Stitched
  <1> QED
    BY <1>1, <1>2, <1>3, DeliveringSteps

\* Delivered flights keep their seams.
LEMMA SeamsStep ==
  ASSUME ChainInv, SeamsExact, [Next]_vars
  PROVE  SeamsExact'
  <1>0. TypeChain
    BY DEF ChainInv
  <1>1. CASE UNCHANGED vars
    BY <1>1 DEF SeamsExact, LastRun, Stitched, Delivered, vars, chainVars,
      answerVars
  <1>2. CASE ~ Stitched'
    BY <1>2 DEF SeamsExact
  <1>3. CASE Delivers /\ flight'.kind \in {"chain", "segments"}
    <2>1. /\ flight'.runs = runs /\ runs \in Seq(Runs) /\ limits' = limits
          /\ SeamsOf(runs, limits)
      BY <1>3, StitchedFlights DEF Delivers
    <2>2. DOMAIN limits = 1..Len(limits)
      BY <1>0, LenProperties DEF TypeChain
    <2>3. UNION {r.covers : r \in ToSet(runs)} = DOMAIN limits
      <3>1. ASSUME NEW r \in ToSet(runs)
            PROVE  r.covers \subseteq 1..Len(limits)
        BY <2>1, ElementsOfRuns DEF SeamsOf
      <3>2. ASSUME NEW i \in 1..Len(limits)
            PROVE  \E r \in ToSet(runs) : i \in r.covers
        <4>1. PICK k \in 1..Len(runs) : i \in runs[k].covers
          BY <2>1, Zenon DEF SeamsOf
        <4>2. runs[k] \in ToSet(runs)
          BY <2>1, ElementsOfRuns
        <4> QED
          BY <4>1, <4>2
      <3> QED
        BY <2>2, <3>1, <3>2, Zenon
    <2> QED
      BY <2>1, <2>3 DEF SeamsExact, SeamsOf, LastRun
  <1> QED
    BY <1>1, <1>2, <1>3, DeliveringSteps DEF Stitched

\* Delivered labels are those of the chain that reached the stitch.
LEMMA LabelsStep ==
  ASSUME ChainInv, PhaseLabelsHonest, [Next]_vars
  PROVE  PhaseLabelsHonest'
  <1>0. HandoffInv /\ StitchInv
    BY DEF ChainInv
  <1>1. CASE UNCHANGED vars
    BY <1>1 DEF PhaseLabelsHonest, LastRun, Delivered, vars, entryVars,
      phaseVars, chainVars, answerVars
  <1>2. CASE ~ (Delivered' /\ flight'.labels)
    BY <1>2 DEF PhaseLabelsHonest
  <1>3. CASE Delivers /\ flight'.labels
    <2>1. ASSUME NEW kind, NEW rs, NEW v, flight' = Flight(kind, rs, v)
          PROVE  phase_applied /\ kind = "chain"
      <3>1. Flight(kind, rs, v).labels = (phase_applied /\ kind = "chain")
        BY StoredFlight, Zenon
      <3> QED
        BY <1>3, <2>1, <3>1, Zenon
    <2>2. flight' # BaselineFlight
      <3>1. "baseline" # "chain"
        OBVIOUS
      <3> QED
        BY <2>1, <3>1, Zenon DEF BaselineFlight
    <2>3. PICK v : pc = "stitch" /\ flight' = Flight("chain", runs, v)
      BY <1>3, <2>1, <2>2 DEF Delivers
    <2>4. /\ pc = "stitch" /\ flight'.runs = runs /\ phase_applied
      <3>1. flight'.runs = runs
        BY <2>3, StoredFlight
      <3>2. phase_applied
        BY <2>1, <2>3, Zenon
      <3> QED
        BY <2>3, <3>1, <3>2
    <2>5. /\ job.phase
          /\ LabelsOf(runs, Len(limits), dep_candidates, arr_candidates)
      BY <1>0, <2>4 DEF HandoffInv, StitchInv
    <2> QED
      BY <1>3, <2>4, <2>5 DEF Delivers, PhaseLabelsHonest, LabelsOf, LastRun
  <1> QED
    BY <1>1, <1>2, <1>3, DeliveringSteps

\* A plain success says that nothing degraded the answer.
LEMMA PlainSuccess ==
  /\ Settled(Degrade(Success, "SINGLE_PLAN_FALLBACK")) # Success
  /\ Settled(DirectResult) = Success => ~ relaxed /\ small /\ ~ job.phase
  /\ \A v \in {"clean", "hot"} :
       Settled(Budgeted(StitchedResult, v)) = Success =>
         v = "clean" /\ ~ relaxed /\ ~ phase_note /\ ~ soft_drop_note
  <1> USE DEF Success, Settled, Degrade
  <1>1. Settled(Degrade(Success, "SINGLE_PLAN_FALLBACK")) # Success
    OBVIOUS
  <1>2. Settled(DirectResult) = Success => ~ relaxed /\ small /\ ~ job.phase
    BY DEF DirectResult
  <1>3. ASSUME NEW v \in {"clean", "hot"},
               Settled(Budgeted(StitchedResult, v)) = Success
        PROVE  v = "clean" /\ ~ relaxed /\ ~ phase_note /\ ~ soft_drop_note
    BY <1>3 DEF Budgeted, StitchedResult
  <1> QED
    BY <1>1, <1>2, <1>3

\* A plain success is answered only when nothing was left out.
LEMMA SuccessStep ==
  ASSUME ChainInv, SuccessMeansAsked, [Next]_vars
  PROVE  SuccessMeansAsked'
  <1>0. GoalInv /\ HandoffInv /\ StitchInv
    BY DEF ChainInv
  <1> DEFINE asked == flight'.kind \in {"single", "direct", "chain"}
                      /\ result' = Success
  <1>1. CASE UNCHANGED vars
    BY <1>1 DEF SuccessMeansAsked, LastRun, Delivered, vars, entryVars,
      chainVars, answerVars
  <1>2. CASE ~ (Delivered' /\ asked)
    BY <1>2 DEF SuccessMeansAsked
  <1>3. CASE Delivers /\ asked
    <2>0. UNCHANGED <<job, relaxed, small, limits>>
      BY <1>3 DEF Delivers
    <2>1. CASE flight'.kind = "single"
      BY <1>3, <2>1, StoredFlight, FlightFields, PlainSuccess DEF Delivers
    <2>2. CASE flight'.kind = "direct"
      <3>1. pc = "judge" /\ Settled(DirectResult) = Success
        BY <1>3, <2>2, StoredFlight, FlightFields DEF Delivers
      <3>2. ~ job.multi /\ ~ relaxed /\ small /\ ~ job.phase
        BY <1>0, <3>1, PlainSuccess DEF GoalInv
      <3> QED
        BY <2>0, <2>2, <3>2 DEF SuccessMeansAsked
    <2>3. CASE flight'.kind = "chain"
      <3>1. PICK v \in {"clean", "hot"} :
              /\ pc = "stitch" /\ flight' = Flight("chain", runs, v)
              /\ Settled(Budgeted(StitchedResult, v)) = Success
        BY <1>3, <2>3, StoredFlight, FlightFields DEF Delivers
      <3>2. v = "clean" /\ ~ relaxed /\ ~ phase_note /\ ~ soft_drop_note
        BY <3>1, PlainSuccess
      <3>3. /\ flight'.runs = runs /\ flight'.verdict = "clean"
            /\ flight'.labels = (phase_applied /\ "chain" = "chain")
        <4>1. flight' = Flight("chain", runs, "clean")
          BY <3>1, <3>2
        <4> QED
          BY <4>1, StoredFlight
      <3>4. ~ job.multi /\ (job.phase => phase_applied)
        BY <1>0, <3>1, <3>2 DEF GoalInv, HandoffInv
      <3>5. Ends(runs, job.tail) /\ SoftOf(runs, limits)
        BY <1>0, <3>1, <3>2 DEF StitchInv, StatedTail
      <3>6. \A r \in ToSet(runs) : \A i \in r.covers :
              limits[i].soft \in {0, r.soft}
        <4>1. runs \in Seq(Runs)
          BY DEF ChainInv, TypeChain
        <4> SUFFICES ASSUME NEW r \in ToSet(runs), NEW i \in r.covers
                     PROVE  limits[i].soft \in {0, r.soft}
          OBVIOUS
        <4>2. PICK k \in 1..Len(runs) : r = runs[k]
          BY <4>1, ElementsOfRuns
        <4> QED
          BY <3>5, <4>2 DEF SoftOf
      <3> QED
        BY <2>0, <2>3, <3>2, <3>3, <3>4, <3>5, <3>6
          DEF SuccessMeansAsked, Ends, LastRun
    <2> QED
      BY <1>3, <2>1, <2>2, <2>3
  <1> QED
    BY <1>1, <1>2, <1>3, DeliveringSteps

\* The parts of the type invariant make up the whole.
LEMMA ChainTypes == ChainInv => TypeOK
  <1> SUFFICES ASSUME ChainInv PROVE TypeOK
    OBVIOUS
  <1>0. TypeEntry /\ TypeChain /\ TypeAnswer /\ CountInv
    BY DEF ChainInv
  <1> DEFINE A == 1..(Vertices - 1)
             B == 1..Vertices
  <1>1. A \subseteq B
    BY RouteAssumption
  <1>2. dep_candidates \in Seq(A) /\ arr_candidates \in Seq(A)
    BY <1>0 DEF TypeChain
  <1> HIDE DEF A, B
  <1>3. dep_candidates \in Seq(B) /\ arr_candidates \in Seq(B)
    BY <1>1, <1>2
  <1> QED
    BY <1>0, <1>3 DEF TypeEntry, TypeChain, TypeAnswer, CountInv, Flights, TypeOK, B

\* Before the first plan nothing is delivered.
LEMMA InitDelivery ==
  Init => HardLimitsKept /\ SeamsExact /\ PhaseLabelsHonest /\ SuccessMeansAsked
  BY DEF Init, HardLimitsKept, SeamsExact, PhaseLabelsHonest, SuccessMeansAsked,
    Stitched, Delivered

-----------------------------------------------------------------------------
(***************************************************************************)
(* Results about delivered flights.                                        *)
(***************************************************************************)

\* Every variable stays in its range in every plan, of any route, number of
\* segments and declarations: in particular every junction lies on the route
\* and every answer is consistent.
THEOREM TypeCorrect == Spec => []TypeOK
  BY ChainInductive, ChainTypes, PTL

\* A delivered flight is nowhere faster than a hard limit stated for the
\* segment it flies, whether that segment was solved, retried, merged or
\* planned whole.
THEOREM HardLimitsAreKept == Spec => []HardLimitsKept
  <1>1. ChainInv /\ HardLimitsKept /\ [Next]_vars => HardLimitsKept'
    BY LimitsKeptStep
  <1> QED
    BY <1>1, InitDelivery, ChainInductive, PTL DEF Spec

\* A delivered chain is one flight: every run starts in the state the one
\* before it ends in, the runs advance, and no segment is missing, also after
\* a hand-off moved or a junction was dropped.
THEOREM SeamsAreExact == Spec => []SeamsExact
  <1>1. ChainInv /\ SeamsExact /\ [Next]_vars => SeamsExact'
    BY SeamsStep
  <1> QED
    BY <1>1, InitDelivery, ChainInductive, PTL DEF Spec

\* Phase labels are only ever put on a flight whose first and last runs are
\* the departure and the arrival alone, cut at hand-offs that were screened.
THEOREM LabelsAreHonest == Spec => []PhaseLabelsHonest
  <1>1. ChainInv /\ PhaseLabelsHonest /\ [Next]_vars => PhaseLabelsHonest'
    BY LabelsStep
  <1> QED
    BY <1>1, InitDelivery, ChainInductive, PTL DEF Spec

\* SUCCESS is never said of a flight with something stated left out.
THEOREM SuccessIsAsAsked == Spec => []SuccessMeansAsked
  <1>1. ChainInv /\ SuccessMeansAsked /\ [Next]_vars => SuccessMeansAsked'
    BY SuccessStep
  <1> QED
    BY <1>1, InitDelivery, ChainInductive, PTL DEF Spec
=============================================================================
