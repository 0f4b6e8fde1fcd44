--------------------------- MODULE PlanningResult ---------------------------
(***************************************************************************)
(* The planner's answer to the state machine (planning_result.h): an       *)
(* outcome and the single strongest reason for it.                         *)
(***************************************************************************)
EXTENDS Integers

\* PlanReason, weakest first: four that can be traded for a flight, then the
\* ones that say why no trajectory exists.
ReasonOrder ==
  <<"NONE",
    "PHASE_BOUNDARY_FALLBACK", "SINGLE_PLAN_FALLBACK",
    "STITCHED_ENVELOPE_BUDGET", "FINAL_BOUNDARY_RELAXED",
    "INITIAL_MODE_UNSUPPORTED", "DIRECT_FALLBACK_UNSAFE",
    "STITCHED_FLIGHT_UNSAFE", "TRANSITION_GENERATION_FAILED",
    "TRANSITION_ADAPTER_UNSOUND", "TRANSITION_JUNCTION_UNSOUND">>

Reasons == {ReasonOrder[i] : i \in 1..11}
DegradeReasons == {ReasonOrder[i] : i \in 2..5}
FailReasons == {ReasonOrder[i] : i \in 6..11}

Rank(reason) == CHOOSE i \in 1..11 : ReasonOrder[i] = reason

Results == [outcome : {"FAILED", "SUCCESS", "DEGRADED"}, reason : Reasons]

HasTrajectory(r) == r.outcome # "FAILED"

Success == [outcome |-> "SUCCESS", reason |-> "NONE"]
Failed(reason) == [outcome |-> "FAILED", reason |-> reason]

Stronger(r, reason) == IF Rank(reason) > Rank(r.reason) THEN reason ELSE r.reason

\* Without degrade()'s first line a refusal would turn into a flight.
\* FAILED is terminal; otherwise the strongest reason wins.
Degrade(r, reason) ==
  IF r.outcome = "FAILED" THEN r
  ELSE [outcome |-> "DEGRADED", reason |-> Stronger(r, reason)]

\* The answers that make sense: reasons match outcomes.
ConsistentResults ==
  {r \in Results :
     /\ r.outcome = "SUCCESS" => r.reason = "NONE"
     /\ r.outcome = "FAILED" => r.reason \in FailReasons \cup {"NONE"}
     /\ r.outcome = "DEGRADED" => r.reason \in DegradeReasons}
=============================================================================
