----------------------------- MODULE MissionPlan -----------------------------
(***************************************************************************)
(* What one call of the mission planner promises the state machine: an     *)
(* answer, and what stands in the local trajectory slot, from which the    *)
(* machine publishes and flies.  A delivered plan stands there itself; a   *)
(* refused one never does: the slot keeps the earlier flight or is made    *)
(* unflyable.  While the call runs nobody looks at the slot.               *)
(* ChainPlanner implements it (its Contract property), and it is what      *)
(* ReplanFSM assumes of the planner (its AfterFailure operator).           *)
(***************************************************************************)

VARIABLES
  busy,     \* a plan is being made
  outcome,  \* the last answer: "FAILED", "SUCCESS" or "DEGRADED"
  slot      \* the slot: "none", "old" (an earlier plan's) or "new" (this one's)

planVars == <<busy, outcome, slot>>

Init == busy = FALSE /\ outcome = "FAILED" /\ slot = "none"

\* The flight of the last plan, if any, is now an earlier one.
Start ==
  /\ ~busy
  /\ busy' = TRUE
  /\ slot' = IF slot = "new" THEN "old" ELSE slot
  /\ UNCHANGED outcome

Deliver ==
  /\ busy
  /\ busy' = FALSE
  /\ outcome' \in {"SUCCESS", "DEGRADED"}
  /\ slot' = "new"

Refuse ==
  /\ busy
  /\ busy' = FALSE
  /\ outcome' = "FAILED"
  /\ slot' \in {slot, "none"}

Next == Start \/ Deliver \/ Refuse

Spec == Init /\ [][Next]_planVars
=============================================================================
