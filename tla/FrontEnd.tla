----------------------------- MODULE FrontEnd -----------------------------
(***************************************************************************)
(* astarSearchAndGetSimplePath of the planner's front end                  *)
(* (dyn_a_star.cpp) as a whole: a query is answered by fast marching and   *)
(* its zone passes or by the A* search and its ladder, as the parameter    *)
(* manager/front_end selects, and the raw route of either goes through the *)
(* same simplifier.                                                        *)
(***************************************************************************)
EXTENDS PathSearch, RouteSimplifier

CONSTANT Scenes   \* what a query may meet, for each front end

ASSUME ScenesAssumption ==
  \A f \in {"ASTAR", "FM2"} : \A s \in Scenes[f] : IsScene(s)

VARIABLE front_end

vars == <<scene, front_end, searchVars, fmVars, simpVars>>

Init ==
  /\ front_end \in {"ASTAR", "FM2"}
  /\ scene \in Scenes[front_end]
  /\ SearchInit
  /\ FMInit
  /\ SimplifyInit

\* The marching front end never falls through to the search.
ByMarching ==
  /\ front_end = "FM2"
  /\ FMNext
  /\ UNCHANGED <<front_end, searchVars, simpVars>>

BySearch ==
  /\ front_end = "ASTAR"
  /\ SearchNext
  /\ UNCHANGED <<front_end, fmVars, simpVars>>

\* A query whose field could not be solved returns the direct line, and so
\* does a search that failed twice; neither goes through the simplifier's
\* steps, being of two points.
HandOn ==
  /\ \/ fm_stage = "finished" /\ TakeRaw(fm2_path)
     \/ stage = "done" /\ TakeRaw(route)
  /\ UNCHANGED <<front_end, searchVars>>

Simplify == SimplifyNext /\ UNCHANGED <<front_end, searchVars>>

Answered == simp = "done" /\ UNCHANGED vars

Next == ByMarching \/ BySearch \/ HandOn \/ Simplify \/ Answered

Spec == Init /\ [][Next]_vars

=============================================================================
