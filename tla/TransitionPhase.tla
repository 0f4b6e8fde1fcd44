--------------------------- MODULE TransitionPhase ---------------------------
(***************************************************************************)
(* planTransitionMission (segment_chain_planner.cpp) and the generator it  *)
(* calls (transition_phase.cpp): fly a start the cruise model cannot take  *)
(* to an entry on the committed route.  Every entry is tried with every    *)
(* control primitive; a candidate is propagated step by step through gates *)
(* that disqualify it, captured near its entry, expressed as a polynomial  *)
(* on ever finer knots and validated.  The first that survives is flown.   *)
(*                                                                         *)
(* What a gate judges is the situation of a step: the set of gates the     *)
(* state or its command would fail, whether it is in the handoff window,   *)
(* and whether the entry can be captured from it.  Physics is whatever     *)
(* situations follow one another.  The zone policy can go stale at any     *)
(* moment.  X_mutant is a plausible wrong X, used to show that the checks  *)
(* can fail.                                                               *)
(***************************************************************************)
EXTENDS Integers, Sequences, FiniteSetsExt

CONSTANTS
  Arcs,         \* where on the route an entry may lie
  MaxEntries,   \* screened entries (max_candidates in the code)
  Primitives,   \* control primitives of one entry, tried in order 1..n
  MaxSteps,     \* t_max_s in steps
  DwellSteps,   \* dwell_s in steps
  KnotStep,     \* steps between two knots of the coarsest spline
  Failing,      \* the gates a situation may fail
  MaxFailures   \* bound on the gates one situation fails

ASSUME CountAssumption ==
  /\ {MaxEntries, Primitives, DwellSteps, KnotStep} \subseteq Nat \ {0}
  /\ MaxSteps \in Nat
  /\ Arcs \subseteq Nat

Levels == 3

\* The gates of a state, in the order they are tried, then those of the
\* command and the step from it.  The zone probe answers "stale" first.
StateGates == <<"finiteness", "preguard", "terrain", "stale", "zone">>
StepGates == <<"interior", "representable", "saturated", "limits">>

\* The counter of the audit a failed gate adds to.
Counter(gate) == IF gate = "interior" THEN "saturated" ELSE gate
Counters ==
  {"finiteness", "preguard", "terrain", "zone", "timeout", "saturated",
   "representable", "limits", "end_pva", "adapter"}

GateNames == ({StateGates[i] : i \in DOMAIN StateGates} \ {"stale"})
             \cup {StepGates[i] : i \in DOMAIN StepGates}

ASSUME FailingAssumption == Failing \subseteq GateNames

Situations ==
  [fails : {f \in SUBSET Failing : Cardinality(f) <= MaxFailures},
   window : BOOLEAN, capturable : BOOLEAN]

VARIABLES
  req,        \* the request
  policy,     \* the zone policy of the snapshot: "current" or "stale"
  pc,
  entries,    \* the entry arcs, in ascending order
  candidate,  \* audit.candidates_enumerated
  samples,    \* the situations the candidate has flown through
  dwell,      \* consecutive samples in the handoff window
  level,      \* of the knot ladder
  fit,        \* what each knot spacing gives for this candidate
  reached,    \* any_candidate_reached_adapter
  audit,      \* disqualifications by gate
  result

flightVars == <<samples, dwell, level, fit>>
vars == <<req, policy, pc, entries, candidate, flightVars, reached, audit,
          result>>

NoResult == [ok |-> FALSE, reason |-> "none"]

\* The first gate of an order that fails, or "none".
Stopper(order, fails) ==
  LET hit == {i \in DOMAIN order : order[i] \in fails}
  IN IF hit = {} THEN "none" ELSE order[Min(hit)]

\* The entry arcs in ascending order, equal ones in the order given.
Sorted_mutant(arcs) == arcs

Sorted(arcs) ==
  LET Before(i, j) == arcs[i] < arcs[j] \/ (arcs[i] = arcs[j] /\ i < j)
      rank(i) == Cardinality({j \in DOMAIN arcs : Before(j, i)}) + 1
  IN [k \in DOMAIN arcs |-> arcs[CHOOSE i \in DOMAIN arcs : rank(i) = k]]

Requests ==
  [params : BOOLEAN, limits : BOOLEAN,
   floor : {"terrain", "off", "sourceless"},
   acc : {"flyable", "rejected"},
   arcs : UNION {[1..n -> Arcs] : n \in 0..MaxEntries}]

Init ==
  /\ req \in Requests
  /\ policy = "current"
  /\ pc = "commit"
  /\ entries = <<>>
  /\ candidate = 0
  /\ samples = <<>> /\ dwell = 0 /\ level = 0 /\ fit = <<>>
  /\ reached = FALSE
  /\ audit = [c \in Counters |-> 0]
  /\ result = NoResult

-----------------------------------------------------------------------------
(* The coordinator *)

Fail(reason) ==
  /\ result' = [ok |-> FALSE, reason |-> reason]
  /\ pc' = "done"

coordVars == <<req, policy, entries, candidate, flightVars, reached, audit>>

\* Parameters and units; the one front-end pass that commits the route; the
\* snapshot of its zone policy.
Commit ==
  /\ pc = "commit"
  /\ \/ req.params /\ policy = "current" /\ pc' = "screen" /\ UNCHANGED result
     \/ ~req.params /\ Fail("parameters")
     \/ req.params /\ Fail("route")
     \/ req.params /\ policy = "stale" /\ Fail("snapshot")
  /\ UNCHANGED coordVars

\* The screened entries become the request.  What generate refuses, in order;
\* the coordinator itself stops at an empty screening.
Problem(p) ==
  CASE p = "no entry" -> req.arcs = <<>>
    [] p = "no terrain source" -> req.floor = "sourceless"
    [] p = "limits" -> ~req.limits
    [] p = "start acceleration" -> req.acc = "rejected"

Refusal ==
  LET order == <<"no entry", "no terrain source", "limits",
                 "start acceleration">>
      names == {order[i] : i \in DOMAIN order}
  IN Stopper(order, {p \in names : Problem(p)})

Screen ==
  /\ pc = "screen"
  /\ \/ /\ Refusal = "none"
        /\ entries' = Sorted(req.arcs)
        /\ candidate' = 1
        /\ pc' = "fly"
        /\ UNCHANGED result
     \/ /\ Refusal # "none" /\ Fail(Refusal)
        /\ UNCHANGED <<entries, candidate>>
  /\ UNCHANGED <<req, policy, flightVars, reached, audit>>

\* Whatever else the node runs may move the world the snapshot was taken in.
GoStale ==
  /\ policy = "current"
  /\ policy' = "stale"
  /\ UNCHANGED <<req, pc, entries, candidate, flightVars, reached, audit,
                 result>>

-----------------------------------------------------------------------------
(* The generator *)

\* With a stale policy every probe is refused, contact or not.
Facts(s) ==
  LET seen == IF req.floor = "terrain" THEN s.fails ELSE s.fails \ {"terrain"}
  IN IF policy = "stale" THEN seen \cup {"stale"} ELSE seen

Dwell_mutant(s) == IF s.window THEN dwell + 1 ELSE dwell

Dwell(s) == IF s.window THEN dwell + 1 ELSE 0

Captures(s) == Dwell(s) >= DwellSteps /\ s.capturable

\* zone_stale_abort: nothing more is tried.
Abort ==
  /\ Fail("stale")
  /\ UNCHANGED <<candidate, flightVars, audit>>

\* On to the next primitive, or to the next entry, or to the final verdict.
Disqualify(gate) ==
  /\ audit' = [audit EXCEPT ![Counter(gate)] = @ + 1]
  /\ samples' = <<>> /\ dwell' = 0 /\ level' = 0 /\ fit' = <<>>
  /\ IF candidate < Primitives * Len(entries)
     THEN candidate' = candidate + 1 /\ pc' = "fly" /\ UNCHANGED result
     ELSE /\ Fail(IF reached THEN "adapter" ELSE "propagation")
          /\ UNCHANGED candidate

callVars == <<req, policy, entries, reached>>

\* The situation s passes the gates of a state: finiteness, the guards ahead of
\* the equations, the floor above ground, the zones.
Passes(s) == pc = "fly" /\ Stopper(StateGates, Facts(s)) = "none"

\* A gate on the current state.
StateFails(s) ==
  LET gate == Stopper(StateGates, Facts(s))
  IN /\ pc = "fly" /\ gate # "none"
     /\ IF gate = "stale" THEN Abort ELSE Disqualify(gate)
     /\ UNCHANGED callVars

\* Termination: long enough in the window, at the entry, on its tangent.
Capture(s) ==
  /\ Passes(s) /\ Captures(s)
  /\ samples' = Append(samples, s) /\ dwell' = Dwell(s)
  /\ pc' = "captured"
  /\ UNCHANGED <<callVars, candidate, level, fit, audit, result>>

Timeout(s) ==
  /\ Passes(s) /\ ~Captures(s)
  /\ Len(samples) = MaxSteps
  /\ Disqualify("timeout")
  /\ UNCHANGED callVars

\* The command of the step, its forces and the limits of the model.
Fly(s) ==
  LET gate == Stopper(StepGates, s.fails)
  IN /\ Passes(s) /\ ~Captures(s)
     /\ Len(samples) < MaxSteps
     /\ \/ gate # "none" /\ Disqualify(gate)
        \/ /\ gate = "none"
           /\ samples' = Append(samples, s) /\ dwell' = Dwell(s)
           /\ UNCHANGED <<pc, candidate, level, fit, audit, result>>
     /\ UNCHANGED callVars

\* The knot spacings of the ladder; below one step it cannot go.
Spacing(l) == Max({1, KnotStep \div 2^l})
Spacings == {Spacing(l) : l \in 0..Levels - 1}

\* The handoff state must lie in the envelope; then the spline is fitted.  Of
\* a spacing the record's data decide whether the fit is loose, and whether
\* the curve keeps the bare limits.
JudgeHandoff ==
  /\ pc = "captured"
  /\ \/ Disqualify("end_pva") /\ UNCHANGED reached
     \/ /\ reached' = TRUE
        /\ fit' \in [Spacings -> {"loose", "fails", "holds"}]
        /\ pc' = "adapt"
        /\ UNCHANGED <<candidate, samples, dwell, level, audit, result>>
  /\ UNCHANGED <<req, policy, entries>>

\* A record of one sample has no piece to fit.
Quality == IF Len(samples) >= 2 THEN fit[Spacing(level)] ELSE "loose"

\* The arcs of the sorted entries, each tried with every primitive.
EntryOf(c) == entries[((c - 1) \div Primitives) + 1]

\* The first samples of the spline's pieces, and the last of the last piece.
Knots == {i \in 0..Len(samples) - 1 :
            i % Spacing(level) = 0 \/ i = Len(samples) - 1}

Finer_mutant ==
  IF level < Levels - 1
  THEN /\ level' = level
       /\ UNCHANGED <<pc, candidate, samples, dwell, fit, audit, result>>
  ELSE Disqualify("adapter")

Finer ==
  IF level < Levels - 1
  THEN /\ level' = level + 1
       /\ UNCHANGED <<pc, candidate, samples, dwell, fit, audit, result>>
  ELSE Disqualify("adapter")

Adapt ==
  /\ pc = "adapt"
  /\ \/ Quality = "loose" /\ Finer
     \/ Quality # "loose" /\ policy = "stale" /\ Abort
     \/ Quality = "fails" /\ policy = "current" /\ Finer
     \/ /\ Quality = "holds" /\ policy = "current"
        /\ result' = [ok |-> TRUE, reason |-> "none",
                      arc |-> EntryOf(candidate), knots |-> Knots]
        /\ pc' = "done"
        /\ UNCHANGED <<candidate, flightVars, audit>>
  /\ UNCHANGED callVars

Generate ==
  \/ \E s \in Situations : StateFails(s) \/ Capture(s) \/ Timeout(s) \/ Fly(s)
  \/ JudgeHandoff
  \/ Adapt

Stopped == pc = "done" /\ UNCHANGED vars

Next == Commit \/ Screen \/ GoStale \/ Generate \/ Stopped

\* One call that runs to its end.
Spec == Init /\ [][Next]_vars /\ WF_vars(Commit \/ Screen \/ Generate)

-----------------------------------------------------------------------------
(* Properties *)

\* How the coordinator names the answer to its caller.
PlanReason ==
  IF result.ok THEN "NONE"
  ELSE IF reached THEN "TRANSITION_ADAPTER_UNSOUND"
  ELSE "TRANSITION_GENERATION_FAILED"

Disqualified ==
  audit["finiteness"] + audit["preguard"] + audit["terrain"] + audit["zone"]
    + audit["timeout"] + audit["saturated"] + audit["representable"]
    + audit["limits"] + audit["end_pva"] + audit["adapter"]

\* The audit is the feasibility report the primitive family is tuned by: every
\* candidate enumerated is counted by exactly one gate, except the winner and
\* the one a stale policy stopped; "adapter" is answered only when an adapter
\* refused; and no entry further along the route wins while a nearer one has a
\* primitive that was not tried.
AuditExplainsTheAnswer ==
  /\ candidate = Disqualified +
       (IF pc \in {"fly", "captured", "adapt"} \/ result.ok
            \/ (result.reason = "stale") THEN 1 ELSE 0)
  /\ result.reason = "adapter" => audit["adapter"] > 0
  /\ result.reason = "propagation" =>
       ~reached /\ candidate = Primitives * Len(req.arcs)
  /\ result.ok =>
       Disqualified >= Primitives *
         Cardinality({i \in DOMAIN req.arcs : req.arcs[i] < result.arc})

\* What a capture rests on, through the knot ladder and to the answer: every
\* sample passed every gate, those of the last one's command excepted; the
\* flight has been in the handoff window for the whole dwell without a break;
\* and the spline that is flown runs from the start to the captured sample
\* with no gap wider than the configured knots.
HandoffEarned ==
  pc \in {"captured", "adapt"} \/ result.ok =>
    LET n == Len(samples)
        Judged(i) == (IF req.floor = "terrain" THEN GateNames
                     ELSE GateNames \ {"terrain"})
                     \ (IF i = n THEN {StepGates[j] : j \in DOMAIN StepGates}
                         ELSE {})
    IN /\ samples[n].capturable
       /\ \A i \in 1..n : samples[i].fails \cap Judged(i) = {}
       /\ \A i \in n - DwellSteps + 1..n : i \in 1..n /\ samples[i].window
       /\ result.ok =>
            /\ {0, n - 1} \subseteq result.knots
            /\ \A i \in 0..n - 1 - KnotStep :
                 \E j \in result.knots : i < j /\ j <= i + KnotStep

\* The enumeration ends: the call answers.
Concludes == <>(pc = "done")
=============================================================================
