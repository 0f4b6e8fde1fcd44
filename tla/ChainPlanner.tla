---------------------------- MODULE ChainPlanner ----------------------------
(***************************************************************************)
(* SegmentChainPlanner::plan: one mission is split into segments that meet *)
(* at junctions, every segment is solved on its own, and the runs are      *)
(* stitched into one flight that is judged as a whole before it is stored. *)
(* What cannot be chained falls back, one rung at a time, to a weaker      *)
(* plan, and the answer says which one.                                    *)
(*                                                                         *)
(* The route is its vertices 0..Vertices; a state at a vertex is the place *)
(* and the speed pinned there, a run is one solve between two such states. *)
(* Numbers the properties do not tell apart (curvature, solver internals,  *)
(* timing, drawing) are choices: whether a solve succeeds, what the flight *)
(* evaluation says.  X_mutant is a plausible wrong X, used to show that    *)
(* the checks can fail.                                                    *)
(***************************************************************************)
EXTENDS PlanningResult, SequencesExt, FiniteSetsExt

CONSTANTS
  Vertices,       \* the route's last vertex, its goal
  MaxSegments,    \* bound on the number of segments (16 in the code)
  MaxCandidates,  \* chain/phase/max_candidates
  MinCruise,      \* chain/phase/min_cruise_arc_u, in vertices
  Cruise,         \* the mission-wide maximum speed
  Declared        \* the override declarations a mission may run under

\* Values of the overridable parameters; 0 is the mission's own value.
\* "max" stands for the hard limit optimization/max_vel, "soft" for a weight.
Override == [max : 0..Cruise, soft : 0..2]
NoOverride == [max |-> 0, soft |-> 0]
Phases == {"departure", "cruise", "arrival"}

ASSUME RouteAssumption ==
  /\ Vertices \in Nat \ {0} /\ Cruise \in Nat \ {0}
  /\ MaxSegments \in Nat \ {0, 1}
  /\ MaxCandidates \in Nat \ {0} /\ MinCruise \in Nat
ASSUME DeclaredAssumption ==
  /\ Declared # {}
  /\ Declared \subseteq [profile : [Phases -> Override],
                         seg : [1..MaxSegments -> Override]]

\* A state at a vertex; speed 0 is the mission's own start speed.
States == [at : 0..Vertices, speed : 0..Cruise]
StartState == [at |-> 0, speed |-> 0]

\* What a mission asks: goals, the regime of its start, the speed stated for
\* its end (0: none; more than Cruise: outside the envelope), phase mode.
Jobs == [multi : BOOLEAN,
         start : {"cruise", "transition", "unsupported"},
         tail : 0..(Cruise + 1),
         phase : BOOLEAN,
         declared : Declared]

Kinds == {"none", "single", "direct", "baseline", "segment", "segments", "chain"}
Verdicts == {"clean", "hot", "unflyable", "unevaluated"}

\* verdict is that of the flight evaluation, judged the parameters it ran
\* under.
NoFlight == [kind |-> "none", runs |-> <<>>, prefix |-> FALSE,
             labels |-> FALSE, verdict |-> "unjudged", judged |-> NoOverride]

VARIABLES
  pc,            \* where the plan stands
  job,           \* the mission being planned
  relaxed,       \* its invalid final boundary was dropped by opt-in
  held,          \* the slot when the plan began (for the refinement)
  small,         \* auto-N: the mission is below the split threshold
  segments,      \* segments_
  junctions,     \* contracts: the states between the segments
  limits,        \* eff: the overrides in force for each segment
  runs,          \* the solved segments
  attempts,      \* what the retry ladder still has to try
  failed,        \* the segment the ladder rescues, 0 for none
  dep_candidates,
  arr_candidates,
  phase_applied,
  phase_note,    \* phases were asked for and not found
  soft_drop_note,
  prefix,        \* a transition leads to the route's first vertex
  params,        \* the node's overridable parameters
  optimizer,     \* what the manager's optimizer last read of them
  slot,          \* the local trajectory slot: "none", "old" or "new"
  flight,        \* what this plan stored there
  result         \* the last answer

entryVars == <<job, relaxed, held>>
phaseVars == <<dep_candidates, arr_candidates, phase_applied, phase_note>>
chainVars == <<segments, junctions, limits, runs>>
ladderVars == <<attempts, failed, soft_drop_note>>
tuningVars == <<params, optimizer>>
answerVars == <<slot, flight, result>>
vars == <<pc, entryVars, small, phaseVars, chainVars, ladderVars, prefix,
          tuningVars, answerVars>>

-----------------------------------------------------------------------------
(* Overrides. *)

\* The stricter of two sets of limits: the minimum of those that are set.
HardMin_mutant(overrides) ==
  LET set == {o.max : o \in overrides} \ {0}
  IN  IF set = {} THEN 0 ELSE Max(set)

HardMin(overrides) ==
  LET set == {o.max : o \in overrides} \ {0}
  IN  IF set = {} THEN 0 ELSE Min(set)

\* seg<i> over the phase profile, key by key.
Overlay(profile, seg) ==
  [k \in {"max", "soft"} |-> IF seg[k] # 0 THEN seg[k] ELSE profile[k]]

ProfileOf(phase) ==
  IF job.phase THEN job.declared.profile[phase] ELSE NoOverride

WorkerPhase(i) ==
  CASE i = 1 -> "departure"
    [] i > 1 /\ i = segments -> "arrival"
    [] i > 1 /\ i # segments -> "cruise"

EffectiveLimits ==
  [i \in 1..segments |->
     Overlay(ProfileOf(WorkerPhase(i)), job.declared.seg[i])]

Ceiling(override) == IF override.max = 0 THEN Cruise ELSE override.max

\* The overrides declared for the mission, before segments have theirs.
DeclaredOverrides ==
  {job.declared.profile[p] : p \in Phases}
    \cup {job.declared.seg[i] : i \in 1..segments}

InForce ==
  IF limits = <<>> THEN DeclaredOverrides
  ELSE {limits[i] : i \in DOMAIN limits}

-----------------------------------------------------------------------------
(* Junctions and runs. *)

StatedTail == IF relaxed THEN 0 ELSE job.tail

\* The mission's end: the stated speed, else the given one.
Goal(speed) == [at |-> Vertices, speed |-> IF StatedTail # 0 THEN StatedTail ELSE speed]

HeadOf(i, js) == IF i = 1 THEN StartState ELSE js[i - 1]
TailOf(i, js, goal) == IF i > Len(js) THEN goal ELSE js[i]

Run(head, tail, covers, override) ==
  [head |-> head, tail |-> tail, covers |-> covers,
   max |-> override.max, soft |-> override.soft]

\* The unsplit mission, solved with the optimizer as it stands.
WholeRun == Run(StartState, Goal(Cruise), {}, optimizer)

Flight(kind, rs, verdict) ==
  [kind |-> kind, runs |-> rs, prefix |-> prefix,
   labels |-> phase_applied /\ kind = "chain", verdict |-> verdict,
   judged |-> IF verdict \in Verdicts THEN params ELSE NoOverride]

Increasing(vs) == \A i \in 1..(Len(vs) - 1) : vs[i] < vs[i + 1]
Decreasing(vs) == \A i \in 1..(Len(vs) - 1) : vs[i] > vs[i + 1]

\* Slices of a route exist only between cuts that advance along it.
Sliceable(js) == Increasing([i \in DOMAIN js |-> js[i].at])

\* Only an override that lowers a neighbour's ceiling slows a junction.
Harmonised(vs, lims) ==
  [i \in DOMAIN vs |->
     [at |-> vs[i],
      speed |-> Min({Cruise, Ceiling(lims[i]), Ceiling(lims[i + 1])})]]

Picks == {vs \in [1..(segments - 1) -> 1..(Vertices - 1)] : Increasing(vs)}

Candidates ==
  UNION {[1..n -> 1..(Vertices - 1)] : n \in 1..MaxCandidates}

-----------------------------------------------------------------------------
(* Answers. *)

Settled(r) ==
  IF relaxed THEN Degrade(r, "FINAL_BOUNDARY_RELAXED") ELSE r

Answer(r) == pc' = "done" /\ result' = Settled(r)

Store(f) == slot' = "new" /\ flight' = f

\* invalidateStoredTrajectory without effect on what the plan stored.
Invalidate_mutant == UNCHANGED slot /\ flight' = NoFlight

\* invalidateStoredTrajectory: whatever stands in the slot is unflyable.
Invalidate == slot' = "none" /\ flight' = NoFlight

KeepSlot == UNCHANGED <<slot, flight>>

Refuse(reason) == Answer(Failed(reason)) /\ KeepSlot

-----------------------------------------------------------------------------
IdleJob == [multi |-> FALSE, start |-> "cruise", tail |-> 0, phase |-> FALSE,
            declared |-> CHOOSE d \in Declared : TRUE]

Init ==
  /\ pc = "idle" /\ job = IdleJob
  /\ relaxed = FALSE /\ held = "none" /\ small = FALSE
  /\ segments = 2 /\ junctions = <<>> /\ limits = <<>> /\ runs = <<>>
  /\ attempts = <<>> /\ failed = 0 /\ soft_drop_note = FALSE
  /\ dep_candidates = <<>> /\ arr_candidates = <<>>
  /\ phase_applied = FALSE /\ phase_note = FALSE /\ prefix = FALSE
  /\ params = NoOverride /\ optimizer = NoOverride
  /\ slot = "none" /\ flight = NoFlight /\ result = Failed("NONE")

(* A call of plan(), with the configured number of segments.                *)
Begin ==
  /\ pc = "idle"
  /\ job' \in Jobs /\ segments' \in 2..MaxSegments
  /\ slot' = IF slot = "new" THEN "old" ELSE slot
  /\ held' = slot'
  /\ pc' = "enter"
  /\ UNCHANGED <<relaxed, flight, result, small, junctions, limits, runs,
                 ladderVars, phaseVars, prefix, tuningVars>>

(* The start regime, then the final boundary, before any mission shape.     *)
Enter ==
  /\ pc = "enter"
  /\ \/ /\ job.start # "cruise"         \* transition/enable may be off
        /\ Refuse("INITIAL_MODE_UNSUPPORTED")
        /\ UNCHANGED relaxed
     \/ /\ job.start # "unsupported" /\ job.tail > Cruise
        /\ Refuse("NONE")
        /\ UNCHANGED relaxed
     \/ /\ job.start # "unsupported"
        /\ relaxed' = (job.tail > Cruise)
        /\ pc' = IF job.start = "transition" THEN "transition"
                 ELSE "dispatch"
        /\ UNCHANGED answerVars
  /\ UNCHANGED <<job, held, small, phaseVars, chainVars, ladderVars, prefix,
                 tuningVars>>

(* planTransitionMission: route, zone policy, screening, generation, cut.   *)
(* A search of several goals leaves no policy to judge by.                  *)
Transition ==
  /\ pc = "transition"
  /\ \/ /\ ~job.multi
        /\ prefix' = TRUE /\ pc' = "size"
        /\ UNCHANGED answerVars
     \/ /\ \E reason \in {"TRANSITION_GENERATION_FAILED",
                          "TRANSITION_ADAPTER_UNSOUND"} : Refuse(reason)
        /\ UNCHANGED prefix
  /\ UNCHANGED <<entryVars, small, phaseVars, chainVars, ladderVars,
                 tuningVars>>

(* planImpl: several goals are planned unsplit.                             *)
MultiWaypoint ==
  /\ pc = "dispatch" /\ job.multi
  /\ \/ Refuse("NONE")
     \/ /\ Store(Flight("single", <<WholeRun>>, "unjudged"))
        /\ Answer(Degrade(Success, "SINGLE_PLAN_FALLBACK"))
  /\ UNCHANGED <<entryVars, small, phaseVars, chainVars, ladderVars, prefix,
                 tuningVars>>

-----------------------------------------------------------------------------
(* Route mode (chain/author_from_route).                                    *)

(* commitRoute and the input contract of planOverRoute.                     *)
CommitRoute ==
  /\ pc = "dispatch" /\ ~job.multi
  /\ \/ pc' = "size" /\ UNCHANGED answerVars
     \/ Refuse("NONE")
  /\ UNCHANGED <<entryVars, small, phaseVars, chainVars, ladderVars, prefix,
                 tuningVars>>

(* resolveAutoSegments: the configured number, one sized from the route, or *)
(* a mission too small to split.                                            *)
Size ==
  /\ pc = "size"
  /\ \/ /\ segments' \in 2..MaxSegments
        /\ pc' = "author" /\ UNCHANGED small
     \/ /\ small' = TRUE
        /\ pc' = "direct" /\ UNCHANGED segments
  /\ UNCHANGED <<entryVars, phaseVars, junctions, limits, runs, ladderVars,
                 prefix, tuningVars, answerVars>>

\* The junctions are the first screened hand-offs, far enough apart.
Handoffs(vs, dep, arr) ==
  /\ Increasing(dep) /\ vs[1] = dep[1]
  /\ IF segments = 2
     THEN Len(dep) = 1 /\ arr = <<>>
     ELSE /\ arr \in Candidates /\ Decreasing(arr)
          /\ vs[segments - 1] = arr[1]
          /\ arr[1] > dep[1] /\ arr[1] - dep[1] >= MinCruise

(* authorContractsFromRoute and the effective overrides of every segment.   *)
Author ==
  /\ pc = "author"
  /\ \E vs \in Picks :
       /\ \/ /\ phase_applied' = FALSE /\ phase_note' = job.phase
             /\ UNCHANGED <<dep_candidates, arr_candidates>>
          \/ /\ job.phase
             /\ dep_candidates' \in Candidates
             /\ arr_candidates' \in Candidates \cup {<<>>}
             /\ Handoffs(vs, dep_candidates', arr_candidates')
             /\ phase_applied' = TRUE /\ phase_note' = FALSE
       /\ limits' = EffectiveLimits
       /\ junctions' = Harmonised(vs, EffectiveLimits)
  /\ pc' = "solve"
  /\ UNCHANGED <<entryVars, small, segments, runs, ladderVars, prefix,
                 tuningVars, answerVars>>

(* No junctions can be authored or sliced on this route.                    *)
AuthorFails ==
  /\ pc = "author"
  /\ pc' = "direct"
  /\ UNCHANGED <<entryVars, small, phaseVars, chainVars, ladderVars, prefix,
                 tuningVars, answerVars>>

\* An unprescribed end is flown at the last segment's ceiling.
WorkerRuns ==
  [i \in 1..segments |->
     Run(HeadOf(i, junctions),
         TailOf(i, junctions, Goal(Ceiling(limits[segments]))),
         {i}, limits[i])]

Edge(f) == f = 1 \/ f = segments

\* The hand-offs an edge segment may be retried at: a departure again at
\* its own, then at the farther ones; an arrival at the earlier ones only.
EdgeAttempts(f) ==
  IF f = 1 THEN dep_candidates
  ELSE SubSeq(arr_candidates, 2, Len(arr_candidates))

Span(i) == TailOf(i, junctions, Goal(0)).at - HeadOf(i, junctions).at

\* The neighbours a failed segment may merge with, the hand-offs excepted.
MergeSides_mutant(f) == {f - 1, f + 1} \cap 1..segments

MergeSides(f) ==
  {n \in {f - 1, f + 1} \cap 1..segments :
     phase_applied => Min({f, n}) \notin {1, segments - 1}}

\* Smaller merged span first.
MergeAttempts(f) ==
  {s \in SetToSeqs(MergeSides(f)) :
     \A k \in 1..(Len(s) - 1) : Span(s[k]) <= Span(s[k + 1])}

(* The workers: one failed segment enters the ladder, several are hopeless. *)
(* At N=2 the arrival has no hand-off of its own to move.                   *)
Solve(bad) ==
  /\ pc = "solve"
  /\ runs' = WorkerRuns
  /\ \/ /\ bad = {} /\ pc' = "stitch"
        /\ UNCHANGED <<phaseVars, ladderVars>>
     \/ /\ bad # {}                        \* or chain/merge_retry is off
        /\ pc' = "direct"
        /\ UNCHANGED <<phaseVars, ladderVars>>
     \/ \E f \in bad :
          /\ bad = {f}
          /\ failed' = f
          /\ IF phase_applied /\ Edge(f)
             THEN attempts' = IF segments = 2 /\ f = 2 THEN <<>>
                              ELSE EdgeAttempts(f)
             ELSE attempts' \in MergeAttempts(f)
          /\ pc' = "retry"
          /\ UNCHANGED <<phaseVars, soft_drop_note>>
  /\ UNCHANGED <<entryVars, small, segments, junctions, limits, prefix,
                 tuningVars, answerVars>>

-----------------------------------------------------------------------------
(* The retry ladder.                                                        *)

\* contractFromVertex pins the mission-wide speed at the new hand-off.
Moved(f, v) ==
  [junctions EXCEPT ![IF f = 1 THEN 1 ELSE segments - 1] =
                      [at |-> v, speed |-> Cruise]]

\* The edge segment and its neighbour are solved again.
RescuedRuns_mutant(f, v) ==
  [runs EXCEPT ![f] = Run(HeadOf(f, Moved(f, v)),
                          TailOf(f, Moved(f, v), Goal(Cruise)),
                          {f}, limits[f])]

RescuedRuns(f, v) ==
  [i \in DOMAIN runs |->
     IF i \in IF f = 1 THEN {1, 2} ELSE {segments - 1, segments}
     THEN Run(HeadOf(i, Moved(f, v)), TailOf(i, Moved(f, v), Goal(Cruise)),
              {i}, limits[i])
     ELSE runs[i]]

MovesHandoff == phase_applied /\ Edge(failed)

(* The boundary of a failed edge segment moves to the next candidate.       *)
RescueEdge ==
  /\ pc = "retry" /\ MovesHandoff /\ attempts # <<>>
  /\ Sliceable(Moved(failed, Head(attempts)))
  /\ junctions' = Moved(failed, Head(attempts))
  /\ runs' = RescuedRuns(failed, Head(attempts))
  /\ pc' = "stitch"
  /\ UNCHANGED <<entryVars, small, phaseVars, segments, limits, ladderVars,
                 prefix, tuningVars, answerVars>>

\* The merged span: its own profile, both sides' hard limits, no seg<i>
\* weights.
MergedPhase(lo, hi) ==
  CASE hi = segments -> "arrival"
    [] hi # segments /\ lo = 1 -> "departure"
    [] hi # segments /\ lo # 1 -> "cruise"

MergedOverride(lo, hi) ==
  LET profile == ProfileOf(MergedPhase(lo, hi))
  IN  [max |-> HardMin({profile, limits[lo], limits[hi]}),
       soft |-> profile.soft]

DropsSoft(lo, hi) ==
  \E i \in {lo, hi} :
    limits[i].soft \notin {0, ProfileOf(MergedPhase(lo, hi)).soft}

MergedRun(lo, hi) ==
  Run(HeadOf(lo, junctions), TailOf(hi, junctions, Goal(Cruise)), {lo, hi},
      MergedOverride(lo, hi))

(* One junction of the failed segment is dropped, the merged span solved.   *)
(* What the attempt drops is noted whether or not it succeeds.              *)
Merge ==
  /\ pc = "retry" /\ ~MovesHandoff /\ attempts # <<>>
  /\ LET lo == Min({failed, Head(attempts)})
         hi == Max({failed, Head(attempts)})
     IN  /\ soft_drop_note' = (soft_drop_note \/ DropsSoft(lo, hi))
         /\ \/ /\ runs' = RemoveAt([runs EXCEPT ![lo] = MergedRun(lo, hi)],
                                   hi)
               /\ junctions' = RemoveAt(junctions, lo)
               /\ segments' = segments - 1
               /\ pc' = "stitch"
               /\ UNCHANGED attempts
            \/ /\ attempts' = Tail(attempts)
               /\ UNCHANGED <<pc, runs, junctions, segments>>
  /\ UNCHANGED <<entryVars, small, phaseVars, limits, failed, prefix,
                 tuningVars, answerVars>>

(* A candidate that cannot be sliced, connected or solved.                  *)
RescueFails ==
  /\ pc = "retry" /\ MovesHandoff /\ attempts # <<>>
  /\ attempts' = Tail(attempts)
  /\ UNCHANGED <<pc, entryVars, small, phaseVars, chainVars, failed,
                 soft_drop_note, prefix, tuningVars, answerVars>>

(* Nothing left to try: a direct plan, without phase labels.                *)
Exhausted ==
  /\ pc = "retry" /\ attempts = <<>>
  /\ pc' = "direct"
  /\ phase_applied' = (phase_applied /\ ~MovesHandoff)
  /\ UNCHANGED <<entryVars, small, dep_candidates, arr_candidates,
                 phase_note, chainVars, ladderVars, prefix, tuningVars,
                 answerVars>>

-----------------------------------------------------------------------------
(* The direct fallback.  With a transition it is forbidden: it would plan   *)
(* the transition's regime again from the mission start.                    *)
DirectAllowed == ~prefix

ForbidDirect ==
  /\ pc = "direct" /\ ~DirectAllowed
  /\ Refuse("NONE")
  /\ UNCHANGED <<entryVars, small, phaseVars, chainVars, ladderVars, prefix,
                 tuningVars>>

(* The hard limits in force are applied to the whole mission.               *)
ApplyHardLimits ==
  /\ pc = "direct" /\ DirectAllowed
  /\ params' = [NoOverride EXCEPT !.max = HardMin(InForce)]
  /\ optimizer' = params'
  /\ pc' = "fallback"
  /\ UNCHANGED <<entryVars, small, phaseVars, chainVars, ladderVars, prefix,
                 answerVars>>

\* The mission's values are back, in the node and in the optimizer.
RestoreParams_mutant == params' = NoOverride /\ UNCHANGED optimizer

RestoreParams == params' = NoOverride /\ optimizer' = NoOverride

(* The unsplit plan under the hard limits; they are taken off on every exit.*)
PlanDirect ==
  /\ pc = "fallback"
  /\ RestoreParams
  /\ \/ runs' = <<>> /\ Refuse("NONE")
     \/ /\ runs' = <<WholeRun>>
        /\ slot' = "new" /\ pc' = "judge"
        /\ UNCHANGED <<flight, result>>
  /\ UNCHANGED <<entryVars, small, phaseVars, segments, junctions, limits,
                 ladderVars, prefix>>

DirectResult ==
  IF (small /\ ~job.phase) /\ HardMin(InForce) = 0 THEN Success
  ELSE Degrade(Success, "SINGLE_PLAN_FALLBACK")

\* No verdict is no clean verdict.
FitDirect_mutant(v) == v # "unflyable"

FitDirect(v) == v = "clean"

(* In phase mode the direct flight is judged; otherwise it is not.          *)
JudgeDirect ==
  /\ pc = "judge"
  /\ \/ /\ ~job.phase
        /\ Store(Flight("direct", runs, "unjudged"))
        /\ Answer(DirectResult)
     \/ /\ job.phase
        /\ \E v \in Verdicts :
             IF FitDirect(v)
             THEN Store(Flight("direct", runs, v)) /\ Answer(DirectResult)
             ELSE Invalidate /\ Answer(Failed("DIRECT_FALLBACK_UNSAFE"))
  /\ UNCHANGED <<entryVars, small, phaseVars, chainVars, ladderVars, prefix,
                 tuningVars>>

-----------------------------------------------------------------------------
(* Stitching.                                                               *)

\* Judged before it is stored: what could not be judged, overlaps terrain or
\* never reaches cruise is refused.
FitStitched_mutant(v) == v # "unflyable"

FitStitched(v) == v \in {"clean", "hot"}

\* stitchedVerdictResult, for a flight that may be flown.
Budgeted(r, v) ==
  IF v = "hot" THEN Degrade(r, "STITCHED_ENVELOPE_BUDGET") ELSE r

StitchedResult_mutant ==
  IF phase_note THEN Degrade(Success, "PHASE_BOUNDARY_FALLBACK") ELSE Success

StitchedResult ==
  IF phase_note \/ soft_drop_note
  THEN Degrade(Success, "PHASE_BOUNDARY_FALLBACK") ELSE Success

Stitch ==
  /\ pc = "stitch"
  /\ \/ /\ prefix
        /\ Invalidate /\ Answer(Failed("TRANSITION_JUNCTION_UNSOUND"))
     \/ \E v \in Verdicts :
          IF FitStitched(v)
          THEN /\ Store(Flight("chain", runs, v))
               /\ Answer(Budgeted(StitchedResult, v))
          ELSE Invalidate /\ Answer(Failed("STITCHED_FLIGHT_UNSAFE"))
  /\ UNCHANGED <<entryVars, small, phaseVars, chainVars, ladderVars, prefix,
                 tuningVars>>

-----------------------------------------------------------------------------
(* Baseline mode (no chain/author_from_route): the unsplit mission first,   *)
(* then the segments one after the other, each a full plan of its own into  *)
(* the slot.                                                                *)

BaselineFlight ==
  Flight("baseline", <<Run(StartState, Goal(Cruise), {}, NoOverride)>>,
         "unjudged")

\* Only seg<i> overrides exist here; the junctions lie on the baseline.
Baseline ==
  /\ pc = "dispatch" /\ ~job.multi
  /\ \/ Refuse("NONE") /\ UNCHANGED chainVars
     \/ /\ Store(BaselineFlight)         \* too small to split
        /\ Answer(Success)
        /\ UNCHANGED chainVars
     \/ /\ segments' \in 2..MaxSegments
        /\ Store(BaselineFlight)
        /\ limits' = [i \in 1..segments' |-> job.declared.seg[i]]
        /\ \E vs \in [1..(segments' - 1) -> 1..(Vertices - 1)] :
             Increasing(vs) /\ junctions' = Harmonised(vs, limits')
        /\ runs' = <<>>
        /\ pc' = "segments"
        /\ UNCHANGED result
  /\ UNCHANGED <<entryVars, small, phaseVars, ladderVars, prefix, tuningVars>>

\* A last segment slower than the baseline's end flies its end at its own
\* ceiling, whatever was stated.
LastGoal ==
  LET stated == Goal(Cruise).speed
      ceiling == Ceiling(limits[segments])
  IN  [at |-> Vertices, speed |-> Min({stated, ceiling})]

SegmentRun(i) ==
  Run(HeadOf(i, junctions), TailOf(i, junctions, LastGoal), {i}, limits[i])

(* Every segment runs under the mission's values and its own overrides.     *)
SolveSegment ==
  /\ pc = "segments" /\ Len(runs) < segments
  /\ LET i == Len(runs) + 1
     IN  \/ /\ params' = limits[i] /\ optimizer' = limits[i]
            /\ runs' = Append(runs, SegmentRun(i))
            /\ Store(Flight("segment", <<SegmentRun(i)>>, "unjudged"))
            /\ UNCHANGED <<pc, result>>
         \/ /\ RestoreParams
            /\ Store(BaselineFlight)
            /\ Answer(Degrade(Success, "SINGLE_PLAN_FALLBACK"))
            /\ UNCHANGED runs
  /\ UNCHANGED <<entryVars, small, phaseVars, segments, junctions, limits,
                 ladderVars, prefix>>

(* The parameters are restored before the judgement.                        *)
RestoreBeforeStitch ==
  /\ pc = "segments" /\ Len(runs) = segments
  /\ RestoreParams
  /\ pc' = "stitch_segments"
  /\ UNCHANGED <<entryVars, small, phaseVars, chainVars, ladderVars, prefix,
                 answerVars>>

(* A baseline is at hand, so an unfit stitch degrades onto it.              *)
StitchSegments ==
  /\ pc = "stitch_segments"
  /\ \E v \in Verdicts :
       IF FitStitched(v)
       THEN /\ Store(Flight("segments", runs, v))
            /\ Answer(Budgeted(Success, v))
       ELSE /\ Store(BaselineFlight)
            /\ Answer(Degrade(Success, "SINGLE_PLAN_FALLBACK"))
  /\ UNCHANGED <<entryVars, small, phaseVars, chainVars, ladderVars, prefix,
                 tuningVars>>

-----------------------------------------------------------------------------
(* The answer is returned; resetPlanState drops the plan's members at the   *)
(* next entry, before anything reads them.                                  *)
Return ==
  /\ pc = "done"
  /\ pc' = "idle"
  /\ job' = IdleJob
  /\ relaxed' = FALSE /\ held' = "none" /\ small' = FALSE
  /\ segments' = 2 /\ junctions' = <<>> /\ limits' = <<>> /\ runs' = <<>>
  /\ attempts' = <<>> /\ failed' = 0 /\ soft_drop_note' = FALSE
  /\ dep_candidates' = <<>> /\ arr_candidates' = <<>>
  /\ phase_applied' = FALSE /\ phase_note' = FALSE /\ prefix' = FALSE
  /\ flight' = NoFlight
  /\ UNCHANGED <<tuningVars, slot, result>>

Next ==
  \/ Begin \/ Enter \/ Transition \/ MultiWaypoint
  \/ CommitRoute \/ Size \/ Author \/ AuthorFails
  \/ \E bad \in SUBSET (1..segments) : Solve(bad)
  \/ RescueEdge \/ Merge \/ RescueFails \/ Exhausted
  \/ ForbidDirect \/ ApplyHardLimits \/ PlanDirect \/ JudgeDirect
  \/ Stitch
  \/ Baseline \/ SolveSegment \/ RestoreBeforeStitch \/ StitchSegments
  \/ Return

Spec == Init /\ [][Next]_vars

-----------------------------------------------------------------------------
(* Properties. *)

Runs == [head : States, tail : States, covers : SUBSET (1..MaxSegments),
         max : 0..Cruise, soft : 0..2]

\* Every variable stays in its range, answers are consistent, and a chain has
\* one junction fewer than segments (SegmentChainPlanner's members).
TypeOK ==
  /\ pc \in {"idle", "enter", "transition", "dispatch", "size", "author",
             "solve", "retry", "direct", "fallback", "judge", "stitch",
             "segments", "stitch_segments", "done"}
  /\ job \in Jobs /\ relaxed \in BOOLEAN /\ small \in BOOLEAN
  /\ held \in {"none", "old"} /\ slot \in {"none", "old", "new"}
  /\ segments \in 1..MaxSegments
  /\ junctions \in Seq(States) /\ limits \in Seq(Override)
  /\ runs \in Seq(Runs) /\ attempts \in Seq(1..(Vertices + MaxSegments))
  /\ failed \in 0..MaxSegments /\ soft_drop_note \in BOOLEAN
  /\ dep_candidates \in Seq(1..Vertices)
  /\ arr_candidates \in Seq(1..Vertices)
  /\ phase_applied \in BOOLEAN /\ phase_note \in BOOLEAN
  /\ prefix \in BOOLEAN
  /\ params \in Override /\ optimizer \in Override
  /\ flight \in [kind : Kinds, runs : Seq(Runs), prefix : BOOLEAN,
                 labels : BOOLEAN, verdict : Verdicts \cup {"unjudged"},
                 judged : Override]
  /\ result \in ConsistentResults
  /\ pc \in {"stitch", "stitch_segments"} =>
       Len(runs) = segments /\ Len(junctions) = segments - 1

Delivered == pc = "done" /\ HasTrajectory(result)
Stitched == Delivered /\ flight.kind \in {"chain", "segments"}
LastRun == flight.runs[Len(flight.runs)]

\* The planner keeps the contract the mission state machine relies on: a
\* delivered plan is in the slot, a refused one never is, whatever was stored
\* on the way (SegmentChainPlanner::plan, invalidateStoredTrajectory).
Plan ==
  INSTANCE MissionPlan WITH
    busy <- pc \notin {"idle", "done"},
    outcome <- result.outcome,
    slot <- IF pc \in {"idle", "done"} THEN slot ELSE held
Contract == Plan!Spec

\* No rung of the ladder flies a segment above a hard limit stated for it:
\* every stitched run honours the limit of each segment it covers, and the
\* direct plan the limits of all of them.
HardLimitsKept ==
  /\ Stitched =>
       \A r \in ToSet(flight.runs) : \A i \in r.covers :
         limits[i].max # 0 => r.max \in 1..limits[i].max
  /\ Delivered /\ flight.kind = "direct" =>
       \A o \in InForce : o.max # 0 => flight.runs[1].max \in 1..o.max

\* Overrides never outlive the segment they were applied for: after every
\* exit the node and the optimizer are back at the mission's values, and a
\* flight is judged under those, not under its last segment's.
ParametersRestored ==
  /\ pc \in {"idle", "done"} =>
       params = NoOverride /\ optimizer = NoOverride
  /\ flight.verdict \in Verdicts => flight.judged = NoOverride

\* A flight labelled with phases has them: its first and last runs are the
\* departure and the arrival segment alone, cut at screened hand-offs.
PhaseLabelsHonest ==
  Delivered /\ flight.labels =>
    /\ job.phase
    /\ flight.runs[1].covers = {1}
    /\ LastRun.covers = {Len(limits)}
    /\ flight.runs[1].tail.at \in ToSet(dep_candidates)
    /\ LastRun.head.at \in
         ToSet(IF Len(limits) = 2 THEN dep_candidates ELSE arr_candidates)

\* Neighbouring runs of a stitched flight pin the same state at an advancing
\* place, from the mission's start to its goal, and cover every segment once.
SeamsExact ==
  Stitched =>
    /\ flight.runs[1].head = StartState
    /\ LastRun.tail.at = Vertices
    /\ \A i \in 1..(Len(flight.runs) - 1) :
         /\ flight.runs[i].tail = flight.runs[i + 1].head
         /\ flight.runs[i].head.at < flight.runs[i].tail.at
         /\ \A a \in flight.runs[i].covers,
              b \in flight.runs[i + 1].covers : a < b
    /\ UNION {r.covers : r \in ToSet(flight.runs)} = DOMAIN limits

\* A start outside the cruise model is flown through its transition or not
\* at all: no fallback plans it with the cruise model.
TransitionNeverReplanned ==
  Delivered /\ job.start # "cruise" =>
    job.start = "transition" /\ flight.kind = "chain" /\ flight.prefix

\* In route mode SUCCESS is not a plan with something stated left out: one
\* goal, the stated end, no dropped weight, labels when phases were asked for,
\* a clean verdict; the one exception is a mission too small to split.
SuccessMeansAsked ==
  Delivered /\ result = Success /\ flight.kind \in {"single", "direct", "chain"} =>
    /\ ~job.multi /\ ~relaxed
    /\ flight.kind = "chain" =>
         /\ flight.verdict = "clean"
         /\ job.phase => flight.labels
         /\ job.tail # 0 => LastRun.tail.speed = job.tail
         /\ \A r \in ToSet(flight.runs) : \A i \in r.covers :
              limits[i].soft \in {0, r.soft}
    /\ flight.kind # "chain" => small /\ ~job.phase

\* What is handed to the state machine passed the flight evaluation where
\* there is one: no refused or unjudged stitch, a clean direct plan in phase
\* mode, and a hot flight never as SUCCESS.
FitForFlight ==
  Delivered =>
    /\ flight.kind \in {"chain", "segments"} =>
         flight.verdict \in {"clean", "hot"}
    /\ flight.kind = "direct" /\ job.phase => flight.verdict = "clean"
    /\ flight.verdict = "hot" => result # Success
=============================================================================
