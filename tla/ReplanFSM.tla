------------------------------ MODULE ReplanFSM ------------------------------
(***************************************************************************)
(* The mission state machine of path_manager (replan_fsm.cpp): the 10 ms   *)
(* tick computeAndPublishPaths and the mission command callback.  Both run *)
(* on one MutuallyExclusive callback group, so each is one atomic action;  *)
(* their order is arbitrary.                                               *)
(*                                                                         *)
(* A trajectory is named by the sequence number of the command it was      *)
(* planned for.  Positions are abstracted to their provenance: which       *)
(* mission's commanded start (or which trajectory) they come from and how  *)
(* often the terrain elevation was added to their z.                       *)
(*                                                                         *)
(* A definition X_mutant is X with a plausible bug.  It is used nowhere;   *)
(* put in X's place it makes a property of the runs fail.                  *)
(***************************************************************************)
EXTENDS Integers

CONSTANTS
  Missions,          \* non-empty mission ids
  NoMission,         \* the empty mission id ""
  MaxSeq,            \* bound: largest sequence number a command carries
  Drones,            \* drone ids found on the command topic
  DroneId,           \* drone_id_ of this node
  ChainEnable,       \* parameter chain/enable
  MaxStartFailures   \* failures of SEQUENTIAL_START that are tolerated (10)

ASSUME ConstantsOK ==
  /\ NoMission \notin Missions
  /\ MaxSeq \in Nat
  /\ MaxStartFailures \in Nat
  /\ DroneId \in Drones
  /\ ChainEnable \in BOOLEAN

Seqs == 0..MaxSeq
NoTraj == -1           \* no trajectory stored / published yet
Hover == -2            \* the two-piece stop trajectory of EmergencyStop
Refused == -3          \* the polynomial of a plan refused after it was stored

States == {"INIT", "WAIT_POSITION", "SEQUENTIAL_START", "EXEC_TRAJ",
           "EMERGENCY_STOP"}

\* What startMissionPlan can tell of a target: z < -0.1 is dropped.
Targets == {"valid", "below"}

Commands == [seq : Seqs, mission : Missions \cup {NoMission},
             drone : Drones, target : Targets]

\* Provenance of a position.  via: "none" (the constructor's zero),
\* "command" (start_position of a command whose plan was accepted, or is being
\* planned), "rejected" (start_position of a command that produced no plan),
\* "trajectory" (a point of the stored trajectory), "extrapolated" (the stored
\* polynomial evaluated after its start_time was zeroed).
Positions == [mission : Missions \cup {NoMission},
              via : {"none", "command", "rejected", "trajectory",
                     "extrapolated"},
              lift : Nat]

VARIABLES
  exec_state, have_target, have_local_traj,
  start_position_received, start_seed_agl_pending,
  flag_escape_emergency, sequential_start_failures,
  last_received_sequence, current_mission_id,
  current_pos,          \* provenance of current_pos_
  optimizer_ready,      \* PathManager::isOptimizerInitialized
  terrain,              \* PathManager::hasTerrainData
  local_traj,           \* traj_.local_traj: [id, ready], see Ready
  hover_pos,            \* provenance of the position the last hover holds
  elapsed,              \* trajectories whose duration has run out on the clock
  published,            \* history: the trajectory last published
  flown,                \* history: every trajectory ever published
  plans                 \* history: [seq, mission, start] of accepted commands

fsmVars == <<exec_state, have_target, have_local_traj, flag_escape_emergency,
             sequential_start_failures>>
cmdVars == <<start_position_received, start_seed_agl_pending,
             last_received_sequence, current_mission_id, current_pos,
             optimizer_ready, plans>>
outVars == <<published, flown>>
trajVars == <<local_traj, hover_pos>>
vars == <<fsmVars, cmdVars, outVars, trajVars, terrain, elapsed>>

NoPosition == [mission |-> NoMission, via |-> "none", lift |-> 0]

Init ==
  /\ exec_state = "INIT"
  /\ have_target = FALSE
  /\ have_local_traj = FALSE
  /\ start_position_received = FALSE
  /\ start_seed_agl_pending = FALSE
  /\ flag_escape_emergency = FALSE
  /\ sequential_start_failures = 0
  /\ last_received_sequence = -1
  /\ current_mission_id = NoMission
  /\ current_pos = NoPosition
  /\ optimizer_ready = FALSE
  /\ terrain = FALSE
  /\ local_traj = [id |-> NoTraj, ready |-> FALSE]
  /\ hover_pos = NoPosition
  /\ elapsed = {}
  /\ published = NoTraj
  /\ flown = {}
  /\ plans = {}

-----------------------------------------------------------------------------
(***************************************************************************)
(* The tick.                                                               *)
(***************************************************************************)

\* polyTraj2ROSMsg + optimized_path_pub_->publish of traj_.local_traj.
Publish(id) ==
  /\ published' = id
  /\ flown' = flown \cup {id}

TickInit ==
  /\ exec_state = "INIT"
  /\ exec_state' = "WAIT_POSITION"
  /\ UNCHANGED <<have_target, have_local_traj, flag_escape_emergency,
                 sequential_start_failures, cmdVars, outVars, trajVars,
                 terrain, elapsed>>

TickWait ==
  /\ exec_state = "WAIT_POSITION"
  /\ have_target
  /\ exec_state' = "SEQUENTIAL_START"
  /\ UNCHANGED <<have_target, have_local_traj, flag_escape_emergency,
                 sequential_start_failures, cmdVars, outVars, trajVars,
                 terrain, elapsed>>

\* have_recv_pre_agent_ is initialised to false and never assigned again.
HaveRecvPreAgent == FALSE

MayStart_mutant == DroneId > 0 /\ HaveRecvPreAgent
MayStart == DroneId <= 0 \/ HaveRecvPreAgent

\* planFromGlobalTraj: duration > 0 and start_time > 0.
Ready == local_traj.ready

\* More than ten failures in a row: the count including this one exceeds 10.
GivesUp == sequential_start_failures >= MaxStartFailures

\* The transition sets the flag that makes the next tick command the hover.
EnterEmergency_mutant ==
  /\ exec_state' = "EMERGENCY_STOP"
  /\ UNCHANGED flag_escape_emergency
EnterEmergency ==
  /\ exec_state' = "EMERGENCY_STOP"
  /\ flag_escape_emergency' = TRUE

TickStart ==
  /\ exec_state = "SEQUENTIAL_START"
  /\ MayStart
  /\ \/ /\ Ready
        /\ Publish(local_traj.id)
        /\ have_local_traj' = TRUE
        /\ sequential_start_failures' = 0
        /\ exec_state' = "EXEC_TRAJ"
        /\ UNCHANGED flag_escape_emergency
     \/ /\ ~Ready
        /\ GivesUp
        /\ EnterEmergency
        /\ sequential_start_failures' = 0
        /\ UNCHANGED <<have_local_traj, outVars>>
     \/ /\ ~Ready
        /\ ~GivesUp
        /\ sequential_start_failures' = sequential_start_failures + 1
        /\ exec_state' = "WAIT_POSITION"
        /\ UNCHANGED <<have_local_traj, flag_escape_emergency, outVars>>
  /\ UNCHANGED <<have_target, cmdVars, trajVars, terrain, elapsed>>

\* t_cur > duration - 0.2, with t_cur = min(duration, now - start_time): true
\* once the duration has elapsed, and at once for a zeroed duration.
Completed == ~local_traj.ready \/ local_traj.id \in elapsed

\* Back to waiting for a mission, with nothing to continue from.
GoIdle_mutant ==
  /\ exec_state' = "WAIT_POSITION"
  /\ have_local_traj' = FALSE
  /\ UNCHANGED have_target
GoIdle ==
  /\ exec_state' = "WAIT_POSITION"
  /\ have_local_traj' = FALSE
  /\ have_target' = FALSE

TickExec ==
  /\ exec_state = "EXEC_TRAJ"
  /\ Completed
  /\ GoIdle
  /\ UNCHANGED <<flag_escape_emergency, sequential_start_failures, cmdVars,
                 outVars, trajVars, terrain, elapsed>>

\* First tick: EmergencyStop replaces local_traj by the hover and publishes it.
TickHover ==
  /\ exec_state = "EMERGENCY_STOP"
  /\ flag_escape_emergency
  /\ local_traj' = [id |-> Hover, ready |-> TRUE]
  /\ hover_pos' = current_pos
  /\ Publish(Hover)
  /\ flag_escape_emergency' = FALSE
  /\ UNCHANGED <<exec_state, have_target, have_local_traj,
                 sequential_start_failures, cmdVars, terrain, elapsed>>

\* Second tick: park and await the next mission.
TickPark ==
  /\ exec_state = "EMERGENCY_STOP"
  /\ ~flag_escape_emergency
  /\ GoIdle
  /\ UNCHANGED <<flag_escape_emergency, sequential_start_failures, cmdVars,
                 outVars, trajVars, terrain, elapsed>>

Tick == TickInit \/ TickWait \/ TickStart \/ TickExec \/ TickHover \/ TickPark

-----------------------------------------------------------------------------
(***************************************************************************)
(* The mission command callback.                                           *)
(***************************************************************************)

\* Computed before current_mission_id_ is overwritten.
MissionChanged_mutant(c) == FALSE
MissionChanged(c) ==
  /\ start_position_received
  /\ c.mission # NoMission
  /\ c.mission # current_mission_id

Adopts(c) == ~start_position_received \/ MissionChanged(c)

AdoptedPos(c) ==
  IF Adopts(c) THEN [mission |-> c.mission, via |-> "command", lift |-> 0]
               ELSE current_pos

\* The gate of a command: addressed to this drone and newer than the last.
Fresh_mutant(c) == c.drone = DroneId
Fresh(c) == c.drone = DroneId /\ c.seq > last_received_sequence

MissionOfTraj(id) ==
  IF \E p \in plans : p.seq = id
    THEN (CHOOSE p \in plans : p.seq = id).mission
    ELSE NoMission

\* startMissionPlan: continue from the stored trajectory, else from
\* current_pos_.
StartPoint(c) ==
  IF have_local_traj /\ ~MissionChanged(c)
    THEN IF local_traj.ready /\ local_traj.id = Hover
           THEN hover_pos
           ELSE [mission |-> MissionOfTraj(local_traj.id),
                 via |-> IF local_traj.ready THEN "trajectory"
                                             ELSE "extrapolated",
                 lift |-> 0]
    ELSE AdoptedPos(c)

\* resolveCommandedStartAgl: whether this plan adds the terrain elevation.
LiftsStart(c) == (start_seed_agl_pending \/ Adopts(c)) /\ terrain

ResolvedStart(c) ==
  IF LiftsStart(c) THEN [StartPoint(c) EXCEPT !.lift = @ + 1] ELSE StartPoint(c)

\* resolveCommandedStartAgl writes the lifted z into current_pos_ as well.
ResolvedPos(c) ==
  IF LiftsStart(c) THEN [AdoptedPos(c) EXCEPT !.lift = ResolvedStart(c).lift]
                   ELSE AdoptedPos(c)

\* What the callback has written when startMissionPlan is entered; kept
\* whatever the plan returns.
Adopt(c) ==
  /\ start_position_received' = TRUE
  /\ have_local_traj' = (have_local_traj /\ ~MissionChanged(c))

\* A rejected plan: only the sequence number and the mission id roll back.
RollBack_mutant(c) ==
  /\ last_received_sequence' = c.seq
  /\ current_mission_id' = c.mission
RollBack(c) == UNCHANGED <<last_received_sequence, current_mission_id>>

\* The position that an unsuccessful command leaves in current_pos_.
RejectedPos(c, pos) ==
  IF Adopts(c) THEN [pos EXCEPT !.via = "rejected"] ELSE pos

\* startMissionPlan returns early: target under the floor, or the optimizer
\* threw while initialising.  The AGL flag stays pending.
DropCommand(c) ==
  /\ Fresh(c)
  /\ c.target = "below" \/ ~optimizer_ready
  /\ Adopt(c)
  /\ start_seed_agl_pending' = (start_seed_agl_pending \/ Adopts(c))
  /\ current_pos' = RejectedPos(c, AdoptedPos(c))
  /\ RollBack(c)
  /\ UNCHANGED <<exec_state, have_target, flag_escape_emergency,
                 sequential_start_failures, optimizer_ready, plans, outVars,
                 trajVars, terrain, elapsed>>

\* What a FAILED plan leaves in traj_.local_traj: the single-shot path stores
\* only on success; the chain planner zeroes duration and start_time
\* (invalidateStoredTrajectory) when it refuses a stitched flight it has not
\* stored, or a direct fallback it has.
AfterFailure ==
  {local_traj} \cup
  (IF ChainEnable THEN {[local_traj EXCEPT !.ready = FALSE],
                        [id |-> Refused, ready |-> FALSE]}
                  ELSE {})

RejectCommand(c) ==
  /\ Fresh(c)
  /\ c.target = "valid"
  /\ optimizer_ready' = TRUE
  /\ Adopt(c)
  /\ start_seed_agl_pending' = FALSE
  /\ current_pos' = RejectedPos(c, ResolvedPos(c))
  /\ local_traj' \in AfterFailure
  /\ RollBack(c)
  /\ UNCHANGED <<exec_state, have_target, flag_escape_emergency,
                 sequential_start_failures, plans, outVars, hover_pos,
                 terrain, elapsed>>

\* A plan accepted in WAIT_POSITION or EXEC_TRAJ is started at once.
StateAfterPlan_mutant ==
  IF exec_state = "WAIT_POSITION" THEN "SEQUENTIAL_START" ELSE exec_state
StateAfterPlan ==
  IF exec_state \in {"WAIT_POSITION", "EXEC_TRAJ"}
    THEN "SEQUENTIAL_START" ELSE exec_state

AcceptCommand(c) ==
  /\ Fresh(c)
  /\ c.target = "valid"
  /\ optimizer_ready' = TRUE
  /\ Adopt(c)
  /\ start_seed_agl_pending' = FALSE
  /\ current_pos' = ResolvedPos(c)
  /\ local_traj' = [id |-> c.seq, ready |-> TRUE]
  /\ last_received_sequence' = c.seq
  /\ current_mission_id' = c.mission
  /\ have_target' = TRUE
  /\ exec_state' = StateAfterPlan
  /\ plans' = plans \cup {[seq |-> c.seq, mission |-> c.mission,
                           start |-> ResolvedStart(c)]}
  /\ UNCHANGED <<flag_escape_emergency, sequential_start_failures, outVars,
                 hover_pos, terrain, elapsed>>

-----------------------------------------------------------------------------
(***************************************************************************)
(* Environment: the terrain appears or is cleared between callbacks, and   *)
(* wall-clock time runs past the end of the stored trajectory.             *)
(***************************************************************************)

TerrainChanges ==
  /\ terrain' = ~terrain
  /\ UNCHANGED <<fsmVars, cmdVars, outVars, trajVars, elapsed>>

Elapse ==
  /\ local_traj.id \in Seqs \ elapsed
  /\ elapsed' = elapsed \cup {local_traj.id}
  /\ UNCHANGED <<fsmVars, cmdVars, outVars, trajVars, terrain>>

Next ==
  \/ Tick
  \/ \E c \in Commands : DropCommand(c) \/ RejectCommand(c) \/ AcceptCommand(c)
  \/ TerrainChanges
  \/ Elapse

\* The 10 ms timer keeps firing and the clock keeps running; nothing is
\* assumed of the sender.
Fairness == WF_vars(Tick) /\ WF_vars(Elapse)

SafeSpec == Init /\ [][Next]_vars
Spec == SafeSpec /\ Fairness

-----------------------------------------------------------------------------
(***************************************************************************)
(* Properties.                                                             *)
(***************************************************************************)

\* Type invariant of the state machine's members and the history variables.
TypeOK ==
  /\ exec_state \in States
  /\ have_target \in BOOLEAN
  /\ have_local_traj \in BOOLEAN
  /\ start_position_received \in BOOLEAN
  /\ start_seed_agl_pending \in BOOLEAN
  /\ flag_escape_emergency \in BOOLEAN
  /\ sequential_start_failures \in 0..MaxStartFailures
  /\ last_received_sequence \in Seqs \cup {-1}
  /\ current_mission_id \in Missions \cup {NoMission}
  /\ current_pos \in Positions
  /\ optimizer_ready \in BOOLEAN
  /\ terrain \in BOOLEAN
  /\ local_traj \in [id : Seqs \cup {NoTraj, Hover, Refused},
                     ready : BOOLEAN]
  /\ hover_pos \in Positions
  /\ elapsed \subseteq Seqs
  /\ published \in Seqs \cup {NoTraj, Hover}
  /\ flown \subseteq Seqs \cup {Hover}
  /\ plans \subseteq [seq : Seqs, mission : Missions \cup {NoMission},
                      start : Positions]

AcceptedSeqs == {p.seq : p \in plans}

\* The dedup gate stands exactly at the newest accepted command: a resend of a
\* rejected command passes it, a resend of an accepted one never does
\* (trajectoryCommandCallback's roll-back of last_received_sequence_).
DedupExact ==
  /\ last_received_sequence = -1 => plans = {}
  /\ last_received_sequence # -1 => last_received_sequence \in AcceptedSeqs
  /\ \A s \in AcceptedSeqs : s <= last_received_sequence

\* While the node executes, the trajectory it times is the one it published:
\* an accepted replan leaves EXEC_TRAJ before it replaces local_traj unnoticed
\* (computeAndPublishPaths against triggerGlobalPlan).
FliesWhatWasPublished ==
  exec_state = "EXEC_TRAJ" /\ local_traj.ready => local_traj.id = published

\* Only trajectories of accepted commands, or the hover, are ever published.
OnlyAcceptedIsPublished == flown \subseteq AcceptedSeqs \cup {Hover}

\* EMERGENCY_STOP never parks before the hover is out: after the entry tick
\* the hover is the last thing published (the flag_escape_emergency_ handshake).
HoverCommanded ==
  /\ flag_escape_emergency => exec_state = "EMERGENCY_STOP"
  /\ exec_state = "EMERGENCY_STOP" /\ ~flag_escape_emergency
       => published = Hover

\* No plan starts at a height to which the terrain elevation was added twice
\* (resolveCommandedStartAgl consumes the pending flag).
LiftedAtMostOnce == \A p \in plans : p.start.lift <= 1

\* A plan of a named mission starts in that mission, on one of its own
\* trajectories or at its commanded start, never in an older mission's; the
\* only other start it can get is one left behind by a rejected command
\* (mission_changed and the adoption of the commanded start).
NoStaleStart ==
  \A p \in plans : p.mission # NoMission =>
    p.start.mission = p.mission \/ p.start.via \in {"rejected", "extrapolated"}

\* What is published is the trajectory of the newest accepted command, never
\* one a later command has superseded (planFromGlobalTraj publishes whatever
\* local_traj holds).
PublishesNewest ==
  [][published' # published /\ published' # Hover
       => published' = last_received_sequence]_vars

\* An accepted command is never dropped: when nothing is pending any more, the
\* newest accepted command's trajectory was published.
NothingStranded ==
  ~have_target /\ last_received_sequence # -1
    => last_received_sequence \in flown

\* The same for either planner: an accepted command is given up unpublished only
\* where plans are made by the chain planner, and then behind the hover that
\* EMERGENCY_STOP commands.
GivenUpBehindAHover ==
  ~have_target /\ last_received_sequence # -1
    => \/ last_received_sequence \in flown
       \/ ChainEnable /\ published = Hover

\* The machine implements the lifecycle an operator sees: accepted in sequence
\* order, published, finished; given up only behind a hover, and only where
\* plans are made by the chain planner.
lifecyclePhase ==
  IF ~have_target THEN "idle"
  ELSE IF exec_state = "EXEC_TRAJ" THEN "flying" ELSE "accepted"

Lifecycle ==
  INSTANCE MissionLifecycle
    WITH MayAbandon <- ChainEnable, phase <- lifecyclePhase,
         mission <- last_received_sequence, output <- published

ImplementsLifecycle == Lifecycle!Spec

\* The stored trajectory is the one the command was accepted with.
Stands(s) == local_traj = [id |-> s, ready |-> TRUE]

\* Every pending command is eventually published unless a newer one is accepted
\* first or, with the chain planner, the refusal of another command takes its
\* stored trajectory from it or a stop is under way, which drops it (the park
\* tick of EMERGENCY_STOP forgets a command accepted after the hover).
AcceptedIsPublished ==
  \A s \in Seqs :
    have_target /\ last_received_sequence = s
      ~> \/ s \in flown
         \/ last_received_sequence > s
         \/ ChainEnable /\ (~Stands(s) \/ exec_state = "EMERGENCY_STOP")

\* No mission holds the machine for ever: it flies out or, when its stored
\* trajectory was invalidated, the failure limit of SEQUENTIAL_START ends it.
MissionEnds == have_target ~> ~have_target
=============================================================================
