--------------------------- MODULE ReplanFSM_proofs ---------------------------
(***************************************************************************)
(* Proofs about ReplanFSM, for every set of missions, every MaxSeq, every  *)
(* failure limit and both planners.                                        *)
(***************************************************************************)
EXTENDS ReplanFSM, TLAPS

\* Only an accepted trajectory or the hover is ever fit to be published; the
\* part of typing that TypeOK leaves out and published needs.
ReadyIsFlyable == local_traj.ready => local_traj.id \in Seqs \cup {Hover}

TypeInv == TypeOK /\ ReadyIsFlyable

\* Every start point is a position.
LEMMA StartIsPosition ==
  ASSUME TypeOK, NEW c \in Commands
  PROVE  /\ AdoptedPos(c) \in Positions
         /\ StartPoint(c) \in Positions
         /\ ResolvedStart(c) \in Positions
         /\ ResolvedPos(c) \in Positions
<1>1. AdoptedPos(c) \in Positions
  BY DEF AdoptedPos, Positions, TypeOK, Commands
<1>2. MissionOfTraj(local_traj.id) \in Missions \cup {NoMission}
  <2>1. CASE \E p \in plans : p.seq = local_traj.id
    <3>1. PICK p \in plans : p = CHOOSE q \in plans : q.seq = local_traj.id
      BY <2>1
    <3> QED BY <2>1, <3>1 DEF MissionOfTraj, TypeOK
  <2>2. CASE ~\E p \in plans : p.seq = local_traj.id
    BY <2>2 DEF MissionOfTraj
  <2> QED BY <2>1, <2>2
<1>3. StartPoint(c) \in Positions
  BY <1>1, <1>2 DEF StartPoint, Positions, TypeOK
<1>4. ResolvedStart(c) \in Positions
  BY <1>3 DEF ResolvedStart, Positions
<1>5. ResolvedPos(c) \in Positions
  BY <1>1, <1>4 DEF ResolvedPos, Positions
<1> QED BY <1>1, <1>3, <1>4, <1>5

\* The start of the node is typed.
LEMMA TypeInit == Init => TypeInv
<1> SUFFICES ASSUME Init PROVE TypeInv
  OBVIOUS
<1>1. local_traj \in [id : Seqs \cup {NoTraj, Hover, Refused}, ready : BOOLEAN]
  BY DEF Init
<1>2. ReadyIsFlyable
  BY DEF Init, ReadyIsFlyable
<1>3. NoPosition \in Positions
  BY DEF NoPosition, Positions
<1>4. sequential_start_failures \in 0..MaxStartFailures
  BY ConstantsOK DEF Init
<1> QED BY <1>1, <1>2, <1>3, <1>4 DEF Init, TypeInv, TypeOK, States

\* What a step does to the stored trajectory: most steps leave it alone.
LEMMA StoredStep ==
  ASSUME [Next]_vars
  PROVE  \/ UNCHANGED trajVars
         \/ TickHover
         \/ \E c \in Commands : RejectCommand(c) \/ AcceptCommand(c)
<1> USE DEF trajVars
<1>1. CASE Tick
  BY <1>1 DEF Tick, TickInit, TickWait, TickStart, TickExec, TickPark
<1>2. ASSUME NEW c \in Commands, DropCommand(c) PROVE UNCHANGED trajVars
  BY <1>2 DEF DropCommand
<1>3. CASE TerrainChanges \/ Elapse
  BY <1>3 DEF TerrainChanges, Elapse
<1>4. CASE UNCHANGED vars
  BY <1>4 DEF vars
<1> QED BY <1>1, <1>2, <1>3, <1>4 DEF Next

\* The three things a refused plan can leave in traj_.local_traj.
LEMMA RefusedTrajectory ==
  ASSUME local_traj' \in AfterFailure
  PROVE  \/ local_traj' = local_traj
         \/ ChainEnable /\ local_traj' = [local_traj EXCEPT !.ready = FALSE]
         \/ ChainEnable /\ local_traj' = [id |-> Refused, ready |-> FALSE]
<1>1. CASE ChainEnable
  BY <1>1 DEF AfterFailure
<1>2. CASE ~ChainEnable
  BY <1>2 DEF AfterFailure
<1> QED BY <1>1, <1>2

\* A stored trajectory that is ready is always one that can be flown.
LEMMA FlyableStep ==
  ASSUME TypeOK, ReadyIsFlyable, [Next]_vars
  PROVE  ReadyIsFlyable'
<1>1. CASE UNCHANGED trajVars
  BY <1>1 DEF ReadyIsFlyable, trajVars
<1>2. CASE TickHover
  BY <1>2 DEF TickHover, ReadyIsFlyable
<1>3. ASSUME NEW c \in Commands, RejectCommand(c) PROVE ReadyIsFlyable'
  <2>1. local_traj' \in AfterFailure
    BY <1>3 DEF RejectCommand
  <2>2. CASE local_traj' = local_traj
    BY <2>2 DEF ReadyIsFlyable
  <2>3. CASE local_traj' = [local_traj EXCEPT !.ready = FALSE]
    BY <2>3, TypeOK DEF ReadyIsFlyable, TypeOK
  <2>4. CASE local_traj' = [id |-> Refused, ready |-> FALSE]
    BY <2>4 DEF ReadyIsFlyable
  <2> QED BY <2>1, <2>2, <2>3, <2>4, RefusedTrajectory
<1>4. ASSUME NEW c \in Commands, AcceptCommand(c) PROVE ReadyIsFlyable'
  BY <1>4 DEF AcceptCommand, ReadyIsFlyable, Commands
<1> QED BY <1>1, <1>2, <1>3, <1>4, StoredStep

\* Every step keeps the types.
LEMMA TypeStep == TypeInv /\ [Next]_vars => TypeInv'
<1> SUFFICES ASSUME TypeOK, ReadyIsFlyable, [Next]_vars PROVE TypeOK'
  BY FlyableStep DEF TypeInv
<1>1. CASE TickInit
  BY <1>1 DEF TypeOK, TickInit, cmdVars, outVars, trajVars, States
<1>2. CASE TickWait
  BY <1>2 DEF TypeOK, TickWait, cmdVars, outVars, trajVars, States
<1>3. CASE TickStart
  <2>1. /\ published' \in Seqs \cup {NoTraj, Hover}
        /\ flown' \subseteq Seqs \cup {Hover}
    BY <1>3 DEF TypeOK, TickStart, Publish, Ready, ReadyIsFlyable, outVars
  <2>2. sequential_start_failures' \in 0..MaxStartFailures
    BY <1>3, ConstantsOK DEF TypeOK, TickStart, GivesUp
  <2>3. /\ exec_state' \in States
        /\ have_local_traj' \in BOOLEAN
        /\ flag_escape_emergency' \in BOOLEAN
    BY <1>3 DEF TypeOK, TickStart, EnterEmergency, States
  <2> QED BY <1>3, <2>1, <2>2, <2>3 DEF TypeOK, TickStart, cmdVars, trajVars
<1>4. CASE TickExec
  <2>1. /\ exec_state' \in States
        /\ have_target' \in BOOLEAN
        /\ have_local_traj' \in BOOLEAN
    BY <1>4 DEF TickExec, GoIdle, States
  <2> QED BY <1>4, <2>1 DEF TypeOK, TickExec, cmdVars, outVars, trajVars
<1>5. CASE TickHover
  <2>1. /\ local_traj' = [id |-> Hover, ready |-> TRUE]
        /\ hover_pos' = current_pos /\ published' = Hover
        /\ flown' = flown \cup {Hover} /\ flag_escape_emergency' = FALSE
    BY <1>5 DEF TickHover, Publish
  <2>2. local_traj' \in [id : Seqs \cup {NoTraj, Hover, Refused}, ready : BOOLEAN]
    BY <2>1
  <2>3. flown' \subseteq Seqs \cup {Hover}
    BY <2>1 DEF TypeOK
  <2> QED
    BY <1>5, <2>1, <2>2, <2>3 DEF TypeOK, TickHover, cmdVars
<1>6. CASE TickPark
  <2>1. /\ exec_state' \in States
        /\ have_target' \in BOOLEAN
        /\ have_local_traj' \in BOOLEAN
    BY <1>6 DEF TickPark, GoIdle, States
  <2> QED BY <1>6, <2>1 DEF TypeOK, TickPark, cmdVars, outVars, trajVars
<1>7. ASSUME NEW c \in Commands, DropCommand(c) PROVE TypeOK'
  <2>1. current_pos' \in Positions
    BY <1>7, StartIsPosition DEF DropCommand, RejectedPos, Positions
  <2> QED BY <1>7, <2>1 DEF TypeOK, DropCommand, Adopt, RollBack, outVars,
                            trajVars
<1>8. ASSUME NEW c \in Commands, RejectCommand(c) PROVE TypeOK'
  <2>1. current_pos' \in Positions
    BY <1>8, StartIsPosition DEF RejectCommand, RejectedPos, Positions
  <2>2. local_traj' \in [id : Seqs \cup {NoTraj, Hover, Refused},
                         ready : BOOLEAN]
    <3>1. local_traj' \in AfterFailure
      BY <1>8 DEF RejectCommand
    <3>2. local_traj \in [id : Seqs \cup {NoTraj, Hover, Refused},
                          ready : BOOLEAN]
      BY DEF TypeOK
    <3>3. CASE local_traj' = local_traj
      BY <3>2, <3>3
    <3>4. CASE local_traj' = [local_traj EXCEPT !.ready = FALSE]
      BY <3>2, <3>4
    <3>5. CASE local_traj' = [id |-> Refused, ready |-> FALSE]
      BY <3>5
    <3> QED BY <3>1, <3>3, <3>4, <3>5, RefusedTrajectory
  <2> QED BY <1>8, <2>1, <2>2 DEF TypeOK, RejectCommand, Adopt, RollBack,
                                  outVars
<1>9. ASSUME NEW c \in Commands, AcceptCommand(c) PROVE TypeOK'
  <2>1. /\ c.seq \in Seqs
        /\ c.mission \in Missions \cup {NoMission}
    BY DEF Commands
  <2>2. /\ current_pos' \in Positions
        /\ plans' \subseteq [seq : Seqs, mission : Missions \cup {NoMission},
                             start : Positions]
    BY <1>9, <2>1, StartIsPosition DEF TypeOK, AcceptCommand
  <2> QED BY <1>9, <2>1, <2>2 DEF TypeOK, AcceptCommand, Adopt,
                                  StateAfterPlan, States, outVars
<1>10. CASE TerrainChanges
  BY <1>10 DEF TypeOK, TerrainChanges, fsmVars, cmdVars, outVars, trajVars
<1>11. CASE Elapse
  BY <1>11 DEF TypeOK, Elapse, fsmVars, cmdVars, outVars, trajVars
<1>12. CASE UNCHANGED vars
  BY <1>12 DEF TypeOK, vars, fsmVars, cmdVars, outVars, trajVars
<1> QED BY <1>1, <1>2, <1>3, <1>4, <1>5, <1>6, <1>7, <1>8, <1>9, <1>10, <1>11,
           <1>12 DEF Next, Tick

\* Types, and that ready means flyable, always hold.
LEMMA TypeInvariant == SafeSpec => []TypeInv
BY TypeInit, TypeStep, PTL DEF SafeSpec

\* Type correctness: every member of the state machine stays in its range,
\* the failure counter of SEQUENTIAL_START included.
THEOREM TypeCorrect == SafeSpec => []TypeOK
BY TypeInvariant, PTL DEF TypeInv

-----------------------------------------------------------------------------
(***************************************************************************)
(* Sequencing: the dedup gate, the stored and the published trajectory.    *)
(***************************************************************************)

\* Only an accepted command moves the sequence number, the mission id and the
\* accepted plans.
LEMMA SequenceStep ==
  ASSUME [Next]_vars
  PROVE  \/ UNCHANGED <<last_received_sequence, current_mission_id, plans>>
         \/ \E c \in Commands : AcceptCommand(c)
<1> USE DEF cmdVars
<1>1. CASE Tick
  BY <1>1 DEF Tick, TickInit, TickWait, TickStart, TickExec, TickHover,
              TickPark
<1>2. ASSUME NEW c \in Commands, DropCommand(c) \/ RejectCommand(c)
      PROVE  UNCHANGED <<last_received_sequence, current_mission_id, plans>>
  BY <1>2 DEF DropCommand, RejectCommand, RollBack
<1>3. CASE TerrainChanges \/ Elapse
  BY <1>3 DEF TerrainChanges, Elapse
<1>4. CASE UNCHANGED vars
  BY <1>4 DEF vars
<1> QED BY <1>1, <1>2, <1>3, <1>4 DEF Next

\* Only two ticks publish.
LEMMA OutputStep ==
  ASSUME [Next]_vars
  PROVE  \/ UNCHANGED outVars
         \/ TickHover
         \/ TickStart /\ Ready /\ Publish(local_traj.id)
<1>1. CASE Tick
  BY <1>1 DEF Tick, TickInit, TickWait, TickStart, TickExec, TickPark
<1>2. ASSUME NEW c \in Commands,
             DropCommand(c) \/ RejectCommand(c) \/ AcceptCommand(c)
      PROVE  UNCHANGED outVars
  BY <1>2 DEF DropCommand, RejectCommand, AcceptCommand
<1>3. CASE TerrainChanges \/ Elapse
  BY <1>3 DEF TerrainChanges, Elapse
<1>4. CASE UNCHANGED vars
  BY <1>4 DEF vars
<1> QED BY <1>1, <1>2, <1>3, <1>4 DEF Next

\* The stored trajectory, while flyable and no hover, is the newest accepted
\* command's: this is what makes publishing "whatever is stored" safe.
StoredIsNewest ==
  local_traj.ready /\ local_traj.id \in Seqs
    => local_traj.id = last_received_sequence

SequenceInv == DedupExact /\ StoredIsNewest /\ OnlyAcceptedIsPublished

\* Accepting a command adds its sequence number to the accepted ones.
LEMMA AcceptedSeqsGrow ==
  ASSUME NEW c \in Commands, AcceptCommand(c)
  PROVE  AcceptedSeqs' = AcceptedSeqs \cup {c.seq}
<1> DEFINE new == [seq |-> c.seq, mission |-> c.mission,
                   start |-> ResolvedStart(c)]
<1>1. plans' = plans \cup {new}
  BY DEF AcceptCommand
<1>2. new.seq = c.seq
  OBVIOUS
<1> HIDE DEF new
<1> QED BY <1>1, <1>2 DEF AcceptedSeqs

\* Only an acceptance or a change of mission moves the dedup gate.
LEMMA DedupStep ==
  ASSUME TypeOK, DedupExact, [Next]_vars
  PROVE  DedupExact'
<1>1. CASE UNCHANGED <<last_received_sequence, current_mission_id, plans>>
  BY <1>1 DEF DedupExact, AcceptedSeqs
<1>2. ASSUME NEW c \in Commands, AcceptCommand(c)
      PROVE  DedupExact'
  <2>1. /\ last_received_sequence' = c.seq
        /\ c.seq \in Seqs
        /\ c.seq > last_received_sequence
    BY <1>2 DEF AcceptCommand, Fresh, Commands
  <2>2. AcceptedSeqs \subseteq Int
    BY DEF AcceptedSeqs, TypeOK, Seqs
  <2>3. \A s \in AcceptedSeqs : s <= c.seq
    BY <2>1, <2>2 DEF DedupExact, TypeOK, Seqs
  <2>4. AcceptedSeqs' = AcceptedSeqs \cup {c.seq}
    BY <1>2, AcceptedSeqsGrow
  <2> QED BY <2>1, <2>3, <2>4 DEF DedupExact, Seqs
<1> QED BY <1>1, <1>2, SequenceStep

\* Nothing but an acceptance puts a flyable trajectory into the slot.
LEMMA StoredStepNewest ==
  ASSUME TypeOK, StoredIsNewest, [Next]_vars
  PROVE  StoredIsNewest'
<1>1. CASE UNCHANGED trajVars
  <2>1. CASE UNCHANGED <<last_received_sequence, current_mission_id, plans>>
    BY <1>1, <2>1 DEF StoredIsNewest, trajVars
  <2>2. ASSUME NEW c \in Commands, AcceptCommand(c)
        PROVE  StoredIsNewest'
    BY <2>2 DEF AcceptCommand, StoredIsNewest
  <2> QED BY <2>1, <2>2, SequenceStep
<1>2. CASE TickHover
  BY <1>2 DEF TickHover, StoredIsNewest, Hover, Seqs
<1>3. ASSUME NEW c \in Commands, RejectCommand(c)
      PROVE  StoredIsNewest'
  <2>1. /\ local_traj' \in AfterFailure
        /\ last_received_sequence' = last_received_sequence
    BY <1>3 DEF RejectCommand, RollBack
  <2>2. CASE local_traj' = local_traj
    BY <2>1, <2>2 DEF StoredIsNewest
  <2>3. CASE local_traj' = [local_traj EXCEPT !.ready = FALSE]
    BY <2>3 DEF StoredIsNewest, TypeOK
  <2>4. CASE local_traj' = [id |-> Refused, ready |-> FALSE]
    BY <2>4 DEF StoredIsNewest
  <2> QED BY <2>1, <2>2, <2>3, <2>4, RefusedTrajectory
<1>4. ASSUME NEW c \in Commands, AcceptCommand(c)
      PROVE  StoredIsNewest'
  BY <1>4 DEF AcceptCommand, StoredIsNewest
<1> QED BY <1>1, <1>2, <1>3, <1>4, StoredStep

\* What is published was stored by an acceptance, or is the hover.
LEMMA PublishedStep ==
  ASSUME TypeInv, SequenceInv, [Next]_vars
  PROVE  OnlyAcceptedIsPublished'
<1>1. AcceptedSeqs \subseteq AcceptedSeqs'
  <2>1. CASE UNCHANGED <<last_received_sequence, current_mission_id, plans>>
    BY <2>1 DEF AcceptedSeqs
  <2>2. ASSUME NEW c \in Commands, AcceptCommand(c)
        PROVE  AcceptedSeqs \subseteq AcceptedSeqs'
    BY <2>2, AcceptedSeqsGrow
  <2> QED BY <2>1, <2>2, SequenceStep
<1>2. CASE UNCHANGED outVars
  BY <1>1, <1>2 DEF outVars, OnlyAcceptedIsPublished, SequenceInv
<1>3. CASE TickHover
  BY <1>1, <1>3 DEF TickHover, Publish, OnlyAcceptedIsPublished, SequenceInv
<1>4. CASE TickStart /\ Ready /\ Publish(local_traj.id)
  <2>1. local_traj.id \in Seqs => local_traj.id = last_received_sequence
    BY <1>4 DEF Ready, SequenceInv, StoredIsNewest
  <2>2. local_traj.id \in Seqs \cup {Hover}
    BY <1>4 DEF Ready, TypeInv, ReadyIsFlyable
  <2>3. local_traj.id \in AcceptedSeqs \cup {Hover}
    BY <2>1, <2>2 DEF SequenceInv, DedupExact, Seqs
  <2> QED BY <1>1, <1>4, <2>3 DEF Publish, OnlyAcceptedIsPublished, SequenceInv
<1> QED BY <1>2, <1>3, <1>4, OutputStep

\* The sequence part holds always.
LEMMA SequenceInvariant == SafeSpec => []SequenceInv
<1>1. Init => SequenceInv
  BY DEF Init, SequenceInv, DedupExact, StoredIsNewest,
         OnlyAcceptedIsPublished, AcceptedSeqs
<1>2. TypeInv /\ SequenceInv /\ [Next]_vars => SequenceInv'
  BY DedupStep, StoredStepNewest, PublishedStep DEF SequenceInv, TypeInv
<1> QED BY <1>1, <1>2, TypeInvariant, PTL DEF SafeSpec

\* The dedup gate stands exactly at the newest accepted command, so a resend
\* of a rejected command is never lost in it.
THEOREM DedupIsExact == SafeSpec => []DedupExact
BY SequenceInvariant, PTL DEF SequenceInv

\* Nothing but accepted trajectories and hovers goes out.
THEOREM PublishesOnlyAccepted == SafeSpec => []OnlyAcceptedIsPublished
BY SequenceInvariant, PTL DEF SequenceInv

\* A superseded trajectory is never published.
THEOREM PublishesOnlyNewest == SafeSpec => PublishesNewest
<1>1. TypeInv /\ SequenceInv /\ [Next]_vars
        => [published' # published /\ published' # Hover
              => published' = last_received_sequence]_vars
  <2> SUFFICES ASSUME TypeInv, SequenceInv, [Next]_vars,
                      published' # published, published' # Hover
               PROVE  published' = last_received_sequence
    OBVIOUS
  <2>1. CASE UNCHANGED outVars
    BY <2>1 DEF outVars
  <2>2. CASE TickHover
    BY <2>2 DEF TickHover, Publish
  <2>3. CASE TickStart /\ Ready /\ Publish(local_traj.id)
    <3>1. local_traj.id \in Seqs \cup {Hover}
      BY <2>3 DEF Ready, TypeInv, ReadyIsFlyable
    <3> QED BY <2>3, <3>1 DEF Ready, Publish, SequenceInv, StoredIsNewest
  <2> QED BY <2>1, <2>2, <2>3, OutputStep
<1> QED BY <1>1, TypeInvariant, SequenceInvariant, PTL
        DEF SafeSpec, PublishesNewest

-----------------------------------------------------------------------------
(***************************************************************************)
(* Execution: the states, the pending target and the hover.                *)
(***************************************************************************)

\* How the states follow the pending mission: the executing states hold a
\* target; the hover is stored only while a stop is under way or nothing is
\* pending; and without the chain planner a pending mission always has a
\* flyable trajectory, so the failure branch is never taken.
PendingMission ==
  /\ exec_state \in {"SEQUENTIAL_START", "EXEC_TRAJ", "EMERGENCY_STOP"}
       => have_target
  /\ have_target /\ local_traj.id = Hover
       => exec_state = "EMERGENCY_STOP" /\ ~flag_escape_emergency
  /\ ~ChainEnable /\ have_target
       => local_traj.ready /\ exec_state # "EMERGENCY_STOP"

ExecInv == FliesWhatWasPublished /\ HoverCommanded /\ PendingMission

\* A refused plan can only take the flyable flag away, and only in chain mode.
LEMMA RejectKeepsExecInv ==
  ASSUME TypeOK, ExecInv, NEW c \in Commands, RejectCommand(c)
  PROVE  ExecInv'
<1>1. /\ UNCHANGED <<exec_state, have_target, flag_escape_emergency, published>>
      /\ local_traj' \in AfterFailure
  BY DEF RejectCommand, outVars
<1>2. CASE local_traj' = local_traj
  BY <1>1, <1>2 DEF ExecInv, FliesWhatWasPublished, HoverCommanded,
                    PendingMission
<1>3. CASE ChainEnable /\ local_traj' = [local_traj EXCEPT !.ready = FALSE]
  <2>1. local_traj'.ready = FALSE /\ local_traj'.id = local_traj.id
    BY <1>3 DEF TypeOK
  <2> QED BY <1>1, <1>3, <2>1 DEF ExecInv, FliesWhatWasPublished,
                                  HoverCommanded, PendingMission
<1>4. CASE ChainEnable /\ local_traj' = [id |-> Refused, ready |-> FALSE]
  <2>1. local_traj'.ready = FALSE /\ local_traj'.id # Hover
    BY <1>4 DEF Hover, Refused
  <2> QED BY <1>1, <1>4, <2>1 DEF ExecInv, FliesWhatWasPublished,
                                  HoverCommanded, PendingMission
<1> QED BY <1>1, <1>2, <1>3, <1>4, RefusedTrajectory

\* An accepted command replaces what is stored, not what is flown.
LEMMA AcceptKeepsExecInv ==
  ASSUME TypeOK, ExecInv, NEW c \in Commands, AcceptCommand(c)
  PROVE  ExecInv'
<1>1. /\ have_target' = TRUE
      /\ local_traj' = [id |-> c.seq, ready |-> TRUE]
      /\ UNCHANGED <<flag_escape_emergency, published>>
      /\ exec_state' = StateAfterPlan
      /\ c.seq # Hover
  BY DEF AcceptCommand, outVars, Commands, Seqs, Hover
<1>2. FliesWhatWasPublished'
  BY <1>1 DEF FliesWhatWasPublished, StateAfterPlan
<1>3. HoverCommanded'
  BY <1>1 DEF ExecInv, HoverCommanded, StateAfterPlan
<1>4. PendingMission'
  <2>1. local_traj'.ready /\ local_traj'.id # Hover
    BY <1>1
  <2>2. ~ChainEnable => exec_state' # "EMERGENCY_STOP"
    <3>1. CASE exec_state = "EMERGENCY_STOP"
      BY <3>1 DEF ExecInv, PendingMission
    <3>2. CASE exec_state # "EMERGENCY_STOP"
      BY <1>1, <3>2 DEF StateAfterPlan
    <3> QED BY <3>1, <3>2
  <2> QED BY <1>1, <2>1, <2>2 DEF PendingMission
<1> QED BY <1>2, <1>3, <1>4 DEF ExecInv

\* A tick publishes only with a mission pending.
LEMMA TickKeepsExecInv ==
  ASSUME TypeOK, ExecInv, Tick
  PROVE  ExecInv'
<1> USE DEF ExecInv, FliesWhatWasPublished, HoverCommanded, PendingMission,
            outVars, trajVars
<1>1. CASE TickInit
  BY <1>1 DEF TickInit
<1>2. CASE TickWait
  BY <1>2 DEF TickWait
<1>3. CASE TickStart
  <2>1. CASE Ready
    BY <1>3, <2>1 DEF TickStart, Publish
  <2>2. CASE ~Ready
    BY <1>3, <2>2 DEF TickStart, EnterEmergency, Ready
  <2> QED BY <2>1, <2>2
<1>4. CASE TickExec
  BY <1>4 DEF TickExec, GoIdle
<1>5. CASE TickHover
  BY <1>5 DEF TickHover, Publish
<1>6. CASE TickPark
  BY <1>6 DEF TickPark, GoIdle
<1> QED BY <1>1, <1>2, <1>3, <1>4, <1>5, <1>6 DEF Tick

\* The execution part holds always.
LEMMA ExecInvariant == SafeSpec => []ExecInv
<1>1. Init => ExecInv
  BY DEF Init, ExecInv, FliesWhatWasPublished, HoverCommanded, PendingMission,
         NoTraj, Hover
<1>2. TypeOK /\ ExecInv /\ [Next]_vars => ExecInv'
  <2> SUFFICES ASSUME TypeOK, ExecInv, [Next]_vars PROVE ExecInv'
    OBVIOUS
  <2>1. ASSUME NEW c \in Commands, DropCommand(c) PROVE ExecInv'
    BY <2>1 DEF DropCommand, outVars, trajVars, ExecInv,
                FliesWhatWasPublished, HoverCommanded, PendingMission
  <2>2. CASE TerrainChanges
    BY <2>2 DEF TerrainChanges, fsmVars, outVars, trajVars, ExecInv,
                FliesWhatWasPublished, HoverCommanded, PendingMission
  <2>3. CASE Elapse
    BY <2>3 DEF Elapse, fsmVars, outVars, trajVars, ExecInv,
                FliesWhatWasPublished, HoverCommanded, PendingMission
  <2>4. CASE UNCHANGED vars
    BY <2>4 DEF vars, fsmVars, outVars, trajVars, ExecInv,
                FliesWhatWasPublished, HoverCommanded, PendingMission
  <2> QED BY <2>1, <2>2, <2>3, <2>4, TickKeepsExecInv, RejectKeepsExecInv,
             AcceptKeepsExecInv DEF Next
<1> QED BY <1>1, <1>2, TypeCorrect, PTL DEF SafeSpec

\* What the node times in EXEC_TRAJ is what it last published.
THEOREM FliesThePublished == SafeSpec => []FliesWhatWasPublished
BY ExecInvariant, PTL DEF ExecInv

\* The stop is commanded before the machine parks.
THEOREM HoverIsCommanded == SafeSpec => []HoverCommanded
BY ExecInvariant, PTL DEF ExecInv

-----------------------------------------------------------------------------
(***************************************************************************)
(* Start points: how often a start was lifted and whose mission it is in.  *)
(***************************************************************************)

\* A trajectory to continue from exists only once a start was adopted.
StartReceived ==
  /\ have_target => start_position_received
  /\ have_local_traj => start_position_received

\* A pending lift is still to be applied: neither current_pos nor a hover that
\* can be continued from has had it.
LiftInv ==
  /\ current_pos.lift <= 1
  /\ hover_pos.lift <= 1
  /\ start_seed_agl_pending => current_pos.lift = 0
  /\ start_seed_agl_pending /\ have_local_traj /\ local_traj.id = Hover
       => hover_pos.lift = 0

InMission(pos) ==
  current_mission_id # NoMission
    => pos.mission = current_mission_id \/ pos.via = "rejected"

\* The current position, a hover and the newest plan belong to the current
\* mission; sequence numbers identify plans.
MissionInv ==
  /\ InMission(current_pos)
  /\ have_local_traj /\ local_traj.id = Hover => InMission(hover_pos)
  /\ \A p \in plans : p.seq = last_received_sequence
       => p.mission = current_mission_id

StartInv ==
  StartReceived /\ LiftInv /\ MissionInv /\ LiftedAtMostOnce /\ NoStaleStart

\* Everything the start of a plan depends on.
Context == TypeInv /\ SequenceInv /\ ExecInv /\ StartInv

\* The start a command resolves to is lifted at most once.
LEMMA StartHeight ==
  ASSUME TypeInv, StartReceived, LiftInv, NEW c \in Commands
  PROVE  ResolvedStart(c).lift <= 1 /\ ResolvedPos(c).lift <= 1
<1>1. /\ AdoptedPos(c).lift \in Nat /\ AdoptedPos(c).lift <= 1
      /\ start_seed_agl_pending \/ Adopts(c) => AdoptedPos(c).lift = 0
  BY StartIsPosition DEF TypeInv, AdoptedPos, LiftInv, Positions
<1>2. have_local_traj /\ ~MissionChanged(c) => ~Adopts(c)
  BY DEF StartReceived, Adopts
<1>3. /\ StartPoint(c).lift <= 1
      /\ start_seed_agl_pending \/ Adopts(c) => StartPoint(c).lift = 0
  BY <1>1, <1>2 DEF StartPoint, LiftInv
<1>4. StartPoint(c) \in Positions /\ AdoptedPos(c) \in Positions
  BY StartIsPosition DEF TypeInv
<1>5. ResolvedStart(c).lift <= 1
  BY <1>3, <1>4 DEF ResolvedStart, LiftsStart, Positions
<1>6. ResolvedPos(c).lift <= 1
  BY <1>1, <1>4, <1>5 DEF ResolvedPos, Positions
<1> QED BY <1>5, <1>6

\* Lifting changes the height only.
LEMMA ResolvingKeepsProvenance ==
  ASSUME TypeOK, NEW c \in Commands
  PROVE  /\ ResolvedStart(c).mission = StartPoint(c).mission
         /\ ResolvedStart(c).via = StartPoint(c).via
         /\ ResolvedPos(c).mission = AdoptedPos(c).mission
         /\ ResolvedPos(c).via = AdoptedPos(c).via
BY StartIsPosition DEF ResolvedStart, ResolvedPos, Positions

\* The start of an accepted plan is in its mission, or tainted.
LEMMA StartMission ==
  ASSUME Context, NEW c \in Commands, c.mission # NoMission
  PROVE  \/ StartPoint(c).mission = c.mission
         \/ StartPoint(c).via \in {"rejected", "extrapolated"}
<1>1. ~Adopts(c) => c.mission = current_mission_id
  BY DEF Adopts, MissionChanged
<1>2. CASE have_local_traj /\ ~MissionChanged(c)
  <2>1. ~Adopts(c)
    BY <1>2 DEF Adopts, Context, StartInv, StartReceived
  <2>2. CASE local_traj.ready /\ local_traj.id = Hover
    <3>1. StartPoint(c) = hover_pos
      BY <1>2, <2>2 DEF StartPoint
    <3>2. InMission(hover_pos)
      BY <1>2, <2>2 DEF Context, StartInv, MissionInv
    <3> QED BY <3>1, <3>2, <2>1, <1>1 DEF InMission
  <2>3. CASE local_traj.ready /\ local_traj.id # Hover
    <3>1. local_traj.id \in Seqs /\ local_traj.id = last_received_sequence
      BY <2>3 DEF Context, TypeInv, ReadyIsFlyable, SequenceInv,
                  StoredIsNewest
    <3>2. \E p \in plans : p.seq = local_traj.id
      BY <3>1 DEF Context, SequenceInv, DedupExact, AcceptedSeqs, Seqs
    <3>3. MissionOfTraj(local_traj.id) = current_mission_id
      BY <3>1, <3>2 DEF MissionOfTraj, Context, StartInv, MissionInv
    <3>4. StartPoint(c).mission = MissionOfTraj(local_traj.id)
      BY <1>2, <2>3 DEF StartPoint
    <3> QED BY <3>3, <3>4, <2>1, <1>1
  <2>4. CASE ~local_traj.ready
    BY <1>2, <2>4 DEF StartPoint
  <2> QED BY <2>2, <2>3, <2>4
<1>3. CASE ~(have_local_traj /\ ~MissionChanged(c))
  <2>1. StartPoint(c) = AdoptedPos(c)
    BY <1>3 DEF StartPoint
  <2>2. CASE Adopts(c)
    BY <2>1, <2>2 DEF AdoptedPos
  <2>3. CASE ~Adopts(c)
    BY <2>1, <2>3, <1>1 DEF AdoptedPos, Context, StartInv, MissionInv,
                            InMission
  <2> QED BY <2>2, <2>3
<1> QED BY <1>2, <1>3

\* What every unsuccessful command leaves behind, dropped or refused.
Unsuccessful(c) ==
  /\ UNCHANGED <<have_target, last_received_sequence, current_mission_id,
                 plans, hover_pos>>
  /\ Adopt(c)
  /\ \/ local_traj' = local_traj
     \/ local_traj'.id \in {local_traj.id, Refused}
  /\ \/ current_pos' = RejectedPos(c, AdoptedPos(c))
        /\ start_seed_agl_pending' = (start_seed_agl_pending \/ Adopts(c))
     \/ current_pos' = RejectedPos(c, ResolvedPos(c))
        /\ start_seed_agl_pending' = FALSE

\* A dropped and a rejected command leave the same things alone.
LEMMA UnsuccessfulCommands ==
  ASSUME TypeOK, NEW c \in Commands, DropCommand(c) \/ RejectCommand(c)
  PROVE  Unsuccessful(c)
<1>1. CASE DropCommand(c)
  BY <1>1 DEF DropCommand, RollBack, trajVars, Unsuccessful
<1>2. CASE RejectCommand(c)
  <2>1. local_traj' \in AfterFailure
    BY <1>2 DEF RejectCommand
  <2>2. \/ local_traj' = local_traj
        \/ local_traj'.id \in {local_traj.id, Refused}
    BY <2>1, RefusedTrajectory DEF TypeOK
  <2> QED BY <1>2, <2>2 DEF RejectCommand, RollBack, Unsuccessful
<1> QED BY <1>1, <1>2

\* A command without a flight keeps the start part.
LEMMA UnsuccessfulKeepsStartInv ==
  ASSUME Context, NEW c \in Commands, Unsuccessful(c)
  PROVE  StartInv'
<1> USE DEF Context, StartInv
<1>1. StartReceived'
  BY DEF Unsuccessful, Adopt, StartReceived
<1>2. current_pos' = RejectedPos(c, AdoptedPos(c))
        \/ current_pos' = RejectedPos(c, ResolvedPos(c))
  BY DEF Unsuccessful
<1>3. /\ AdoptedPos(c) \in Positions /\ ResolvedPos(c) \in Positions
      /\ RejectedPos(c, AdoptedPos(c)).lift = AdoptedPos(c).lift
      /\ RejectedPos(c, ResolvedPos(c)).lift = ResolvedPos(c).lift
  BY StartIsPosition DEF RejectedPos, Positions, TypeInv
<1>4. \/ AdoptedPos(c).lift = 0
      \/ ~Adopts(c) /\ AdoptedPos(c) = current_pos
  BY DEF AdoptedPos
<1>5. LiftInv'
  <2>1. current_pos'.lift <= 1
    BY <1>2, <1>3, <1>4, StartHeight DEF LiftInv
  <2>2. start_seed_agl_pending' => current_pos'.lift = 0
    BY <1>3, <1>4 DEF Unsuccessful, LiftInv
  <2>3. have_local_traj' => have_local_traj /\ ~Adopts(c)
    BY DEF Unsuccessful, Adopt, Adopts, StartReceived
  <2>4. local_traj'.id = Hover => local_traj.id = Hover
    BY DEF Unsuccessful, Hover, Refused
  <2>5. start_seed_agl_pending' => start_seed_agl_pending \/ Adopts(c)
    BY DEF Unsuccessful
  <2> QED BY <2>1, <2>2, <2>3, <2>4, <2>5 DEF LiftInv, Unsuccessful
<1>6. MissionInv'
  <2>1. InMission(current_pos)'
    <3>1. CASE Adopts(c)
      <4>1. current_pos'.via = "rejected"
        BY <1>2, <1>3, <3>1 DEF RejectedPos, Positions
      <4> QED BY <4>1 DEF InMission
    <3>2. CASE ~Adopts(c)
      <4>1. AdoptedPos(c) = current_pos
        BY <3>2 DEF AdoptedPos
      <4>2. /\ current_pos'.mission = current_pos.mission
            /\ current_pos'.via = current_pos.via
        BY <1>2, <3>2, <4>1, ResolvingKeepsProvenance DEF RejectedPos, TypeInv
      <4> QED BY <4>2 DEF InMission, MissionInv, Unsuccessful
    <3> QED BY <3>1, <3>2
  <2>2. have_local_traj' /\ local_traj'.id = Hover => InMission(hover_pos)'
    <3>1. have_local_traj' => have_local_traj
      BY DEF Unsuccessful, Adopt
    <3>2. local_traj'.id = Hover => local_traj.id = Hover
      BY DEF Unsuccessful, Hover, Refused
    <3>3. InMission(hover_pos) => InMission(hover_pos)'
      BY DEF Unsuccessful, InMission
    <3> QED BY <3>1, <3>2, <3>3 DEF MissionInv
  <2> QED BY <2>1, <2>2 DEF MissionInv, Unsuccessful
<1>7. LiftedAtMostOnce' /\ NoStaleStart'
  BY DEF Unsuccessful, LiftedAtMostOnce, NoStaleStart
<1> QED BY <1>1, <1>5, <1>6, <1>7

\* An accepted command plans from a start of its own mission.
LEMMA AcceptKeepsStartInv ==
  ASSUME Context, NEW c \in Commands, AcceptCommand(c)
  PROVE  StartInv'
<1> USE DEF Context, StartInv
<1> DEFINE new == [seq |-> c.seq, mission |-> c.mission,
                   start |-> ResolvedStart(c)]
<1>1. /\ start_position_received' = TRUE
      /\ start_seed_agl_pending' = FALSE
      /\ current_pos' = ResolvedPos(c)
      /\ hover_pos' = hover_pos
      /\ local_traj'.id = c.seq
      /\ last_received_sequence' = c.seq
      /\ current_mission_id' = c.mission
      /\ plans' = plans \cup {new}
      /\ c.seq > last_received_sequence
      /\ c.seq \in Seqs
  BY DEF AcceptCommand, Adopt, Fresh, Commands
<1>2. StartReceived'
  BY <1>1 DEF StartReceived
<1>3. LiftInv'
  BY <1>1, StartHeight DEF LiftInv
<1>4. MissionInv'
  <2>1. InMission(current_pos)'
    <3>1. CASE c.mission # NoMission
      <4>1. CASE Adopts(c)
        BY <1>1, <4>1, ResolvingKeepsProvenance
           DEF InMission, AdoptedPos, TypeInv
      <4>2. CASE ~Adopts(c)
        <5>1. c.mission = current_mission_id
          BY <3>1, <4>2 DEF Adopts, MissionChanged
        <5>2. AdoptedPos(c) = current_pos
          BY <4>2 DEF AdoptedPos
        <5> QED BY <1>1, <5>1, <5>2, ResolvingKeepsProvenance
                DEF InMission, MissionInv, TypeInv
      <4> QED BY <4>1, <4>2
    <3>2. CASE c.mission = NoMission
      BY <1>1, <3>2 DEF InMission
    <3> QED BY <3>1, <3>2
  <2>2. local_traj'.id # Hover
    BY <1>1 DEF Hover, Seqs
  <2>3. \A p \in plans : p.seq # c.seq
    <3>1. \A s \in AcceptedSeqs : s <= last_received_sequence
      BY DEF SequenceInv, DedupExact
    <3>2. \A p \in plans : p.seq \in AcceptedSeqs /\ p.seq \in Seqs
      BY DEF AcceptedSeqs, TypeInv, TypeOK
    <3> QED BY <1>1, <3>1, <3>2 DEF TypeInv, TypeOK, Seqs
  <2> QED BY <1>1, <2>1, <2>2, <2>3 DEF MissionInv
<1>5. LiftedAtMostOnce'
  BY <1>1, StartHeight DEF LiftedAtMostOnce
<1>6. NoStaleStart'
  BY <1>1, StartMission, ResolvingKeepsProvenance DEF NoStaleStart, TypeInv
<1> QED BY <1>2, <1>3, <1>4, <1>5, <1>6

\* The start part holds always.
LEMMA StartInvariant == SafeSpec => []StartInv
<1>1. Init => StartInv
  BY DEF Init, StartInv, StartReceived, LiftInv, MissionInv, InMission,
         LiftedAtMostOnce, NoStaleStart, NoPosition
<1>2. Context /\ [Next]_vars => StartInv'
  <2> SUFFICES ASSUME Context, [Next]_vars PROVE StartInv'
    OBVIOUS
  <2> USE DEF Context, StartInv, StartReceived, LiftInv, MissionInv,
              InMission, LiftedAtMostOnce, NoStaleStart
  <2>1. CASE TickInit
    BY <2>1 DEF TickInit, cmdVars, trajVars
  <2>2. CASE TickWait
    BY <2>2 DEF TickWait, cmdVars, trajVars
  <2>3. CASE TickStart
    <3>1. have_target /\ local_traj.id # Hover
      BY <2>3 DEF TickStart, ExecInv, PendingMission
    <3> QED BY <2>3, <3>1 DEF TickStart, cmdVars, trajVars
  <2>4. CASE TickExec
    BY <2>4 DEF TickExec, GoIdle, cmdVars, trajVars
  <2>5. CASE TickHover
    BY <2>5 DEF TickHover, cmdVars
  <2>6. CASE TickPark
    BY <2>6 DEF TickPark, GoIdle, cmdVars, trajVars
  <2>7. ASSUME NEW c \in Commands, DropCommand(c) \/ RejectCommand(c)
        PROVE  StartInv'
    BY <2>7, UnsuccessfulCommands, UnsuccessfulKeepsStartInv DEF TypeInv
  <2>8. CASE TerrainChanges
    BY <2>8 DEF TerrainChanges, fsmVars, cmdVars, trajVars
  <2>9. CASE Elapse
    BY <2>9 DEF Elapse, fsmVars, cmdVars, trajVars
  <2>10. CASE UNCHANGED vars
    BY <2>10 DEF vars, fsmVars, cmdVars, trajVars
  <2> QED BY <2>1, <2>2, <2>3, <2>4, <2>5, <2>6, <2>7, <2>8, <2>9, <2>10,
             AcceptKeepsStartInv DEF Next, Tick
<1> QED BY <1>1, <1>2, TypeInvariant, SequenceInvariant, ExecInvariant, PTL
        DEF SafeSpec, Context

\* The terrain elevation is added at most once to any plan's start.
THEOREM LiftsOnce == SafeSpec => []LiftedAtMostOnce
BY StartInvariant, PTL DEF StartInv

\* No plan of a named mission starts in another mission, but for the two ways
\* the findings of the README describe.
THEOREM StartsAreNotStale == SafeSpec => []NoStaleStart
BY StartInvariant, PTL DEF StartInv

-----------------------------------------------------------------------------
(***************************************************************************)
(* Nothing stranded, in single-shot mode: a refused plan leaves the stored *)
(* trajectory alone, so what is pending stays ready until it is published  *)
(* and the start never fails.                                              *)
(***************************************************************************)

\* What is pending is stored and ready, and the machine is never driven into
\* the stop that would park it.
StrandInv ==
  /\ ~ ChainEnable
  /\ exec_state # "EMERGENCY_STOP"
  /\ exec_state \in {"SEQUENTIAL_START", "EXEC_TRAJ"} => have_target
  /\ have_target =>
       local_traj = [id |-> last_received_sequence, ready |-> TRUE]
  /\ exec_state = "EXEC_TRAJ" => last_received_sequence \in flown
  /\ NothingStranded

\* A tick publishes what is pending before it forgets it.
LEMMA TickStrandsNothing ==
  ASSUME StrandInv, Tick
  PROVE  StrandInv'
<1> USE DEF StrandInv, NothingStranded, cmdVars, outVars, trajVars
<1>1. CASE TickInit
  BY <1>1 DEF TickInit
<1>2. CASE TickWait
  BY <1>2 DEF TickWait
<1>3. CASE TickStart
  BY <1>3 DEF TickStart, Publish, Ready
<1>4. CASE TickExec
  BY <1>4 DEF TickExec, GoIdle
<1>5. CASE TickHover \/ TickPark
  BY <1>5 DEF TickHover, TickPark
<1> QED BY <1>1, <1>2, <1>3, <1>4, <1>5 DEF Tick

\* A command is dropped, refused with what is stored untouched, or becomes what
\* is pending.
LEMMA CommandStrandsNothing ==
  ASSUME StrandInv, NEW c \in Commands,
         DropCommand(c) \/ RejectCommand(c) \/ AcceptCommand(c)
  PROVE  StrandInv'
<1> USE DEF StrandInv, NothingStranded, outVars, trajVars
<1>1. CASE DropCommand(c)
  BY <1>1 DEF DropCommand, RollBack
<1>2. CASE RejectCommand(c)
  BY <1>2, RefusedTrajectory DEF RejectCommand, RollBack
<1>3. CASE AcceptCommand(c)
  BY <1>3 DEF AcceptCommand, StateAfterPlan
<1> QED BY <1>1, <1>2, <1>3

\* Where plans are single shots, an accepted command is never dropped: it is
\* pending until it has been published.  (With the chain planner it can be; see
\* the README.)
THEOREM NothingIsStranded == ~ ChainEnable /\ SafeSpec => []NothingStranded
<1>1. ~ ChainEnable /\ Init => StrandInv
  BY DEF Init, StrandInv, NothingStranded
<1>2. StrandInv /\ [Next]_vars => StrandInv'
  <2> SUFFICES ASSUME StrandInv, [Next]_vars PROVE StrandInv'
    OBVIOUS
  <2>1. CASE TerrainChanges \/ Elapse \/ UNCHANGED vars
    BY <2>1 DEF TerrainChanges, Elapse, vars, fsmVars, cmdVars, outVars,
                trajVars, StrandInv, NothingStranded
  <2> QED BY <2>1, TickStrandsNothing, CommandStrandsNothing DEF Next
<1> QED BY <1>1, <1>2, PTL DEF SafeSpec, StrandInv

-----------------------------------------------------------------------------
(***************************************************************************)
(* With either planner: what is given up unpublished is given up behind    *)
(* the hover.  What executes was published, and the machine forgets only   *)
(* what executes or, parking, what a commanded stop ends.                  *)
(***************************************************************************)

GivenUpInv ==
  /\ exec_state = "EXEC_TRAJ" => last_received_sequence \in flown
  /\ GivenUpBehindAHover

\* A tick forgets what it has published, or parks behind the hover.
LEMMA TickGivesUpBehindAHover ==
  ASSUME TypeInv, SequenceInv, ExecInv, GivenUpInv, Tick
  PROVE  GivenUpInv'
<1> USE DEF GivenUpInv, GivenUpBehindAHover, cmdVars, outVars
<1>1. CASE TickInit
  BY <1>1 DEF TickInit
<1>2. CASE TickWait
  BY <1>2 DEF TickWait
<1>3. CASE TickStart
  <2>1. have_target /\ have_target' = have_target
        /\ last_received_sequence' = last_received_sequence
    BY <1>3 DEF TickStart, ExecInv, PendingMission
  <2>2. CASE Ready
    <3>1. local_traj.id = last_received_sequence
      BY <1>3, <2>1, <2>2 DEF TickStart, Ready, TypeInv, ReadyIsFlyable,
         SequenceInv, StoredIsNewest, ExecInv, PendingMission
    <3> QED BY <1>3, <2>1, <2>2, <3>1 DEF TickStart, Publish
  <2>3. CASE ~Ready
    BY <1>3, <2>1, <2>3 DEF TickStart, EnterEmergency
  <2> QED BY <2>2, <2>3
<1>4. CASE TickExec
  BY <1>4 DEF TickExec, GoIdle
<1>5. CASE TickHover
  BY <1>5 DEF TickHover, Publish, ExecInv, PendingMission
<1>6. CASE TickPark
  <2>1. ChainEnable /\ published = Hover
    BY <1>6, ConstantsOK DEF TickPark, ExecInv, PendingMission, HoverCommanded
  <2> QED BY <1>6, <2>1 DEF TickPark, GoIdle
<1> QED BY <1>1, <1>2, <1>3, <1>4, <1>5, <1>6 DEF Tick

\* Whatever the planner, an accepted command is given up unpublished only in
\* chain mode and only behind the hover of EMERGENCY_STOP.
THEOREM GivesUpBehindAHover == SafeSpec => []GivenUpBehindAHover
<1>1. Init => GivenUpInv
  BY DEF Init, GivenUpInv, GivenUpBehindAHover
<1>2. TypeInv /\ SequenceInv /\ ExecInv /\ GivenUpInv /\ [Next]_vars
        => GivenUpInv'
  <2> SUFFICES ASSUME TypeInv, SequenceInv, ExecInv, GivenUpInv, [Next]_vars
               PROVE  GivenUpInv'
    OBVIOUS
  <2> USE DEF GivenUpInv, GivenUpBehindAHover
  <2>1. ASSUME NEW c \in Commands, DropCommand(c) \/ RejectCommand(c)
        PROVE  GivenUpInv'
    BY <2>1 DEF DropCommand, RejectCommand, RollBack, outVars
  <2>2. ASSUME NEW c \in Commands, AcceptCommand(c)
        PROVE  GivenUpInv'
    BY <2>2 DEF AcceptCommand, StateAfterPlan, outVars
  <2>3. CASE TerrainChanges \/ Elapse \/ UNCHANGED vars
    BY <2>3 DEF TerrainChanges, Elapse, vars, fsmVars, cmdVars, outVars
  <2> QED BY <2>1, <2>2, <2>3, TickGivesUpBehindAHover DEF Next
<1> QED BY <1>1, <1>2, TypeInvariant, SequenceInvariant, ExecInvariant, PTL
        DEF SafeSpec, GivenUpInv

-----------------------------------------------------------------------------
(***************************************************************************)
(* Refinement: every step of the machine is a step of MissionLifecycle or  *)
(* leaves its three variables alone.                                       *)
(***************************************************************************)

\* A tick is a step of the operator's view, or shows nothing of it.
LEMMA TickRefines ==
  ASSUME TypeInv, SequenceInv, ExecInv, Tick
  PROVE  Lifecycle!Next \/ UNCHANGED Lifecycle!lifecycleVars
<1> USE DEF Lifecycle!lifecycleVars, lifecyclePhase, cmdVars, outVars
<1>1. CASE TickInit
  BY <1>1 DEF TickInit
<1>2. CASE TickWait
  BY <1>2 DEF TickWait
<1>3. CASE TickStart
  <2>1. have_target /\ have_target' = have_target
        /\ last_received_sequence' = last_received_sequence
    BY <1>3 DEF TickStart, ExecInv, PendingMission
  <2>2. CASE Ready
    <3>1. local_traj.id = last_received_sequence
      BY <1>3, <2>1, <2>2 DEF TickStart, Ready, TypeInv, ReadyIsFlyable,
         SequenceInv, StoredIsNewest, ExecInv, PendingMission
    <3>2. Lifecycle!Fly
      BY <1>3, <2>1, <2>2, <3>1 DEF TickStart, Publish, Lifecycle!Fly
    <3> QED BY <3>2 DEF Lifecycle!Next
  <2>3. CASE ~Ready
    BY <1>3, <2>1, <2>3 DEF TickStart, EnterEmergency
  <2> QED BY <2>2, <2>3
<1>4. CASE TickExec
  <2>1. Lifecycle!Finish
    BY <1>4 DEF TickExec, GoIdle, ExecInv, PendingMission, Lifecycle!Finish
  <2> QED BY <2>1 DEF Lifecycle!Next
<1>5. CASE TickHover
  <2>1. have_target /\ ChainEnable
    BY <1>5, ConstantsOK DEF TickHover, ExecInv, PendingMission
  <2>2. Lifecycle!StopInPlace
    BY <1>5, <2>1 DEF TickHover, Publish, Lifecycle!StopInPlace
  <2> QED BY <2>2 DEF Lifecycle!Next
<1>6. CASE TickPark
  <2>1. have_target /\ ChainEnable /\ published = Hover
    BY <1>6, ConstantsOK DEF TickPark, ExecInv, PendingMission, HoverCommanded
  <2>2. Lifecycle!Abandon
    BY <1>6, <2>1 DEF TickPark, GoIdle, Lifecycle!Abandon
  <2> QED BY <2>2 DEF Lifecycle!Next
<1> QED BY <1>1, <1>2, <1>3, <1>4, <1>5, <1>6 DEF Tick

\* Accepting a command is the operator's Accept.
LEMMA AcceptRefines ==
  ASSUME TypeOK, NEW c \in Commands, AcceptCommand(c)
  PROVE  Lifecycle!Accept
<1>1. /\ last_received_sequence' = c.seq
      /\ c.seq \in (last_received_sequence + 1)..MaxSeq
  BY ConstantsOK DEF AcceptCommand, Fresh, Commands, Seqs, TypeOK
<1>2. lifecyclePhase' = "accepted"
  BY DEF AcceptCommand, StateAfterPlan, lifecyclePhase
<1>3. published' = published
  BY DEF AcceptCommand, outVars
<1> QED BY <1>1, <1>2, <1>3 DEF Lifecycle!Accept

\* The machine implements the operator's lifecycle: in single-shot mode no
\* accepted mission is ever given up, in chain mode only behind a hover.
THEOREM RefinesLifecycle == SafeSpec => ImplementsLifecycle
<1>1. Init => Lifecycle!Init
  BY DEF Init, Lifecycle!Init, lifecyclePhase, NoTraj
<1>2. TypeInv /\ SequenceInv /\ ExecInv /\ [Next]_vars
        => [Lifecycle!Next]_(Lifecycle!lifecycleVars)
  <2> SUFFICES ASSUME TypeInv, SequenceInv, ExecInv, [Next]_vars
               PROVE  Lifecycle!Next \/ UNCHANGED Lifecycle!lifecycleVars
    OBVIOUS
  <2>1. ASSUME NEW c \in Commands, DropCommand(c) \/ RejectCommand(c)
        PROVE  UNCHANGED Lifecycle!lifecycleVars
    BY <2>1 DEF DropCommand, RejectCommand, RollBack, outVars, lifecyclePhase,
                Lifecycle!lifecycleVars
  <2>2. ASSUME NEW c \in Commands, AcceptCommand(c)
        PROVE  Lifecycle!Next
    BY <2>2, AcceptRefines DEF TypeInv, Lifecycle!Next
  <2>3. CASE TerrainChanges
    BY <2>3 DEF TerrainChanges, fsmVars, cmdVars, outVars, lifecyclePhase,
                Lifecycle!lifecycleVars
  <2>4. CASE Elapse
    BY <2>4 DEF Elapse, fsmVars, cmdVars, outVars, lifecyclePhase,
                Lifecycle!lifecycleVars
  <2>5. CASE UNCHANGED vars
    BY <2>5 DEF vars, fsmVars, cmdVars, outVars, lifecyclePhase,
                Lifecycle!lifecycleVars
  <2> QED BY <2>1, <2>2, <2>3, <2>4, <2>5, TickRefines DEF Next
<1> QED BY <1>1, <1>2, TypeInvariant, SequenceInvariant, ExecInvariant, PTL
        DEF SafeSpec, ImplementsLifecycle, Lifecycle!Spec
=============================================================================
