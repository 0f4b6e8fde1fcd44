--------------------------- MODULE MissionLifecycle ---------------------------
(***************************************************************************)
(* What the mission state machine promises to the operator, without its    *)
(* states, flags and callbacks: a mission is accepted, flown and finished, *)
(* in the order of the sequence numbers, and what is on the trajectory     *)
(* topic is the newest accepted mission or a hover.  ReplanFSM implements  *)
(* it (its Lifecycle property).                                            *)
(***************************************************************************)
EXTENDS Integers

CONSTANTS
  MaxSeq,      \* bound: largest sequence number
  Hover,       \* the stop trajectory
  MayAbandon   \* whether an accepted mission may end without being flown

VARIABLES
  phase,       \* "idle", "accepted" or "flying"
  mission,     \* sequence number of the newest accepted mission, -1 if none
  output       \* the trajectory last published

lifecycleVars == <<phase, mission, output>>

Init == phase = "idle" /\ mission = -1 /\ output = -1

\* A newer mission is accepted in any phase and supersedes the current one.
Accept ==
  /\ \E s \in (mission + 1)..MaxSeq : mission' = s
  /\ phase' = "accepted"
  /\ UNCHANGED output

Fly ==
  /\ phase = "accepted"
  /\ phase' = "flying"
  /\ output' = mission
  /\ UNCHANGED mission

Finish ==
  /\ phase = "flying"
  /\ phase' = "idle"
  /\ UNCHANGED <<mission, output>>

\* The hover goes out first, then the mission is given up.
StopInPlace ==
  /\ MayAbandon
  /\ phase = "accepted"
  /\ output' = Hover
  /\ UNCHANGED <<phase, mission>>

Abandon ==
  /\ MayAbandon
  /\ phase = "accepted"
  /\ output = Hover
  /\ phase' = "idle"
  /\ UNCHANGED <<mission, output>>

Next == Accept \/ Fly \/ Finish \/ StopInPlace \/ Abandon

Spec == Init /\ [][Next]_lifecycleVars
=============================================================================
