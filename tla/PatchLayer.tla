------------------------------ MODULE PatchLayer ------------------------------
(***************************************************************************)
(* The dynamic obstacle layer of the signed distance field                 *)
(* (sdf_manager.cpp): a vector of analytic patches under a shared mutex,   *)
(* with two escapes that keep the lock off the hot paths.  has_patches is  *)
(* an atomic gate readers test before they lock; a bulk guard holds the    *)
(* lock in shared mode for a whole loop, whose queries then do not lock.   *)
(*                                                                         *)
(* Mutators and readers are threads here, as the class allows; the node    *)
(* itself now runs its obstacle callbacks and its plans in one exclusive   *)
(* callback group.  A patch is the obstacle it was made of; where it is    *)
(* near enough to matter is left out, so a query's answer is the patches   *)
(* it took the minimum over.  Ids count from 1.  X_mutant is a plausible   *)
(* wrong X, used to show that the checks can fail.                         *)
(***************************************************************************)
EXTENDS Integers, Sequences

CONSTANTS
  Planners,     \* threads that query, or hold a bulk guard
  Workers,      \* OpenMP threads of a guard holder's loop
  Writers,      \* threads that add, remove and clear obstacles
  TeamOf,       \* the planner each worker works for
  Obstacles,
  Nobody,       \* the holder of a mutex nobody holds
  Freed,        \* a slot whose patch was removed
  NoAnswer,     \* the result of a query that is still running
  MaxRevision   \* bound on the number of changes

Threads == Planners \cup Workers \cup Writers

ASSUME ThreadAssumption ==
  /\ Nobody \notin Threads
  /\ Planners \cap Workers = {}
  /\ Writers \cap (Planners \cup Workers) = {}
ASSUME TeamAssumption == TeamOf \in [Workers -> Planners]
ASSUME FreedAssumption == Freed \notin Obstacles

VARIABLES
  layer,        \* the static layer: "none", "initialized" or "built"
  patches,      \* the slots: an obstacle, or Freed
  has_patches,  \* the gate
  mutex,        \* its exclusive holder and its shared holders
  guards,       \* the planners inside a bulk guard
  revision,     \* the change counter
  pc,           \* where each thread stands
  op,           \* the change a writer is making
  cursor,       \* the slot a reader's scan has reached
  found,        \* the patches its scan has seen
  answer        \* the result of a thread's last query

layerVars == <<layer, patches, has_patches, revision>>
lockVars == <<mutex, guards>>
readerVars == <<cursor, found, answer>>
vars == <<layerVars, lockVars, pc, op, readerVars>>

NoOp == [name |-> "none"]

Init ==
  /\ layer = "none"
  /\ patches = <<>>
  /\ has_patches = FALSE
  /\ mutex = [writer |-> Nobody, readers |-> {}]
  /\ guards = {}
  /\ revision = 0
  /\ pc = [t \in Threads |-> "idle"]
  /\ op = [t \in Writers |-> NoOp]
  /\ cursor = [t \in Threads |-> 1]
  /\ found = [t \in Threads |-> <<>>]
  /\ answer = [t \in Threads |-> NoAnswer]

GoTo(t, place) == pc' = [pc EXCEPT ![t] = place]

\* The patches of the slots s that are in use, by slot.
InUse(s) == {i \in DOMAIN s : s[i] # Freed}
Active == [i \in InUse(patches) |-> patches[i]]

\* What a reader that begins now can be told.
Visible == IF has_patches THEN Active ELSE <<>>

-----------------------------------------------------------------------------
(* Readers *)

\* The constructor and the destructor of bulkReadGuard's guard.  The parallel
\* loop has joined its workers when the guard goes.
TakeGuard(t) ==
  /\ pc[t] = "idle"
  /\ mutex.writer = Nobody
  /\ mutex' = [mutex EXCEPT !.readers = @ \cup {t}]
  /\ guards' = guards \cup {t}
  /\ GoTo(t, "guard")
  /\ UNCHANGED <<layerVars, op, readerVars>>

ReleaseGuard_mutant(t) ==
  /\ pc[t] = "guard"
  /\ mutex' = [mutex EXCEPT !.readers = @ \ {t}]
  /\ guards' = guards \ {t}
  /\ GoTo(t, "idle")
  /\ UNCHANGED <<layerVars, op, readerVars>>

ReleaseGuard(t) ==
  /\ pc[t] = "guard"
  /\ \A w \in Workers : TeamOf[w] = t => pc[w] = "idle"
  /\ mutex' = [mutex EXCEPT !.readers = @ \ {t}]
  /\ guards' = guards \ {t}
  /\ GoTo(t, "idle")
  /\ UNCHANGED <<layerVars, op, readerVars>>

\* In a guard and in its workers, queries are the *Bulk twins: no lock.
Bulk(t) == t \in Workers \cup guards

\* Where a thread is between its queries.
Rest(t) == IF t \in guards THEN "guard" ELSE "idle"

\* getDistance and getDistanceAndGradient need a built static layer,
\* getDynamicDistance an initialized one; without it they say "infinity".
BeginQuery(t, dynamic) ==
  /\ pc[t] = Rest(t)
  /\ t \in Workers => TeamOf[t] \in guards
  /\ layer = "built" \/ (dynamic /\ layer = "initialized")
  /\ answer' = [answer EXCEPT ![t] = NoAnswer]
  /\ GoTo(t, "gate")
  /\ UNCHANGED <<layerVars, lockVars, op, cursor, found>>

StartScan(t) ==
  /\ cursor' = [cursor EXCEPT ![t] = 1]
  /\ found' = [found EXCEPT ![t] = <<>>]

\* The lock-free fast path when there is no patch.
TestGate(t) ==
  /\ pc[t] = "gate"
  /\ \/ /\ has_patches
        /\ GoTo(t, IF Bulk(t) THEN "scan" ELSE "wait")
        /\ StartScan(t)
        /\ UNCHANGED answer
     \/ /\ ~has_patches
        /\ GoTo(t, Rest(t))
        /\ answer' = [answer EXCEPT ![t] = <<>>]
        /\ UNCHANGED <<cursor, found>>
  /\ UNCHANGED <<layerVars, lockVars, op>>

\* numActiveObstacles locks at once, whatever the gate says.
BeginCount(t) ==
  /\ pc[t] = "idle"
  /\ answer' = [answer EXCEPT ![t] = NoAnswer]
  /\ StartScan(t)
  /\ GoTo(t, "wait")
  /\ UNCHANGED <<layerVars, lockVars, op>>

LockShared_mutant(t) ==
  /\ pc[t] = "wait"
  /\ mutex' = [mutex EXCEPT !.readers = @ \cup {t}]
  /\ GoTo(t, "scan")
  /\ UNCHANGED <<layerVars, guards, op, readerVars>>

LockShared(t) ==
  /\ pc[t] = "wait"
  /\ mutex.writer = Nobody
  /\ mutex' = [mutex EXCEPT !.readers = @ \cup {t}]
  /\ GoTo(t, "scan")
  /\ UNCHANGED <<layerVars, guards, op, readerVars>>

\* One iteration of dynMinNoLock.
ScanPatch(t) ==
  LET i == cursor[t]
      Seen(f) == [j \in DOMAIN f \cup {i} |-> IF j = i THEN patches[i]
                                              ELSE f[j]]
  IN /\ pc[t] = "scan"
     /\ i \in DOMAIN patches
     /\ cursor' = [cursor EXCEPT ![t] = i + 1]
     /\ found' = IF patches[i] = Freed THEN found
                 ELSE [found EXCEPT ![t] = Seen(@)]
     /\ UNCHANGED <<layerVars, lockVars, pc, op, answer>>

\* Past the last slot: the answer stands, and a lock of this query is given
\* up.
EndScan(t) ==
  /\ pc[t] = "scan"
  /\ cursor[t] \notin DOMAIN patches
  /\ answer' = [answer EXCEPT ![t] = found[t]]
  /\ mutex' = IF Bulk(t) THEN mutex ELSE [mutex EXCEPT !.readers = @ \ {t}]
  /\ GoTo(t, Rest(t))
  /\ UNCHANGED <<layerVars, guards, op, cursor, found>>

-----------------------------------------------------------------------------
(* The static layer.  A plan builds it while nobody uses the field. *)

Quiet == \A t \in Threads : pc[t] = "idle"

\* initialize drops the data and keeps the patches.
Initialize ==
  /\ Quiet
  /\ layer' = "initialized"
  /\ UNCHANGED <<patches, has_patches, revision, lockVars, pc, op, readerVars>>

\* buildEmpty after initialize: no voxel is materialized, the patches stay.
BuildEmpty ==
  /\ Quiet
  /\ layer # "none"
  /\ revision < MaxRevision
  /\ layer' = "built"
  /\ revision' = revision + 1
  /\ UNCHANGED <<patches, has_patches, lockVars, pc, op, readerVars>>

-----------------------------------------------------------------------------
(* Writers.  The counter moves before the lock is taken. *)

Bump == revision < MaxRevision /\ revision' = revision + 1

\* addObstacle returns -1 without a built static layer.
AddObstacle(t, o) ==
  /\ pc[t] = "idle"
  /\ Bump
  /\ \/ /\ layer = "built"
        /\ op' = [op EXCEPT ![t] = [name |-> "add", obstacle |-> o]]
        /\ GoTo(t, "lock")
     \/ layer # "built" /\ UNCHANGED <<op, pc>>
  /\ UNCHANGED <<layer, patches, has_patches, lockVars, readerVars>>

RemoveObstacle(t, id) ==
  /\ pc[t] = "idle"
  /\ Bump
  /\ op' = [op EXCEPT ![t] = [name |-> "remove", id |-> id]]
  /\ GoTo(t, "lock")
  /\ UNCHANGED <<layer, patches, has_patches, lockVars, readerVars>>

ClearObstacles(t) ==
  /\ pc[t] = "idle"
  /\ Bump
  /\ op' = [op EXCEPT ![t] = [name |-> "clear"]]
  /\ GoTo(t, "lock")
  /\ UNCHANGED <<layer, patches, has_patches, lockVars, readerVars>>

LockUnique(t) ==
  /\ pc[t] = "lock"
  /\ mutex = [writer |-> Nobody, readers |-> {}]
  /\ mutex' = [mutex EXCEPT !.writer = t]
  /\ GoTo(t, "write")
  /\ UNCHANGED <<layerVars, guards, op, readerVars>>

\* A freed slot is used again before the vector grows.
Added(s, o) ==
  LET free == {i \in DOMAIN s : s[i] = Freed}
  IN IF free = {} THEN Append(s, o)
     ELSE [s EXCEPT ![CHOOSE i \in free : \A j \in free : i <= j] = o]

\* The vector after the change c, and whether the gate is then set.
Changed(s, c) ==
  CASE c.name = "add" -> Added(s, c.obstacle)
    [] c.name = "remove" -> [s EXCEPT ![c.id] = Freed]
    [] c.name = "clear" -> <<>>

SetsGate_mutant(s, c) == c.name \in {"add", "clear", "remove"}

\* An id out of range, and a removal that leaves an active patch, return early.
SetsGate(s, c) ==
  c.name = "remove" => c.id \in DOMAIN s /\ InUse(Changed(s, c)) = {}

Write(t) ==
  LET c == op[t]
  IN /\ pc[t] = "write"
     /\ patches' = IF c.name = "remove" /\ c.id \notin DOMAIN patches
                   THEN patches ELSE Changed(patches, c)
     /\ GoTo(t, IF SetsGate(patches, c) THEN "setGate" ELSE "unlock")
     /\ UNCHANGED <<layer, has_patches, revision, lockVars, op, readerVars>>

SetGate(t) ==
  /\ pc[t] = "setGate"
  /\ has_patches' = (op[t].name = "add")
  /\ GoTo(t, "unlock")
  /\ UNCHANGED <<layer, patches, revision, lockVars, op, readerVars>>

Unlock(t) ==
  /\ pc[t] = "unlock"
  /\ mutex' = [mutex EXCEPT !.writer = Nobody]
  /\ op' = [op EXCEPT ![t] = NoOp]
  /\ GoTo(t, "idle")
  /\ UNCHANGED <<layerVars, guards, readerVars>>

-----------------------------------------------------------------------------

Reader(t) ==
  \/ \E dynamic \in BOOLEAN : BeginQuery(t, dynamic)
  \/ TestGate(t)
  \/ LockShared(t)
  \/ ScanPatch(t)
  \/ EndScan(t)

Writer(t) ==
  \/ \E o \in Obstacles : AddObstacle(t, o)
  \/ \E id \in 0..MaxRevision : RemoveObstacle(t, id)
  \/ ClearObstacles(t)
  \/ LockUnique(t)
  \/ Write(t)
  \/ SetGate(t)
  \/ Unlock(t)

Next ==
  \/ Initialize
  \/ BuildEmpty
  \/ \E t \in Planners : TakeGuard(t) \/ ReleaseGuard(t) \/ BeginCount(t)
  \/ \E t \in Planners \cup Workers : Reader(t)
  \/ \E t \in Writers : Writer(t)

Spec == Init /\ [][Next]_vars

-----------------------------------------------------------------------------
(* Properties *)

\* Nobody is inside dynMinNoLock while a mutator holds the vector: the lock
\* and the guard together cover every scan, the workers' too, so no query
\* reads a vector that is being reallocated or cleared.
NoTornScan ==
  \A t \in Threads : pc[t] = "scan" =>
    /\ mutex.writer = Nobody
    /\ \E r \in mutex.readers : r = t \/ (t \in Workers /\ r = TeamOf[t])

\* Whenever no mutator is inside, the atomic gate says exactly whether there
\* is an active patch: closed, it hides no obstacle; open, it costs a lock
\* only where something is to be found.
GateTellsTheTruth ==
  mutex.writer = Nobody => (has_patches <=> InUse(patches) # {})

\* The lock, the gate and the slots give what one-step changes and queries on
\* a set of obstacles would: each answer is the set held at one moment of its
\* query, a mutator's change shows at one moment, and no id is used twice.
Asked(t) == IF t \in Writers THEN NoAnswer ELSE answer[t]
Set == INSTANCE ObstacleSet WITH
  held <- Visible, answer <- [t \in Threads |-> Asked(t)]
ImplementsObstacleSet == Set!Spec
=============================================================================
