------------------------- MODULE PatchLayer_proofs -------------------------
(***************************************************************************)
(* Proofs about PatchLayer for any number of threads, obstacles and        *)
(* changes: no scan meets a writer, the gate tells the truth, and what     *)
(* readers are told is what ObstacleSet promises.                          *)
(*                                                                         *)
(* The inductive invariant follows the lock through the threads: whoever   *)
(* is past LockUnique is its exclusive holder, its shared holders are the  *)
(* guards and the scans that took it, a team works only under its guard;   *)
(* and it says what a writer leaves behind at each of its places.          *)
(***************************************************************************)
EXTENDS PatchLayer, TLAPS, WellFoundedInduction

Readers == Planners \cup Workers
Slot == Obstacles \cup {Freed}

Changes == {NoOp} \cup [name : {"add"}, obstacle : Obstacles]
                  \cup [name : {"remove"}, id : Nat]
                  \cup [name : {"clear"}]

Typing ==
  /\ patches \in Seq(Slot)
  /\ has_patches \in BOOLEAN
  /\ mutex \in [writer : Writers \cup {Nobody}, readers : SUBSET Planners]
  /\ guards \in SUBSET Planners
  /\ revision \in Nat
  /\ pc \in [Threads -> {"idle", "guard", "gate", "wait", "scan", "lock",
                         "write", "setGate", "unlock"}]
  /\ op \in [Writers -> Changes]
  /\ cursor \in [Threads -> Nat \ {0}]
  /\ DOMAIN found = Threads
  /\ DOMAIN answer = Threads

\* Where a thread of each kind can stand.
Places ==
  /\ \A t \in Planners :
       /\ pc[t] \in {"idle", "guard", "gate", "wait", "scan"}
       /\ t \in guards => pc[t] \in {"guard", "gate", "scan"}
       /\ t \notin guards => pc[t] # "guard"
  /\ \A t \in Workers : pc[t] \in {"idle", "gate", "scan"}
  /\ \A t \in Writers :
       /\ pc[t] \in {"idle", "lock", "write", "setGate", "unlock"}
       /\ pc[t] \in {"lock", "write", "setGate"} => op[t].name # "none"

\* Who holds the lock, and how.
Holders ==
  /\ \A t \in Writers :
       pc[t] \in {"write", "setGate", "unlock"} <=> mutex.writer = t
  /\ mutex.writer # Nobody => mutex.readers = {}
  /\ mutex.readers =
       guards \cup {t \in Planners : t \notin guards /\ pc[t] = "scan"}
  /\ \A t \in Workers : pc[t] # "idle" => TeamOf[t] \in guards

\* The gate is wrong only between a writer's change and its SetGate, and there
\* it is the writer's to put right.
GateInv ==
  /\ (\A t \in Writers : pc[t] # "setGate") =>
       (has_patches <=> InUse(patches) # {})
  /\ \A t \in Writers : pc[t] = "setGate" =>
       /\ op[t].name = "add" =>
            /\ InUse(patches) # {}
            /\ ~has_patches =>
                 \E i \in DOMAIN patches :
                   InUse(patches) = {i} /\ patches[i] = op[t].obstacle
       /\ op[t].name # "add" => InUse(patches) = {}

\* A scan has seen the used slots before its cursor.
Scanned(s, n) == [i \in InUse(s) \cap 1..(n - 1) |-> s[i]]
With(f, n, x) == [j \in DOMAIN f \cup {n} |-> IF j = n THEN x ELSE f[j]]

ScanInv ==
  \A t \in Readers : pc[t] = "scan" =>
    /\ cursor[t] <= Len(patches) + 1
    /\ found[t] = Scanned(patches, cursor[t])

\* What StartScan left for a query that still waits for the lock.
WaitInv ==
  \A t \in Planners : pc[t] = "wait" => cursor[t] = 1 /\ found[t] = <<>>

IInv == Typing /\ Places /\ Holders /\ GateInv /\ ScanInv /\ WaitInv
-----------------------------------------------------------------------------
(***************************************************************************)
(* The slots.                                                              *)
(***************************************************************************)

\* A nonempty set of naturals has a least element.
LEMMA LeastNatural ==
  ASSUME NEW S \in SUBSET Nat, S # {}
  PROVE  \E i \in S : \A j \in S : i <= j
  <1> DEFINE R == OpToRel(<, Nat)
  <1>1. \E i \in S : \A j \in S : ~ (<<j, i>> \in R)
    BY NatLessThanWellFounded, WFMin
  <1>2. \A i, j \in Nat : j < i => <<j, i>> \in R
    BY DEF OpToRel
  <1>3. PICK i \in S : \A j \in S : ~ (<<j, i>> \in R)
    BY <1>1
  <1>4. ASSUME NEW j \in S PROVE i <= j
    <2>1. ~ (j < i)
      BY <1>2, <1>3
    <2> QED
      BY <2>1
  <1> QED
    BY <1>4

\* An obstacle is added under one id that was free; no other slot changes.
LEMMA AddedSlots ==
  ASSUME NEW s \in Seq(Slot), NEW o \in Obstacles
  PROVE  /\ Added(s, o) \in Seq(Slot)
         /\ \E i \in DOMAIN Added(s, o) :
              /\ i \notin InUse(s)
              /\ InUse(Added(s, o)) = InUse(s) \cup {i}
              /\ Added(s, o)[i] = o
              /\ \A j \in InUse(s) : Added(s, o)[j] = s[j]
  <1> DEFINE free == {i \in DOMAIN s : s[i] = Freed}
  <1>1. CASE free = {}
    <2>1. Added(s, o) = Append(s, o)
      BY <1>1 DEF Added
    <2> QED
      BY <2>1, FreedAssumption DEF InUse, Slot
  <1>2. CASE free # {}
    <2> DEFINE i == CHOOSE k \in free : \A j \in free : k <= j
    <2>1. free \in SUBSET Nat
      OBVIOUS
    <2>2. \E k \in free : \A j \in free : k <= j
      BY <1>2, <2>1, LeastNatural
    <2>3. i \in free
      BY <2>2
    <2>4. Added(s, o) = [s EXCEPT ![i] = o]
      BY <1>2 DEF Added
    <2> HIDE DEF i
    <2> QED
      BY <2>3, <2>4, FreedAssumption DEF InUse, Slot
  <1> QED
    BY <1>1, <1>2

\* A removal frees its slot and keeps the others.
LEMMA RemovedSlots ==
  ASSUME NEW s \in Seq(Slot), NEW id \in DOMAIN s
  PROVE  /\ [s EXCEPT ![id] = Freed] \in Seq(Slot)
         /\ InUse([s EXCEPT ![id] = Freed]) = InUse(s) \ {id}
         /\ \A j \in InUse(s) \ {id} : [s EXCEPT ![id] = Freed][j] = s[j]
  BY DEF InUse, Slot

\* A writer past its first step knows what it changes.
LEMMA ChangeKinds ==
  ASSUME NEW c \in Changes, c.name # "none"
  PROVE  \/ c.name = "add" /\ c.obstacle \in Obstacles
         \/ c.name = "remove" /\ c.id \in Nat
         \/ c.name = "clear"
  BY DEF Changes, NoOp

\* A mutation leaves a vector of slots.
LEMMA ChangedSlots ==
  ASSUME NEW s \in Seq(Slot), NEW c \in Changes, c.name # "none",
         c.name = "remove" => c.id \in DOMAIN s
  PROVE  Changed(s, c) \in Seq(Slot)
  <1>1. CASE c.name = "add"
    BY <1>1, ChangeKinds, AddedSlots DEF Changed
  <1>2. CASE c.name = "remove"
    BY <1>2, RemovedSlots DEF Changed
  <1>3. CASE c.name = "clear"
    BY <1>3 DEF Changed
  <1> QED
    BY <1>1, <1>2, <1>3, ChangeKinds

\* What a scan has seen: nothing at its start, one slot more after each, all
\* past the last.
LEMMA NothingScanned ==
  ASSUME NEW s \in Seq(Slot)
  PROVE  Scanned(s, 1) = <<>>
  <1>1. InUse(s) \cap 1..(1 - 1) = {}
    OBVIOUS
  <1>2. \A f : DOMAIN f = {} /\ f = [i \in DOMAIN f |-> f[i]] => f = <<>>
    OBVIOUS
  <1> QED
    BY <1>1, <1>2 DEF Scanned

\* A scan's next slot adds that slot if it is in use.
LEMMA OneMoreScanned ==
  ASSUME NEW s \in Seq(Slot), NEW n \in DOMAIN s
  PROVE  /\ s[n] = Freed => Scanned(s, n + 1) = Scanned(s, n)
         /\ s[n] # Freed => Scanned(s, n + 1) = With(Scanned(s, n), n, s[n])
  <1> DEFINE seen == InUse(s) \cap 1..(n - 1)
  <1>1. InUse(s) \cap 1..(n + 1 - 1) =
          IF s[n] = Freed THEN seen ELSE seen \cup {n}
    BY DEF InUse
  <1>2. CASE s[n] = Freed
    BY <1>1, <1>2 DEF Scanned
  <1>3. CASE s[n] # Freed
    <2>1. Scanned(s, n + 1) = [i \in seen \cup {n} |-> s[i]]
      BY <1>1, <1>3 DEF Scanned
    <2>2. Scanned(s, n) = [i \in seen |-> s[i]]
      BY DEF Scanned
    <2> HIDE DEF seen
    <2> QED
      BY <1>3, <2>1, <2>2 DEF With
  <1> QED
    BY <1>2, <1>3

\* A scan past the last slot has seen everything in use.
LEMMA AllScanned ==
  ASSUME NEW s \in Seq(Slot)
  PROVE  Scanned(s, Len(s) + 1) = [i \in InUse(s) |-> s[i]]
  <1>1. InUse(s) \cap 1..(Len(s) + 1 - 1) = InUse(s)
    BY DEF InUse
  <1> QED
    BY <1>1 DEF Scanned

-----------------------------------------------------------------------------
(***************************************************************************)
(* Every step keeps the parts of the invariant.                            *)
(***************************************************************************)

\* Every variable keeps its range.
LEMMA TypingStep ==
  ASSUME Typing, Places, [Next]_vars
  PROVE  Typing'
  <1> USE DEF Typing, Places, Slot, Changes, NoOp, GoTo, Rest, Bulk, Bump,
      StartScan, vars, layerVars, lockVars, readerVars, Threads, Readers
  <1>1. CASE Initialize
    BY <1>1 DEF Initialize
  <1>2. CASE BuildEmpty
    BY <1>2 DEF BuildEmpty
  <1>3. ASSUME NEW t \in Planners, TakeGuard(t)
        PROVE  Typing'
    BY <1>3 DEF TakeGuard
  <1>4. ASSUME NEW t \in Planners, ReleaseGuard(t)
        PROVE  Typing'
    BY <1>4 DEF ReleaseGuard
  <1>5. ASSUME NEW t \in Planners, BeginCount(t)
        PROVE  Typing'
    BY <1>5 DEF BeginCount
  <1>6. ASSUME NEW t \in Readers, NEW dynamic \in BOOLEAN,
               BeginQuery(t, dynamic)
        PROVE  Typing'
    <2>1. patches' \in Seq(Slot) /\ has_patches' \in BOOLEAN /\ revision' \in Nat
      BY <1>6 DEF BeginQuery
    <2>2. /\ mutex' \in [writer : Writers \cup {Nobody}, readers : SUBSET Planners]
         /\ guards' \in SUBSET Planners
      BY <1>6 DEF BeginQuery
    <2>3. pc' \in [Threads -> {"idle", "guard", "gate", "wait", "scan",
                             "lock", "write", "setGate", "unlock"}]
      BY <1>6 DEF BeginQuery
    <2>4. op' \in [Writers -> Changes]
      BY <1>6 DEF BeginQuery
    <2>5. /\ cursor' \in [Threads -> Nat \ {0}]
         /\ DOMAIN found' = Threads /\ DOMAIN answer' = Threads
      BY <1>6 DEF BeginQuery
    <2> QED
      BY <2>1, <2>2, <2>3, <2>4, <2>5
  <1>7. ASSUME NEW t \in Readers, TestGate(t)
        PROVE  Typing'
    <2>1. patches' \in Seq(Slot) /\ has_patches' \in BOOLEAN /\ revision' \in Nat
      BY <1>7 DEF TestGate
    <2>2. /\ mutex' \in [writer : Writers \cup {Nobody}, readers : SUBSET Planners]
         /\ guards' \in SUBSET Planners
      BY <1>7 DEF TestGate
    <2>3. pc' \in [Threads -> {"idle", "guard", "gate", "wait", "scan",
                             "lock", "write", "setGate", "unlock"}]
      BY <1>7 DEF TestGate
    <2>4. op' \in [Writers -> Changes]
      BY <1>7 DEF TestGate
    <2>5. /\ cursor' \in [Threads -> Nat \ {0}]
         /\ DOMAIN found' = Threads /\ DOMAIN answer' = Threads
      BY <1>7 DEF TestGate
    <2> QED
      BY <2>1, <2>2, <2>3, <2>4, <2>5
  <1>8. ASSUME NEW t \in Readers, LockShared(t)
        PROVE  Typing'
    <2>1. patches' \in Seq(Slot) /\ has_patches' \in BOOLEAN /\ revision' \in Nat
      BY <1>8 DEF LockShared
    <2>2. /\ mutex' \in [writer : Writers \cup {Nobody}, readers : SUBSET Planners]
         /\ guards' \in SUBSET Planners
      BY <1>8 DEF LockShared
    <2>3. pc' \in [Threads -> {"idle", "guard", "gate", "wait", "scan",
                             "lock", "write", "setGate", "unlock"}]
      BY <1>8 DEF LockShared
    <2>4. op' \in [Writers -> Changes]
      BY <1>8 DEF LockShared
    <2>5. /\ cursor' \in [Threads -> Nat \ {0}]
         /\ DOMAIN found' = Threads /\ DOMAIN answer' = Threads
      BY <1>8 DEF LockShared
    <2> QED
      BY <2>1, <2>2, <2>3, <2>4, <2>5
  <1>9. ASSUME NEW t \in Readers, ScanPatch(t)
        PROVE  Typing'
    <2>1. patches' \in Seq(Slot) /\ has_patches' \in BOOLEAN /\ revision' \in Nat
      BY <1>9 DEF ScanPatch
    <2>2. /\ mutex' \in [writer : Writers \cup {Nobody}, readers : SUBSET Planners]
         /\ guards' \in SUBSET Planners
      BY <1>9 DEF ScanPatch
    <2>3. pc' \in [Threads -> {"idle", "guard", "gate", "wait", "scan",
                             "lock", "write", "setGate", "unlock"}]
      BY <1>9 DEF ScanPatch
    <2>4. op' \in [Writers -> Changes]
      BY <1>9 DEF ScanPatch
    <2>5. /\ cursor' \in [Threads -> Nat \ {0}]
         /\ DOMAIN found' = Threads /\ DOMAIN answer' = Threads
      BY <1>9 DEF ScanPatch
    <2> QED
      BY <2>1, <2>2, <2>3, <2>4, <2>5
  <1>10. ASSUME NEW t \in Readers, EndScan(t)
        PROVE  Typing'
    <2>1. patches' \in Seq(Slot) /\ has_patches' \in BOOLEAN /\ revision' \in Nat
      BY <1>10 DEF EndScan
    <2>2. /\ mutex' \in [writer : Writers \cup {Nobody}, readers : SUBSET Planners]
         /\ guards' \in SUBSET Planners
      BY <1>10 DEF EndScan
    <2>3. pc' \in [Threads -> {"idle", "guard", "gate", "wait", "scan",
                             "lock", "write", "setGate", "unlock"}]
      BY <1>10 DEF EndScan
    <2>4. op' \in [Writers -> Changes]
      BY <1>10 DEF EndScan
    <2>5. /\ cursor' \in [Threads -> Nat \ {0}]
         /\ DOMAIN found' = Threads /\ DOMAIN answer' = Threads
      BY <1>10 DEF EndScan
    <2> QED
      BY <2>1, <2>2, <2>3, <2>4, <2>5
  <1>11. ASSUME NEW t \in Writers, NEW o \in Obstacles, AddObstacle(t, o)
        PROVE  Typing'
    <2>1. patches' \in Seq(Slot) /\ has_patches' \in BOOLEAN /\ revision' \in Nat
      BY <1>11 DEF AddObstacle
    <2>2. /\ mutex' \in [writer : Writers \cup {Nobody}, readers : SUBSET Planners]
         /\ guards' \in SUBSET Planners
      BY <1>11 DEF AddObstacle
    <2>3. pc' \in [Threads -> {"idle", "guard", "gate", "wait", "scan",
                             "lock", "write", "setGate", "unlock"}]
      BY <1>11 DEF AddObstacle
    <2>4. op' \in [Writers -> Changes]
      BY <1>11 DEF AddObstacle
    <2>5. /\ cursor' \in [Threads -> Nat \ {0}]
         /\ DOMAIN found' = Threads /\ DOMAIN answer' = Threads
      BY <1>11 DEF AddObstacle
    <2> QED
      BY <2>1, <2>2, <2>3, <2>4, <2>5
  <1>12. ASSUME NEW t \in Writers, NEW id \in 0..MaxRevision,
                RemoveObstacle(t, id)
        PROVE  Typing'
    <2>1. patches' \in Seq(Slot) /\ has_patches' \in BOOLEAN /\ revision' \in Nat
      BY <1>12 DEF RemoveObstacle
    <2>2. /\ mutex' \in [writer : Writers \cup {Nobody}, readers : SUBSET Planners]
         /\ guards' \in SUBSET Planners
      BY <1>12 DEF RemoveObstacle
    <2>3. pc' \in [Threads -> {"idle", "guard", "gate", "wait", "scan",
                             "lock", "write", "setGate", "unlock"}]
      BY <1>12 DEF RemoveObstacle
    <2>4. op' \in [Writers -> Changes]
      BY <1>12 DEF RemoveObstacle
    <2>5. /\ cursor' \in [Threads -> Nat \ {0}]
         /\ DOMAIN found' = Threads /\ DOMAIN answer' = Threads
      BY <1>12 DEF RemoveObstacle
    <2> QED
      BY <2>1, <2>2, <2>3, <2>4, <2>5
  <1>13. ASSUME NEW t \in Writers, ClearObstacles(t)
        PROVE  Typing'
    <2>1. patches' \in Seq(Slot) /\ has_patches' \in BOOLEAN /\ revision' \in Nat
      BY <1>13 DEF ClearObstacles
    <2>2. /\ mutex' \in [writer : Writers \cup {Nobody}, readers : SUBSET Planners]
         /\ guards' \in SUBSET Planners
      BY <1>13 DEF ClearObstacles
    <2>3. pc' \in [Threads -> {"idle", "guard", "gate", "wait", "scan",
                             "lock", "write", "setGate", "unlock"}]
      BY <1>13 DEF ClearObstacles
    <2>4. op' \in [Writers -> Changes]
      BY <1>13 DEF ClearObstacles
    <2>5. /\ cursor' \in [Threads -> Nat \ {0}]
         /\ DOMAIN found' = Threads /\ DOMAIN answer' = Threads
      BY <1>13 DEF ClearObstacles
    <2> QED
      BY <2>1, <2>2, <2>3, <2>4, <2>5
  <1>14. ASSUME NEW t \in Writers, LockUnique(t)
        PROVE  Typing'
    BY <1>14 DEF LockUnique
  <1>15. ASSUME NEW t \in Writers, Write(t)
        PROVE  Typing'
    <2>1. patches' \in Seq(Slot) /\ has_patches' \in BOOLEAN /\ revision' \in Nat
      BY <1>15, ChangedSlots DEF Write
    <2>2. /\ mutex' \in [writer : Writers \cup {Nobody}, readers : SUBSET Planners]
         /\ guards' \in SUBSET Planners
      BY <1>15 DEF Write
    <2>3. pc' \in [Threads -> {"idle", "guard", "gate", "wait", "scan",
                             "lock", "write", "setGate", "unlock"}]
      BY <1>15 DEF Write
    <2>4. op' \in [Writers -> Changes]
      BY <1>15, ChangedSlots DEF Write
    <2>5. /\ cursor' \in [Threads -> Nat \ {0}]
         /\ DOMAIN found' = Threads /\ DOMAIN answer' = Threads
      BY <1>15 DEF Write
    <2> QED
      BY <2>1, <2>2, <2>3, <2>4, <2>5
  <1>16. ASSUME NEW t \in Writers, SetGate(t)
        PROVE  Typing'
    <2>1. patches' \in Seq(Slot) /\ has_patches' \in BOOLEAN /\ revision' \in Nat
      BY <1>16 DEF SetGate
    <2>2. /\ mutex' \in [writer : Writers \cup {Nobody}, readers : SUBSET Planners]
         /\ guards' \in SUBSET Planners
      BY <1>16 DEF SetGate
    <2>3. pc' \in [Threads -> {"idle", "guard", "gate", "wait", "scan",
                             "lock", "write", "setGate", "unlock"}]
      BY <1>16 DEF SetGate
    <2>4. op' \in [Writers -> Changes]
      BY <1>16 DEF SetGate
    <2>5. /\ cursor' \in [Threads -> Nat \ {0}]
         /\ DOMAIN found' = Threads /\ DOMAIN answer' = Threads
      BY <1>16 DEF SetGate
    <2> QED
      BY <2>1, <2>2, <2>3, <2>4, <2>5
  <1>17. ASSUME NEW t \in Writers, Unlock(t)
        PROVE  Typing'
    <2>1. patches' \in Seq(Slot) /\ has_patches' \in BOOLEAN /\ revision' \in Nat
      BY <1>17 DEF Unlock
    <2>2. /\ mutex' \in [writer : Writers \cup {Nobody}, readers : SUBSET Planners]
         /\ guards' \in SUBSET Planners
      BY <1>17 DEF Unlock
    <2>3. pc' \in [Threads -> {"idle", "guard", "gate", "wait", "scan",
                             "lock", "write", "setGate", "unlock"}]
      BY <1>17 DEF Unlock
    <2>4. op' \in [Writers -> Changes]
      BY <1>17 DEF Unlock
    <2>5. /\ cursor' \in [Threads -> Nat \ {0}]
         /\ DOMAIN found' = Threads /\ DOMAIN answer' = Threads
      BY <1>17 DEF Unlock
    <2> QED
      BY <2>1, <2>2, <2>3, <2>4, <2>5
  <1>18. CASE UNCHANGED vars
    BY <1>18
  <1> HIDE DEF Typing, Places, Slot, Changes, NoOp, GoTo, Rest, Bulk, Bump,
      StartScan, vars, layerVars, lockVars, readerVars, Threads
  <1> QED
    BY <1>1, <1>2, <1>3, <1>4, <1>5, <1>6, <1>7, <1>8, <1>9, <1>10, <1>11,
      <1>12, <1>13, <1>14, <1>15, <1>16, <1>17, <1>18
      DEF Next, Reader, Writer

\* Every thread keeps to its own places.
LEMMA PlacesStep ==
  ASSUME Typing, Places, [Next]_vars
  PROVE  Places'
  <1> USE DEF Typing, Places, NoOp, GoTo, Rest, Bulk, Bump, StartScan, vars,
      layerVars, lockVars, readerVars, Threads, Readers
  <1>1. CASE Initialize
    BY <1>1, ThreadAssumption DEF Initialize
  <1>2. CASE BuildEmpty
    BY <1>2, ThreadAssumption DEF BuildEmpty
  <1>3. ASSUME NEW t \in Planners, TakeGuard(t)
        PROVE  Places'
    BY <1>3, ThreadAssumption DEF TakeGuard
  <1>4. ASSUME NEW t \in Planners, ReleaseGuard(t)
        PROVE  Places'
    BY <1>4, ThreadAssumption DEF ReleaseGuard
  <1>5. ASSUME NEW t \in Planners, BeginCount(t)
        PROVE  Places'
    BY <1>5, ThreadAssumption DEF BeginCount
  <1>6. ASSUME NEW t \in Readers, NEW dynamic \in BOOLEAN,
               BeginQuery(t, dynamic)
        PROVE  Places'
    BY <1>6, ThreadAssumption DEF BeginQuery
  <1>7. ASSUME NEW t \in Readers, TestGate(t)
        PROVE  Places'
    <2>1. pc' = [pc EXCEPT ![t] = "scan"] \/ pc' = [pc EXCEPT ![t] = "wait"]
            \/ pc' = [pc EXCEPT ![t] = Rest(t)]
      BY <1>7 DEF TestGate
    <2>2. pc'[t] = "wait" => t \in Planners \ guards
      BY <1>7, <2>1 DEF TestGate
    <2>3. pc[t] = "gate" /\ UNCHANGED <<op, guards>>
      BY <1>7 DEF TestGate
    <2> QED
      BY <2>1, <2>2, <2>3, ThreadAssumption
  <1>8. ASSUME NEW t \in Readers, LockShared(t)
        PROVE  Places'
    BY <1>8, ThreadAssumption DEF LockShared
  <1>9. ASSUME NEW t \in Readers, ScanPatch(t)
        PROVE  Places'
    BY <1>9, ThreadAssumption DEF ScanPatch
  <1>10. ASSUME NEW t \in Readers, EndScan(t)
        PROVE  Places'
    BY <1>10, ThreadAssumption DEF EndScan
  <1>11. ASSUME NEW t \in Writers, NEW o \in Obstacles, AddObstacle(t, o)
        PROVE  Places'
    <2>1. CASE layer = "built" /\ GoTo(t, "lock")
      BY <1>11, <2>1, ThreadAssumption DEF AddObstacle
    <2>2. CASE UNCHANGED <<op, pc>>
      BY <1>11, <2>2, ThreadAssumption DEF AddObstacle
    <2> QED
      BY <1>11, <2>1, <2>2 DEF AddObstacle
  <1>12. ASSUME NEW t \in Writers, NEW id \in 0..MaxRevision,
                RemoveObstacle(t, id)
        PROVE  Places'
    BY <1>12, ThreadAssumption DEF RemoveObstacle
  <1>13. ASSUME NEW t \in Writers, ClearObstacles(t)
        PROVE  Places'
    BY <1>13, ThreadAssumption DEF ClearObstacles
  <1>14. ASSUME NEW t \in Writers, LockUnique(t)
        PROVE  Places'
    BY <1>14, ThreadAssumption DEF LockUnique
  <1>15. ASSUME NEW t \in Writers, Write(t)
        PROVE  Places'
    BY <1>15, ThreadAssumption DEF Write
  <1>16. ASSUME NEW t \in Writers, SetGate(t)
        PROVE  Places'
    BY <1>16, ThreadAssumption DEF SetGate
  <1>17. ASSUME NEW t \in Writers, Unlock(t)
        PROVE  Places'
    BY <1>17, ThreadAssumption DEF Unlock
  <1>18. CASE UNCHANGED vars
    BY <1>18, ThreadAssumption
  <1> HIDE DEF Typing, Places, NoOp, GoTo, Rest, Bulk, Bump, StartScan, vars,
      layerVars, lockVars, readerVars, Threads
  <1> QED
    BY <1>1, <1>2, <1>3, <1>4, <1>5, <1>6, <1>7, <1>8, <1>9, <1>10, <1>11,
      <1>12, <1>13, <1>14, <1>15, <1>16, <1>17, <1>18
      DEF Next, Reader, Writer

\* The lock has one writer or its readers.
LEMMA HoldersStep ==
  ASSUME Typing, Places, Holders, [Next]_vars
  PROVE  Holders'
  <1> USE DEF Typing, Places, Holders, GoTo, Rest, Bulk, Bump, StartScan,
      vars, layerVars, lockVars, readerVars, Threads, Readers
  <1>1. CASE Initialize
    BY <1>1, ThreadAssumption, TeamAssumption DEF Initialize
  <1>2. CASE BuildEmpty
    BY <1>2, ThreadAssumption, TeamAssumption DEF BuildEmpty
  <1>3. ASSUME NEW t \in Planners, TakeGuard(t)
        PROVE  Holders'
    BY <1>3, ThreadAssumption, TeamAssumption DEF TakeGuard
  <1>4. ASSUME NEW t \in Planners, ReleaseGuard(t)
        PROVE  Holders'
    BY <1>4, ThreadAssumption, TeamAssumption DEF ReleaseGuard
  <1>5. ASSUME NEW t \in Planners, BeginCount(t)
        PROVE  Holders'
    BY <1>5, ThreadAssumption, TeamAssumption DEF BeginCount
  <1>6. ASSUME NEW t \in Readers, NEW dynamic \in BOOLEAN,
               BeginQuery(t, dynamic)
        PROVE  Holders'
    BY <1>6, ThreadAssumption, TeamAssumption DEF BeginQuery
  <1>7. ASSUME NEW t \in Readers, TestGate(t)
        PROVE  Holders'
    BY <1>7, ThreadAssumption, TeamAssumption DEF TestGate
  <1>8. ASSUME NEW t \in Readers, LockShared(t)
        PROVE  Holders'
    BY <1>8, ThreadAssumption, TeamAssumption DEF LockShared
  <1>9. ASSUME NEW t \in Readers, ScanPatch(t)
        PROVE  Holders'
    BY <1>9, ThreadAssumption, TeamAssumption DEF ScanPatch
  <1>10. ASSUME NEW t \in Readers, EndScan(t)
        PROVE  Holders'
    BY <1>10, ThreadAssumption, TeamAssumption DEF EndScan
  <1>11. ASSUME NEW t \in Writers, NEW o \in Obstacles, AddObstacle(t, o)
        PROVE  Holders'
    BY <1>11, ThreadAssumption, TeamAssumption DEF AddObstacle
  <1>12. ASSUME NEW t \in Writers, NEW id \in 0..MaxRevision,
                RemoveObstacle(t, id)
        PROVE  Holders'
    BY <1>12, ThreadAssumption, TeamAssumption DEF RemoveObstacle
  <1>13. ASSUME NEW t \in Writers, ClearObstacles(t)
        PROVE  Holders'
    BY <1>13, ThreadAssumption, TeamAssumption DEF ClearObstacles
  <1>14. ASSUME NEW t \in Writers, LockUnique(t)
        PROVE  Holders'
    BY <1>14, ThreadAssumption, TeamAssumption DEF LockUnique
  <1>15. ASSUME NEW t \in Writers, Write(t)
        PROVE  Holders'
    BY <1>15, ThreadAssumption, TeamAssumption DEF Write
  <1>16. ASSUME NEW t \in Writers, SetGate(t)
        PROVE  Holders'
    BY <1>16, ThreadAssumption, TeamAssumption DEF SetGate
  <1>17. ASSUME NEW t \in Writers, Unlock(t)
        PROVE  Holders'
    BY <1>17, ThreadAssumption, TeamAssumption DEF Unlock
  <1>18. CASE UNCHANGED vars
    BY <1>18, ThreadAssumption, TeamAssumption
  <1> HIDE DEF Typing, Places, Holders, GoTo, Rest, Bulk, Bump, StartScan,
      vars, layerVars, lockVars, readerVars, Threads
  <1> QED
    BY <1>1, <1>2, <1>3, <1>4, <1>5, <1>6, <1>7, <1>8, <1>9, <1>10, <1>11,
      <1>12, <1>13, <1>14, <1>15, <1>16, <1>17, <1>18
      DEF Next, Reader, Writer

\* While a writer is past its lock nobody scans.
LEMMA NobodyScans ==
  ASSUME Typing, Places, Holders,
         NEW t \in Writers, pc[t] \in {"write", "setGate", "unlock"}
  PROVE  /\ \A r \in Readers : pc[r] # "scan"
         /\ \A w \in Writers \ {t} : pc[w] \notin {"write", "setGate", "unlock"}
  <1>1. mutex.writer = t
    BY DEF Holders
  <1>2. mutex.readers = {}
    BY <1>1, ThreadAssumption DEF Holders, Threads
  <1>3. guards = {} /\ \A r \in Planners : pc[r] # "scan"
    BY <1>2 DEF Holders
  <1>4. \A w \in Workers : pc[w] # "scan"
    BY <1>3 DEF Holders
  <1> QED
    BY <1>1, <1>3, <1>4 DEF Holders, Readers

\* A writer that makes the gate lie is the one that puts it right.
LEMMA GateStep ==
  ASSUME Typing, Places, Holders, GateInv, [Next]_vars
  PROVE  GateInv'
  <1> USE DEF Typing, Places, GateInv, GoTo, Rest, Bulk, Bump, StartScan,
      vars, layerVars, lockVars, readerVars, Threads, Readers
  <1>1. CASE Initialize
    BY <1>1, ThreadAssumption DEF Initialize
  <1>2. CASE BuildEmpty
    BY <1>2, ThreadAssumption DEF BuildEmpty
  <1>3. ASSUME NEW t \in Planners, TakeGuard(t)
        PROVE  GateInv'
    BY <1>3, ThreadAssumption DEF TakeGuard
  <1>4. ASSUME NEW t \in Planners, ReleaseGuard(t)
        PROVE  GateInv'
    BY <1>4, ThreadAssumption DEF ReleaseGuard
  <1>5. ASSUME NEW t \in Planners, BeginCount(t)
        PROVE  GateInv'
    BY <1>5, ThreadAssumption DEF BeginCount
  <1>6. ASSUME NEW t \in Readers, NEW dynamic \in BOOLEAN,
               BeginQuery(t, dynamic)
        PROVE  GateInv'
    BY <1>6, ThreadAssumption DEF BeginQuery
  <1>7. ASSUME NEW t \in Readers, TestGate(t)
        PROVE  GateInv'
    BY <1>7, ThreadAssumption DEF TestGate
  <1>8. ASSUME NEW t \in Readers, LockShared(t)
        PROVE  GateInv'
    BY <1>8, ThreadAssumption DEF LockShared
  <1>9. ASSUME NEW t \in Readers, ScanPatch(t)
        PROVE  GateInv'
    BY <1>9, ThreadAssumption DEF ScanPatch
  <1>10. ASSUME NEW t \in Readers, EndScan(t)
        PROVE  GateInv'
    BY <1>10, ThreadAssumption DEF EndScan
  <1>11. ASSUME NEW t \in Writers, NEW o \in Obstacles, AddObstacle(t, o)
        PROVE  GateInv'
    <2>1. UNCHANGED <<patches, has_patches>> /\ pc[t] = "idle"
      BY <1>11 DEF AddObstacle
    <2>2. CASE /\ pc' = [pc EXCEPT ![t] = "lock"]
               /\ op' = [op EXCEPT ![t] = [name |-> "add", obstacle |-> o]]
      BY <2>1, <2>2
    <2>3. CASE UNCHANGED <<op, pc>>
      BY <2>1, <2>3
    <2> QED
      BY <1>11, <2>2, <2>3 DEF AddObstacle
  <1>12. ASSUME NEW t \in Writers, NEW id \in 0..MaxRevision,
                RemoveObstacle(t, id)
        PROVE  GateInv'
    BY <1>12, ThreadAssumption DEF RemoveObstacle
  <1>13. ASSUME NEW t \in Writers, ClearObstacles(t)
        PROVE  GateInv'
    BY <1>13, ThreadAssumption DEF ClearObstacles
  <1>14. ASSUME NEW t \in Writers, LockUnique(t)
        PROVE  GateInv'
    BY <1>14, ThreadAssumption DEF LockUnique
  <1>15. ASSUME NEW t \in Writers, Write(t)
        PROVE  GateInv'
    <2> DEFINE c == op[t]
    <2>1. /\ pc[t] = "write" /\ c \in Changes /\ c.name # "none"
          /\ UNCHANGED <<has_patches, op>>
      BY <1>15 DEF Write
    <2>2. \A w \in Writers : pc[w] # "setGate"
      BY <2>1, NobodyScans DEF GateInv
    <2>3. has_patches <=> InUse(patches) # {}
      BY <2>2
    <2>4. \A w \in Writers \ {t} : pc'[w] # "setGate"
      BY <1>15, <2>2, ThreadAssumption DEF Write
    <2>5. CASE c.name = "add"
      <3>1. /\ patches' = Added(patches, c.obstacle) /\ pc'[t] = "setGate"
            /\ c.obstacle \in Obstacles
        BY <1>15, <2>1, <2>5, ChangeKinds DEF Write, Changed, SetsGate
      <3>2. PICK i \in DOMAIN patches' :
              InUse(patches') = InUse(patches) \cup {i} /\ patches'[i] = c.obstacle
        BY <3>1, AddedSlots
      <3>3. ~has_patches => InUse(patches') = {i}
        BY <2>3, <3>2
      <3> QED
        BY <2>1, <2>4, <2>5, <3>1, <3>2, <3>3 DEF GateInv
    <2>6. CASE c.name = "remove" /\ c.id \in DOMAIN patches
      <3>1. patches' = [patches EXCEPT ![c.id] = Freed]
        BY <1>15, <2>1, <2>6 DEF Write, Changed
      <3>2. InUse(patches') = InUse(patches) \ {c.id}
        BY <2>6, <3>1, RemovedSlots
      <3>3. CASE InUse(patches') = {}
        <4>1. pc'[t] = "setGate"
          BY <1>15, <2>6, <3>1, <3>3 DEF Write, SetsGate, Changed
        <4> QED
          BY <2>1, <2>4, <2>6, <3>3, <4>1 DEF GateInv
      <3>4. CASE InUse(patches') # {}
        <4>1. pc'[t] = "unlock"
          BY <1>15, <2>6, <3>1, <3>4 DEF Write, SetsGate, Changed
        <4> QED
          BY <2>1, <2>3, <2>4, <3>2, <3>4, <4>1 DEF GateInv
      <3> QED
        BY <3>3, <3>4
    <2>7. CASE c.name = "remove" /\ c.id \notin DOMAIN patches
      <3>1. patches' = patches /\ pc'[t] = "unlock"
        BY <1>15, <2>7 DEF Write, SetsGate
      <3> QED
        BY <2>1, <2>3, <2>4, <3>1 DEF GateInv
    <2>8. CASE c.name = "clear"
      <3>1. patches' = <<>> /\ pc'[t] = "setGate"
        BY <1>15, <2>8 DEF Write, SetsGate, Changed
      <3>2. InUse(patches') = {}
        BY <3>1 DEF InUse
      <3> QED
        BY <2>1, <2>4, <2>8, <3>1, <3>2 DEF GateInv
    <2> QED
      BY <2>1, <2>5, <2>6, <2>7, <2>8, ChangeKinds
  <1>16. ASSUME NEW t \in Writers, SetGate(t)
        PROVE  GateInv'
    BY <1>16, ThreadAssumption DEF SetGate
  <1>17. ASSUME NEW t \in Writers, Unlock(t)
        PROVE  GateInv'
    BY <1>17, ThreadAssumption DEF Unlock
  <1>18. CASE UNCHANGED vars
    BY <1>18, ThreadAssumption
  <1> HIDE DEF Typing, Places, GateInv, GoTo, Rest, Bulk, Bump, StartScan,
      vars, layerVars, lockVars, readerVars, Threads
  <1> QED
    BY <1>1, <1>2, <1>3, <1>4, <1>5, <1>6, <1>7, <1>8, <1>9, <1>10, <1>11,
      <1>12, <1>13, <1>14, <1>15, <1>16, <1>17, <1>18
      DEF Next, Reader, Writer

\* The slots stand still under a scan.
LEMMA ScanStep ==
  ASSUME Typing, Places, Holders, ScanInv, WaitInv, [Next]_vars
  PROVE  (ScanInv /\ WaitInv)'
  <1> USE DEF Typing, Places, ScanInv, WaitInv, GoTo, Rest, Bulk, Bump,
      StartScan, vars, layerVars, lockVars, readerVars, Threads, Readers
  <1>1. CASE Initialize
    BY <1>1, ThreadAssumption DEF Initialize
  <1>2. CASE BuildEmpty
    BY <1>2, ThreadAssumption DEF BuildEmpty
  <1>3. ASSUME NEW t \in Planners, TakeGuard(t)
        PROVE  (ScanInv /\ WaitInv)'
    BY <1>3, ThreadAssumption DEF TakeGuard
  <1>4. ASSUME NEW t \in Planners, ReleaseGuard(t)
        PROVE  (ScanInv /\ WaitInv)'
    BY <1>4, ThreadAssumption DEF ReleaseGuard
  <1>5. ASSUME NEW t \in Planners, BeginCount(t)
        PROVE  (ScanInv /\ WaitInv)'
    BY <1>5, ThreadAssumption DEF BeginCount
  <1>6. ASSUME NEW t \in Readers, NEW dynamic \in BOOLEAN,
               BeginQuery(t, dynamic)
        PROVE  (ScanInv /\ WaitInv)'
    BY <1>6, ThreadAssumption DEF BeginQuery
  <1>7. ASSUME NEW t \in Readers, TestGate(t)
        PROVE  (ScanInv /\ WaitInv)'
    <2>1. Scanned(patches, 1) = <<>> /\ 1 <= Len(patches) + 1
      BY NothingScanned
    <2>2. CASE has_patches
      <3>1. /\ pc' = [pc EXCEPT ![t] = IF Bulk(t) THEN "scan" ELSE "wait"]
            /\ cursor' = [cursor EXCEPT ![t] = 1]
            /\ found' = [found EXCEPT ![t] = <<>>]
            /\ patches' = patches
        BY <1>7, <2>2 DEF TestGate
      <3>2. \A r \in Readers : r # t =>
              pc'[r] = pc[r] /\ cursor'[r] = cursor[r] /\ found'[r] = found[r]
        BY <3>1
      <3>3. cursor'[t] = 1 /\ found'[t] = <<>>
        BY <1>7, <3>1
      <3> QED
        BY <2>1, <3>1, <3>2, <3>3
    <2>3. CASE ~has_patches
      <3>1. /\ pc' = [pc EXCEPT ![t] = Rest(t)]
            /\ UNCHANGED <<cursor, found, patches>>
        BY <1>7, <2>3 DEF TestGate
      <3>2. pc'[t] \notin {"scan", "wait"}
        BY <1>7, <3>1
      <3>3. \A r \in Readers : r # t => pc'[r] = pc[r]
        BY <3>1
      <3> QED
        BY <3>1, <3>2, <3>3
    <2> QED
      BY <2>2, <2>3
  <1>8. ASSUME NEW t \in Readers, LockShared(t)
        PROVE  (ScanInv /\ WaitInv)'
    BY <1>8, ThreadAssumption, NothingScanned DEF LockShared
  <1>9. ASSUME NEW t \in Readers, ScanPatch(t)
        PROVE  (ScanInv /\ WaitInv)'
    <2> DEFINE n == cursor[t]
    <2>1. /\ pc[t] = "scan" /\ n \in DOMAIN patches
          /\ UNCHANGED <<patches, pc>>
          /\ cursor' = [cursor EXCEPT ![t] = n + 1]
          /\ \A r \in Readers \ {t} : found'[r] = found[r]
      BY <1>9 DEF ScanPatch
    <2>2. found[t] = Scanned(patches, n)
      BY <2>1
    <2>3. found'[t] = Scanned(patches, n + 1)
      <3>1. CASE patches[n] = Freed
        BY <1>9, <2>1, <2>2, <3>1, OneMoreScanned DEF ScanPatch
      <3>2. CASE patches[n] # Freed
        <4>1. Scanned(patches, n + 1) = With(found[t], n, patches[n])
          <5>1. patches \in Seq(Slot)
            BY DEF Typing
          <5>2. Scanned(patches, n + 1) = With(Scanned(patches, n), n, patches[n])
            BY <2>1, <3>2, <5>1, OneMoreScanned, Zenon
          <5> QED
            BY <2>2, <5>2
        <4>2. found' = [found EXCEPT ![t] = With(@, n, patches[n])]
          BY <1>9, <3>2 DEF ScanPatch, With
        <4> QED
          BY <4>1, <4>2
      <3> QED
        BY <3>1, <3>2
    <2>4. n + 1 <= Len(patches) + 1
      BY <2>1
    <2> QED
      BY <2>1, <2>3, <2>4, ThreadAssumption
  <1>10. ASSUME NEW t \in Readers, EndScan(t)
        PROVE  (ScanInv /\ WaitInv)'
    BY <1>10, ThreadAssumption DEF EndScan
  <1>11. ASSUME NEW t \in Writers, NEW o \in Obstacles, AddObstacle(t, o)
        PROVE  (ScanInv /\ WaitInv)'
    BY <1>11, ThreadAssumption DEF AddObstacle
  <1>12. ASSUME NEW t \in Writers, NEW id \in 0..MaxRevision,
                RemoveObstacle(t, id)
        PROVE  (ScanInv /\ WaitInv)'
    BY <1>12, ThreadAssumption DEF RemoveObstacle
  <1>13. ASSUME NEW t \in Writers, ClearObstacles(t)
        PROVE  (ScanInv /\ WaitInv)'
    BY <1>13, ThreadAssumption DEF ClearObstacles
  <1>14. ASSUME NEW t \in Writers, LockUnique(t)
        PROVE  (ScanInv /\ WaitInv)'
    BY <1>14, ThreadAssumption DEF LockUnique
  <1>15. ASSUME NEW t \in Writers, Write(t)
        PROVE  (ScanInv /\ WaitInv)'
    BY <1>15, NobodyScans, ThreadAssumption DEF Write
  <1>16. ASSUME NEW t \in Writers, SetGate(t)
        PROVE  (ScanInv /\ WaitInv)'
    BY <1>16, ThreadAssumption DEF SetGate
  <1>17. ASSUME NEW t \in Writers, Unlock(t)
        PROVE  (ScanInv /\ WaitInv)'
    BY <1>17, ThreadAssumption DEF Unlock
  <1>18. CASE UNCHANGED vars
    BY <1>18, ThreadAssumption
  <1> HIDE DEF Typing, Places, ScanInv, WaitInv, GoTo, Rest, Bulk, Bump,
      StartScan, vars, layerVars, lockVars, readerVars, Threads
  <1> QED
    BY <1>1, <1>2, <1>3, <1>4, <1>5, <1>6, <1>7, <1>8, <1>9, <1>10, <1>11,
      <1>12, <1>13, <1>14, <1>15, <1>16, <1>17, <1>18
      DEF Next, Reader, Writer

\* The starting state satisfies the invariant.
LEMMA InitIInv == Init => IInv
  <1> SUFFICES ASSUME Init PROVE IInv
    OBVIOUS
  <1> USE DEF Init, Threads
  <1>1. Typing
    <2>1. patches \in Seq(Slot) /\ revision \in Nat /\ guards \in SUBSET Planners
      OBVIOUS
    <2>5. has_patches \in BOOLEAN
      OBVIOUS
    <2>2. mutex \in [writer : Writers \cup {Nobody}, readers : SUBSET Planners]
      OBVIOUS
    <2>3. /\ pc \in [Threads -> {"idle", "guard", "gate", "wait", "scan",
                                 "lock", "write", "setGate", "unlock"}]
          /\ op \in [Writers -> Changes]
      BY DEF Changes
    <2>4. /\ cursor \in [Threads -> Nat \ {0}]
          /\ DOMAIN found = Threads /\ DOMAIN answer = Threads
      OBVIOUS
    <2> QED
      BY <2>1, <2>2, <2>3, <2>4, <2>5 DEF Typing
  <1>2. Places /\ ScanInv /\ WaitInv
    BY DEF Places, ScanInv, WaitInv, Readers
  <1>3. Holders
    BY ThreadAssumption DEF Holders
  <1>4. GateInv
    BY DEF GateInv, InUse
  <1> QED
    BY <1>1, <1>2, <1>3, <1>4 DEF IInv

\* The inductive invariant holds in every reachable state.
THEOREM InductiveInv == Spec => []IInv
  <1>1. IInv /\ [Next]_vars => IInv'
    BY TypingStep, PlacesStep, HoldersStep, GateStep, ScanStep DEF IInv
  <1> QED
    BY <1>1, InitIInv, PTL DEF Spec

-----------------------------------------------------------------------------
(***************************************************************************)
(* Results.                                                                *)
(***************************************************************************)

\* However many planners, team threads and mutators there are, no query reads
\* the slots while one of them writes.
THEOREM NoScanIsTorn == Spec => []NoTornScan
  <1>1. ASSUME IInv PROVE NoTornScan
    <2> USE <1>1 DEF IInv
    <2>1. ASSUME NEW t \in Planners, pc[t] = "scan" PROVE t \in mutex.readers
      BY <2>1 DEF Holders
    <2>2. ASSUME NEW t \in Workers, pc[t] = "scan"
          PROVE  TeamOf[t] \in mutex.readers
      BY <2>2 DEF Holders
    <2>3. \A t \in Writers : pc[t] # "scan"
      BY DEF Places
    <2> QED
      BY <2>1, <2>2, <2>3 DEF NoTornScan, Threads, Holders
  <1> QED
    BY <1>1, InductiveInv, PTL

\* The gate a reader tests without the lock is right whenever no mutator is
\* inside, after any sequence of changes.
THEOREM GateIsTrue == Spec => []GateTellsTheTruth
  <1>1. IInv => GateTellsTheTruth
    BY ThreadAssumption DEF IInv, GateTellsTheTruth, GateInv, Holders, Threads
  <1> QED
    BY <1>1, InductiveInv, PTL

-----------------------------------------------------------------------------
(***************************************************************************)
(* The layer implements a set of obstacles.                                *)
(***************************************************************************)

\* The empty layer is the empty set.
LEMMA InitialSet == Init => Set!Init
  BY DEF Init, Set!Init, Visible, Asked

\* A step that touches neither slots, gate nor answers shows nothing.
LEMMA Hidden ==
  ASSUME UNCHANGED <<patches, has_patches, answer>>
  PROVE  UNCHANGED Set!setVars
  BY DEF Set!setVars, Visible, Active, Asked

\* What the set sees of an answer.
LEMMA AnswerShows ==
  ASSUME Typing, NEW t \in Readers, NEW v,
         answer' = [answer EXCEPT ![t] = v]
  PROVE  [r \in Threads |-> Asked(r)]' =
           [[r \in Threads |-> Asked(r)] EXCEPT ![t] = v]
  BY ThreadAssumption DEF Typing, Asked, Readers, Threads

\* With no gate left to set, what readers can see is what is in use.
LEMMA ActiveShown ==
  ASSUME GateInv, \A w \in Writers : pc[w] # "setGate"
  PROVE  Visible = Active
  <1>1. CASE has_patches
    BY <1>1 DEF Visible
  <1>2. CASE ~has_patches
    <2>1. InUse(patches) = {}
      BY <1>2 DEF GateInv
    <2> QED
      BY <1>2, <2>1 DEF Visible, Active
  <1> QED
    BY <1>1, <1>2

\* A query is one step of the set: it is forgotten when it begins, asked when
\* its answer stands.
LEMMA ForgetStep ==
  ASSUME Typing, NEW t \in Readers, answer' = [answer EXCEPT ![t] = NoAnswer],
         UNCHANGED <<patches, has_patches>>
  PROVE  Set!Next
  <1>1. Visible' = Visible
    BY DEF Visible, Active
  <1>2. Set!Forget(t)
    BY <1>1, AnswerShows DEF Set!Forget
  <1> QED
    BY <1>2 DEF Set!Next, Threads, Readers

\* An answer with everything visible is a question the set answered.
LEMMA AskStep ==
  ASSUME Typing, NEW t \in Readers, answer' = [answer EXCEPT ![t] = Visible],
         UNCHANGED <<patches, has_patches>>
  PROVE  Set!Next
  <1>1. Visible' = Visible
    BY DEF Visible, Active
  <1>2. Set!Ask(t)
    BY <1>1, AnswerShows DEF Set!Ask
  <1> QED
    BY <1>2 DEF Set!Next, Threads, Readers

\* A finished scan has seen what the set holds.
LEMMA EndScanAsks ==
  ASSUME IInv, NEW t \in Readers, EndScan(t)
  PROVE  Set!Next
  <1> USE DEF IInv
  <1>1. \A w \in Writers : pc[w] # "setGate"
    BY NobodyScans DEF EndScan
  <1>2. cursor[t] = Len(patches) + 1
    BY DEF EndScan, ScanInv, Typing, Threads, Readers
  <1>3. found[t] = Scanned(patches, Len(patches) + 1)
    BY <1>2 DEF EndScan, ScanInv
  <1>4. found[t] = Active
    BY <1>3, AllScanned DEF Active, Typing
  <1>5. answer' = [answer EXCEPT ![t] = Visible]
    BY <1>1, <1>4, ActiveShown DEF EndScan
  <1> QED
    BY <1>5, AskStep DEF EndScan, layerVars

\* A query that meets a closed gate is told the empty set, and that is what
\* the set holds.
LEMMA ClosedGateAsks ==
  ASSUME Typing, NEW t \in Readers, TestGate(t), ~has_patches
  PROVE  Set!Next
  <1>1. answer' = [answer EXCEPT ![t] = Visible]
    BY DEF TestGate, Visible
  <1> QED
    BY <1>1, AskStep DEF TestGate, layerVars

\* What a writer's change of the slots shows.
LEMMA WriteShows ==
  ASSUME IInv, NEW t \in Writers, Write(t)
  PROVE  [Set!Next]_(Set!setVars)
  <1> DEFINE c == op[t]
  <1> USE DEF IInv
  <1>1. /\ pc[t] = "write" /\ c \in Changes /\ c.name # "none"
        /\ patches \in Seq(Slot) /\ has_patches \in BOOLEAN
        /\ UNCHANGED <<has_patches, answer>>
    BY DEF Write, Typing, Places, readerVars
  <1>2. UNCHANGED [r \in Threads |-> Asked(r)]
    BY <1>1 DEF Asked
  <1>3. CASE UNCHANGED patches
    BY <1>1, <1>3, Hidden
  <1>4. CASE ~has_patches
    <2>1. Visible' = Visible
      BY <1>1, <1>4 DEF Visible
    <2> QED
      BY <1>2, <2>1 DEF Set!setVars
  <1>5. ASSUME has_patches, c.name = "add" PROVE Set!Next
    <2>1. c.obstacle \in Obstacles /\ patches' = Added(patches, c.obstacle)
      BY <1>1, <1>5, ChangeKinds DEF Write, Changed
    <2>2. PICK i \in DOMAIN patches' :
            /\ i \notin InUse(patches)
            /\ InUse(patches') = InUse(patches) \cup {i}
            /\ patches'[i] = c.obstacle
            /\ \A j \in InUse(patches) : patches'[j] = patches[j]
      <3>1. \E i \in DOMAIN Added(patches, c.obstacle) :
              /\ i \notin InUse(patches)
              /\ InUse(Added(patches, c.obstacle)) = InUse(patches) \cup {i}
              /\ Added(patches, c.obstacle)[i] = c.obstacle
              /\ \A j \in InUse(patches) :
                   Added(patches, c.obstacle)[j] = patches[j]
        BY <1>1, <2>1, AddedSlots, Zenon
      <3> QED
        BY <2>1, <3>1, Zenon
    <2>3. /\ Visible = [j \in InUse(patches) |-> patches[j]]
          /\ Visible' = [j \in InUse(patches') |-> patches'[j]]
      BY <1>1, <1>5 DEF Visible, Active
    <2>4. /\ i \in DOMAIN Visible' \ DOMAIN Visible
          /\ Visible' = [j \in DOMAIN Visible \cup {i} |->
                           IF j = i THEN c.obstacle ELSE Visible[j]]
      BY <2>2, <2>3
    <2>5. Set!Add(c.obstacle)
      BY <1>2, <2>4 DEF Set!Add
    <2> QED
      BY <2>1, <2>5 DEF Set!Next
  <1>6. ASSUME has_patches, c.name = "remove", c.id \in InUse(patches)
        PROVE  Set!Next
    <2>1. c.id \in DOMAIN patches
      BY <1>6 DEF InUse
    <2>2. patches' = [patches EXCEPT ![c.id] = Freed]
      BY <1>6, <2>1 DEF Write, Changed
    <2>3. /\ InUse(patches') = InUse(patches) \ {c.id}
          /\ \A j \in InUse(patches') : patches'[j] = patches[j]
      BY <1>1, <2>1, <2>2, RemovedSlots
    <2>4. /\ Visible = [j \in InUse(patches) |-> patches[j]]
          /\ Visible' = [j \in InUse(patches') |-> patches'[j]]
      BY <1>1, <1>6 DEF Visible, Active
    <2>5. /\ c.id \in DOMAIN Visible
          /\ Visible' = [j \in DOMAIN Visible \ {c.id} |-> Visible[j]]
      BY <1>6, <2>3, <2>4
    <2>6. Set!Remove(c.id)
      BY <1>2, <2>5 DEF Set!Remove
    <2> QED
      BY <2>5, <2>6 DEF Set!Next
  <1>7. ASSUME c.name = "remove", c.id \notin InUse(patches)
        PROVE  UNCHANGED patches
    BY <1>1, <1>7 DEF Write, Changed, InUse
  <1>8. ASSUME c.name = "clear" PROVE Set!Next
    <2>1. patches' = <<>>
      BY <1>8 DEF Write, Changed
    <2>2. Visible' = <<>>
      BY <2>1 DEF Visible, Active, InUse
    <2> QED
      BY <1>2, <2>2 DEF Set!Next, Set!Clear
  <1> QED
    BY <1>1, <1>3, <1>4, <1>5, <1>6, <1>7, <1>8, ChangeKinds

\* Opening the gate shows the first obstacle; closing it shows nothing new.
LEMMA SetGateShows ==
  ASSUME IInv, NEW t \in Writers, SetGate(t)
  PROVE  [Set!Next]_(Set!setVars)
  <1> DEFINE c == op[t]
  <1> USE DEF IInv
  <1>1. /\ pc[t] = "setGate" /\ c \in Changes /\ c.name # "none"
        /\ has_patches \in BOOLEAN /\ has_patches' = (c.name = "add")
        /\ UNCHANGED <<patches, answer>>
    BY DEF SetGate, Typing, Places, readerVars
  <1>2. UNCHANGED [r \in Threads |-> Asked(r)]
    BY <1>1 DEF Asked
  <1>3. CASE has_patches' = has_patches
    BY <1>1, <1>3, Hidden
  <1>4. ASSUME c.name = "add", ~has_patches PROVE Set!Next
    <2>1. PICK i \in DOMAIN patches :
            InUse(patches) = {i} /\ patches[i] = c.obstacle
      BY <1>1, <1>4 DEF GateInv
    <2>2. Visible = <<>> /\ Visible' = [j \in {i} |-> patches[j]]
      BY <1>1, <1>4, <2>1 DEF Visible, Active
    <2>3. /\ i \in DOMAIN Visible' \ DOMAIN Visible
          /\ Visible' = [j \in DOMAIN Visible \cup {i} |->
                           IF j = i THEN c.obstacle ELSE Visible[j]]
      BY <2>1, <2>2
    <2>4. Set!Add(c.obstacle)
      BY <1>2, <2>3 DEF Set!Add
    <2> QED
      BY <1>1, <1>4, <2>4, ChangeKinds DEF Set!Next
  <1>5. ASSUME c.name # "add" PROVE UNCHANGED Set!setVars
    <2>1. InUse(patches) = {} /\ ~has_patches'
      BY <1>1, <1>5 DEF GateInv
    <2>2. Active = <<>>
      BY <2>1 DEF Active
    <2>3. Visible = <<>> /\ Visible' = <<>>
      BY <2>1, <2>2 DEF Visible
    <2> QED
      BY <1>2, <2>3 DEF Set!setVars
  <1> QED
    BY <1>1, <1>3, <1>4, <1>5

\* Every step of the layer is a step of the set, or nothing it can see.
LEMMA SetStep ==
  ASSUME IInv, [Next]_vars
  PROVE  [Set!Next]_(Set!setVars)
  <1> USE DEF layerVars, readerVars
  <1>1. CASE Initialize \/ BuildEmpty
    BY <1>1, Hidden DEF Initialize, BuildEmpty
  <1>2. ASSUME NEW t \in Planners, TakeGuard(t) \/ ReleaseGuard(t)
        PROVE  UNCHANGED Set!setVars
    BY <1>2, Hidden DEF TakeGuard, ReleaseGuard
  <1>3. ASSUME NEW t \in Planners, BeginCount(t)
        PROVE  Set!Next
    BY <1>3, ForgetStep DEF BeginCount, IInv, Readers
  <1>4. ASSUME NEW t \in Readers, NEW dynamic \in BOOLEAN,
               BeginQuery(t, dynamic)
        PROVE  Set!Next
    BY <1>4, ForgetStep DEF BeginQuery, IInv
  <1>5. ASSUME NEW t \in Readers, TestGate(t)
        PROVE  [Set!Next]_(Set!setVars)
    <2>1. CASE has_patches
      BY <1>5, <2>1, Hidden DEF TestGate
    <2>2. CASE ~has_patches
      BY <1>5, <2>2, ClosedGateAsks DEF IInv
    <2> QED
      BY <2>1, <2>2
  <1>6. ASSUME NEW t \in Readers, LockShared(t) \/ ScanPatch(t)
        PROVE  UNCHANGED Set!setVars
    BY <1>6, Hidden DEF LockShared, ScanPatch
  <1>7. ASSUME NEW t \in Readers, EndScan(t)
        PROVE  Set!Next
    BY <1>7, EndScanAsks
  <1>8. ASSUME NEW t \in Writers,
               \/ \E o \in Obstacles : AddObstacle(t, o)
               \/ \E id \in 0..MaxRevision : RemoveObstacle(t, id)
               \/ ClearObstacles(t) \/ LockUnique(t) \/ Unlock(t)
        PROVE  UNCHANGED Set!setVars
    BY <1>8, Hidden DEF AddObstacle, RemoveObstacle, ClearObstacles,
      LockUnique, Unlock
  <1>9. ASSUME NEW t \in Writers, Write(t) \/ SetGate(t)
        PROVE  [Set!Next]_(Set!setVars)
    BY <1>9, WriteShows, SetGateShows
  <1>10. CASE UNCHANGED vars
    BY <1>10, Hidden DEF vars
  <1> QED
    BY <1>1, <1>2, <1>3, <1>4, <1>5, <1>6, <1>7, <1>8, <1>9, <1>10
      DEF Next, Reader, Writer, Readers

\* Whatever runs beside it, a query is answered with the obstacles held at one
\* moment between its call and its answer, and a change shows at one moment.
THEOREM LayerIsASet == Spec => ImplementsObstacleSet
  <1>1. IInv /\ [Next]_vars => [Set!Next]_(Set!setVars)
    BY SetStep
  <1> QED
    BY <1>1, InitialSet, InductiveInv, PTL
      DEF Spec, ImplementsObstacleSet, Set!Spec
=============================================================================
