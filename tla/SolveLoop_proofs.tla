-------------------------- MODULE SolveLoop_proofs --------------------------
(***************************************************************************)
(* Proofs about SolveLoop and the Minimizer it runs, for every problem,    *)
(* memory size, plateau window, trial, iteration and restart budget.       *)
(*                                                                         *)
(* Three invariants, each on its own: the accepted point only descends;    *)
(* the ring holds the newest curved pairs behind its next slot; the flags  *)
(* a verdict reads say what happened in this solve.                        *)
(***************************************************************************)
EXTENDS SolveLoop, TLAPS, SequenceTheorems, FiniteSetTheorems,
        WellFoundedInduction

-----------------------------------------------------------------------------
(***************************************************************************)
(* Typing.                                                                 *)
(***************************************************************************)

StepRecords == [from : Points, to : Points, curved : BOOLEAN]

SolveTyped ==
  /\ obj \in Objectives
  /\ pc \in {"idle", "enter", "search", "judge", "audit"}
  /\ q \in Points /\ jerkOpt \in Points
  /\ k \in Nat \ {0} /\ end \in Slots
  /\ DOMAIN lm = Slots
  /\ steps \in Seq(StepRecords)

\* The bounds of the ring.
LEMMA Sizes ==
  /\ MemSize \in Nat \ {0}
  /\ \A e \in Slots : e \in Nat /\ e < MemSize
  BY MinimizerAssumption DEF Slots

\* What a step's record keeps of the history: the newest curved steps, in
\* order, and the step itself.
LEMMA NotedStep ==
  ASSUME steps \in Seq(StepRecords), q \in Points, NEW p \in Points,
         NEW curved \in BOOLEAN
  PROVE  LET L == Len(Curved(steps))
             n == Lesser(L, MemSize)
             new == Noted(p, curved)
         IN /\ L \in Nat /\ n \in 0..L /\ n <= MemSize
            /\ new \in Seq(StepRecords) /\ Len(new) = n + 1
            /\ new[n + 1] = [from |-> q, to |-> p, curved |-> curved]
            /\ \A i \in 1..n : new[i] = Curved(steps)[L - n + i]
            /\ \A i \in 1..n : \E j \in 1..Len(steps) : new[i] = steps[j]
            /\ curved => Curved(new) = new
            /\ ~curved => /\ Len(Curved(new)) = n
                          /\ \A i \in 1..n : Curved(new)[i] = new[i]
  <1> DEFINE C == Curved(steps)
             L == Len(C)
             n == Lesser(L, MemSize)
             e == [from |-> q, to |-> p, curved |-> curved]
             kept == Recent(C)
             new == Append(kept, e)
  <1>1. /\ C \in Seq(StepRecords) /\ L \in Nat
        /\ \A i \in 1..L : i \in 1..Len(steps) /\ C[i] = steps[i]
    <2>1. CASE steps # <<>> /\ ~Last(steps).curved
      <3>1. Len(steps) \in Nat \ {0} /\ \A i \in 1..Len(steps) : steps[i] \in StepRecords
        BY <2>1, EmptySeq, ElementOfSeq
      <3> DEFINE m == Len(steps) - 1
      <3>2. m \in Nat /\ \A i \in 1..m : i \in 1..Len(steps) /\ steps[i] \in StepRecords
        BY <3>1
      <3>3. C = SubSeq(steps, 1, m)
        BY <2>1 DEF Curved, Front
      <3> HIDE DEF m, C
      <3>4. /\ C \in Seq(StepRecords) /\ Len(C) = IF 1 <= m THEN m - 1 + 1 ELSE 0
            /\ \A i \in 1..m - 1 + 1 : C[i] = steps[1 + i - 1]
        BY <3>2, <3>3, SubSeqProperties
      <3>5. Len(C) = m
        BY <3>2, <3>4
      <3> QED
        BY <3>2, <3>4, <3>5
    <2>2. CASE ~ (steps # <<>> /\ ~Last(steps).curved)
      <3>1. C = steps
        BY <2>2 DEF Curved
      <3> QED
        BY <3>1, LenProperties
    <2> QED
      BY <2>1, <2>2
  <1>2. MemSize \in Nat \ {0}
    BY Sizes
  <1> HIDE DEF C
  <1>3. n \in 0..L /\ n <= MemSize
    BY <1>1, <1>2 DEF Lesser
  <1> HIDE DEF n
  <1>4. /\ kept \in Seq(StepRecords) /\ Len(kept) = n
        /\ \A i \in 1..n : kept[i] = C[L - n + i]
    <2> DEFINE a == L - n + 1
    <2>1. a \in Int /\ a >= 1 /\ \A i \in a..L : C[i] \in StepRecords
      BY <1>1, <1>3, ElementOfSeq
    <2>2. kept = SubSeq(C, a, L)
      BY DEF Recent, n
    <2> HIDE DEF kept, a
    <2>3. /\ kept \in Seq(StepRecords)
          /\ Len(kept) = IF a <= L THEN L - a + 1 ELSE 0
          /\ \A i \in 1..L - a + 1 : kept[i] = C[a + i - 1]
      BY <1>1, <2>1, <2>2, SubSeqProperties
    <2> QED
      BY <1>1, <1>3, <2>3 DEF a
  <1>5. e \in StepRecords
    BY DEF StepRecords
  <1> HIDE DEF kept, e
  <1>6. /\ new \in Seq(StepRecords) /\ new # <<>> /\ Len(new) = n + 1
        /\ \A i \in 1..n : new[i] = kept[i]
        /\ new[n + 1] = e
    BY <1>4, <1>5, AppendProperties
  <1>7. Noted(p, curved) = new
    BY DEF Noted, new, kept, C, e
  <1> HIDE DEF new
  <1>8. \A i \in 1..n : \E j \in 1..Len(steps) : new[i] = steps[j]
    <2> SUFFICES ASSUME NEW i \in 1..n
                 PROVE  \E j \in 1..Len(steps) : new[i] = steps[j]
      OBVIOUS
    <2>1. L - n + i \in 1..L
      BY <1>1, <1>3
    <2> QED
      BY <2>1, <1>1, <1>4, <1>6
  <1>9. Last(new).curved = curved
    <2>1. Last(new) = e
      BY <1>6 DEF Last
    <2> QED
      BY <2>1 DEF e
  <1>10. curved => Curved(new) = new
    BY <1>9 DEF Curved
  <1>11. ASSUME ~ curved
         PROVE  Len(Curved(new)) = n /\ \A i \in 1..n : Curved(new)[i] = new[i]
    <2> DEFINE front == SubSeq(new, 1, n)
    <2>1. Curved(new) = front
      <3>1. Len(new) - 1 = n
        BY <1>3, <1>6
      <3> QED
        BY <1>6, <1>9, <1>11, <3>1 DEF Curved, Front
    <2>2. \A i \in 1..n : new[i] \in StepRecords
      BY <1>3, <1>6, ElementOfSeq
    <2> HIDE DEF front
    <2>3. /\ Len(front) = IF 1 <= n THEN n - 1 + 1 ELSE 0
          /\ \A i \in 1..n - 1 + 1 : front[i] = new[1 + i - 1]
      BY <1>3, <2>2, SubSeqProperties DEF front
    <2> QED
      BY <1>3, <2>1, <2>3
  <1> QED
    BY <1>1, <1>3, <1>4, <1>6, <1>7, <1>8, <1>10, <1>11 DEF C, n, e

\* The next slot of the ring is one of it.
LEMMA NextSlot ==
  ASSUME NEW e \in Slots, NEW curved \in BOOLEAN
  PROVE  Advance(e, curved) \in Slots
  <1>1. MemSize \in Nat \ {0} /\ e \in Nat /\ e < MemSize
    BY Sizes
  <1>2. (e + 1) % MemSize \in 0..(MemSize - 1)
    BY <1>1
  <1> QED
    BY <1>2 DEF Advance, Slots

\* The start of a solve loop is typed.
LEMMA TypedInit == Init => SolveTyped
  <1> SUFFICES ASSUME Init PROVE SolveTyped
    OBVIOUS
  <1>1. steps \in Seq(StepRecords)
    BY EmptySeq DEF Init
  <1>2. 0 \in Slots
    BY Sizes DEF Slots
  <1>3. DOMAIN lm = Slots
    BY DEF Init
  <1> QED
    BY <1>1, <1>2, <1>3, SolveAssumption DEF Init, SolveTyped

\* The steps of a pass keep every variable in its range.
LEMMA OptimizeTyped ==
  ASSUME SolveTyped, Optimize
  PROVE  SolveTyped'
  <1> USE DEF SolveTyped
  <1>1. CASE Enter
    <2>1. steps' \in Seq(StepRecords)
      BY <1>1, EmptySeq DEF Enter
    <2>2. 0 \in Slots /\ DOMAIN lm' = Slots
      BY <1>1, Sizes DEF Enter, Slots
    <2> QED
      BY <1>1, <2>1, <2>2 DEF Enter
  <1>2. CASE SearchRefused
    BY <1>2 DEF SearchRefused
  <1>3. CASE TrialFails
    BY <1>3 DEF TrialFails
  <1>4. CASE TrialAgain
    BY <1>4 DEF TrialAgain
  <1>5. CASE Converged
    <2>1. PICK p \in Points, curved \in BOOLEAN :
            /\ Move(p) /\ steps' = Noted(p, curved)
            /\ pc' = "judge" /\ UNCHANGED <<obj, k, end, lm>>
      BY <1>5 DEF Converged
    <2>2. steps' \in Seq(StepRecords)
      BY <2>1, NotedStep
    <2> QED
      BY <2>1, <2>2 DEF Move
  <1>6. CASE Iterate
    <2>1. PICK p \in Points, curved \in BOOLEAN :
            /\ Move(p) /\ steps' = Noted(p, curved)
            /\ lm' = [lm EXCEPT ![end] = <<q, p>>]
            /\ k' = Counted(k, curved) /\ end' = Advance(end, curved)
            /\ UNCHANGED <<obj, pc>>
      BY <1>6 DEF Iterate
    <2>2. steps' \in Seq(StepRecords)
      BY <2>1, NotedStep
    <2>3. k' \in Nat \ {0} /\ end' \in Slots
      BY <2>1, NextSlot DEF Counted
    <2>4. DOMAIN lm' = Slots
      BY <2>1
    <2> QED
      BY <2>1, <2>2, <2>3, <2>4 DEF Move
  <1> QED
    BY <1>1, <1>2, <1>3, <1>4, <1>5, <1>6 DEF Optimize

\* What the solve around the passes leaves of the minimizer's variables.
LEMMA TypedStep == SolveTyped /\ [Next]_vars => SolveTyped'
  <1> SUFFICES ASSUME SolveTyped, [Next]_vars PROVE SolveTyped'
    OBVIOUS
  <1>1. CASE Call
    BY <1>1, SolveAssumption DEF Call, SolveTyped
  <1>2. CASE Minimize
    BY <1>2, OptimizeTyped DEF Minimize
  <1>3. CASE Restart
    <2>1. jerkOpt' \in Points
      BY <1>3 DEF Restart, SolveTyped
    <2> QED
      BY <1>3, <2>1 DEF Restart, SolveTyped
  <1>4. CASE LeaveLoop
    BY <1>4 DEF LeaveLoop, Regenerated, SolveTyped
  <1>5. CASE Audit
    BY <1>5 DEF Audit, SolveTyped
  <1>6. CASE UNCHANGED vars
    BY <1>6 DEF vars, mvars, SolveTyped
  <1> QED
    BY <1>1, <1>2, <1>3, <1>4, <1>5, <1>6 DEF Next

\* Accepted point, ring indices, line-search counters and the history of
\* steps stay in their ranges (the buffers lbfgs_optimize indexes modulo m).
THEOREM TypesHold == Spec => []SolveTyped
  BY TypedInit, TypedStep, PTL DEF Spec

-----------------------------------------------------------------------------
(***************************************************************************)
(* The descent.                                                            *)
(***************************************************************************)

\* A problem's costs are numbers or no numbers at all, and the seed's is one.
LEMMA Costs ==
  ASSUME NEW o \in Objectives
  PROVE  /\ \A p \in Points : o.cost[p] \in Int
         /\ Seed \in Points /\ o.cost[Seed] # NotFinite
  <1>1. o.cost \in [Points -> Nat \cup {NotFinite}]
    BY SolveAssumption
  <1>2. \A p \in Points : o.cost[p] \in Nat \cup {NotFinite}
    BY <1>1
  <1> QED
    BY <1>2, SolveAssumption DEF NotFinite

\* Between the entry of a pass and the next restart the accepted point is no
\* worse than the one any of its steps left, and always no worse than the
\* seed.  The trajectory is rebuilt from it before anyone sees it.
Descends ==
  /\ obj.cost[q] # NotFinite
  /\ obj.cost[q] <= obj.cost[Seed]
  /\ pc # "enter" =>
       \A i \in 1..Len(steps) : obj.cost[q] <= obj.cost[steps[i].from]
  /\ pc = "audit" \/ (pc = "idle" /\ verdict = "published") => jerkOpt = q

\* Before the first pass no step was taken, so nothing is below the seed.
LEMMA DescendsInit == Init => Descends
  <1> SUFFICES ASSUME Init PROVE Descends
    OBVIOUS
  <1>1. Len(steps) = 0
    BY EmptySeq DEF Init
  <1>2. /\ \A p \in Points : obj.cost[p] \in Int
        /\ Seed \in Points /\ obj.cost[Seed] # NotFinite
    BY Costs DEF Init
  <1> QED
    BY <1>1, <1>2 DEF Init, Descends

\* A step to a point that lowers the cost is below everything noted so far.
LEMMA MoveDescends ==
  ASSUME SolveTyped, Descends, pc = "search", NEW p \in Points,
         NEW curved \in BOOLEAN, Move(p), steps' = Noted(p, curved), obj' = obj,
         pc' \in {"search", "judge"}
  PROVE  Descends'
  <1> DEFINE n == Lesser(Len(Curved(steps)), MemSize)
  <1>1. /\ q' = p /\ obj.cost[p] # NotFinite /\ obj.cost[p] <= obj.cost[q]
    BY DEF Move, Lowers
  <1>2. /\ \A x \in Points : obj.cost[x] \in Int
        /\ Seed \in Points
    BY Costs DEF SolveTyped
  <1>3. /\ n \in Nat /\ Len(steps') = n + 1
        /\ steps'[n + 1] = [from |-> q, to |-> p, curved |-> curved]
        /\ \A i \in 1..n : \E j \in 1..Len(steps) : steps'[i] = steps[j]
    <2>1. steps \in Seq(StepRecords) /\ q \in Points
      BY DEF SolveTyped
    <2> QED
      BY <2>1, NotedStep
  <1> HIDE DEF n
  <1>4. \A j \in 1..Len(steps) :
          /\ obj.cost[q] <= obj.cost[steps[j].from]
          /\ steps[j].from \in Points
    <2>1. \A j \in 1..Len(steps) : steps[j] \in StepRecords
      BY ElementOfSeq DEF SolveTyped
    <2> QED
      BY <2>1 DEF Descends, StepRecords
  <1>5. ASSUME NEW i \in 1..(n + 1)
        PROVE  obj.cost[p] <= obj.cost[steps'[i].from]
    <2>1. CASE i = n + 1
      BY <1>1, <1>3, <2>1
    <2>2. CASE i # n + 1
      <3>1. i \in 1..n
        BY <1>3, <2>2
      <3>2. PICK j \in 1..Len(steps) : steps'[i] = steps[j]
        BY <1>3, <3>1
      <3>3. /\ obj.cost[p] \in Int /\ obj.cost[q] \in Int
            /\ obj.cost[steps[j].from] \in Int
        BY <1>2, <1>4 DEF SolveTyped
      <3> QED
        BY <1>1, <1>4, <3>2, <3>3
    <2> QED
      BY <2>1, <2>2
  <1>6. obj.cost[p] <= obj.cost[Seed]
    <2>1. /\ obj.cost[p] \in Int /\ obj.cost[q] \in Int /\ obj.cost[Seed] \in Int
      BY <1>2 DEF SolveTyped
    <2> QED
      BY <1>1, <2>1 DEF Descends
  <1> QED
    BY <1>1, <1>3, <1>5, <1>6 DEF Descends

\* A trial moves nothing but the callback's trajectory.
LEMMA OptimizeDescends ==
  ASSUME SolveTyped, Descends, Minimize
  PROVE  Descends'
  <1>1. CASE Enter
    <2>1. Len(steps') = 0 /\ UNCHANGED <<obj, q>> /\ pc' \in {"judge", "search"}
      BY <1>1, EmptySeq DEF Enter
    <2> QED
      BY <2>1 DEF Descends
  <1>2. CASE SearchRefused
    BY <1>2 DEF SearchRefused, Descends
  <1>3. CASE TrialFails
    BY <1>3 DEF TrialFails, Descends
  <1>4. CASE TrialAgain
    BY <1>4 DEF TrialAgain, Descends
  <1>5. CASE Converged
    <2>1. PICK p \in Points, curved \in BOOLEAN :
            /\ Move(p) /\ steps' = Noted(p, curved)
            /\ pc' = "judge" /\ obj' = obj
      BY <1>5 DEF Converged
    <2> QED
      BY <2>1, MoveDescends DEF Move
  <1>6. CASE Iterate
    <2>1. PICK p \in Points, curved \in BOOLEAN :
            /\ Move(p) /\ steps' = Noted(p, curved)
            /\ pc' = pc /\ obj' = obj
      BY <1>6 DEF Iterate
    <2> QED
      BY <2>1, MoveDescends DEF Move
  <1> QED
    BY <1>1, <1>2, <1>3, <1>4, <1>5, <1>6 DEF Minimize, Optimize

\* Every step keeps the descent.
LEMMA DescendsStep == SolveTyped /\ Descends /\ [Next]_vars => Descends'
  <1> SUFFICES ASSUME SolveTyped, Descends, [Next]_vars PROVE Descends'
    OBVIOUS
  <1>1. CASE Call
    <2>1. obj' \in Objectives /\ q' = Seed /\ pc' = "enter"
      BY <1>1 DEF Call
    <2>2. obj'.cost[Seed] \in Int /\ obj'.cost[Seed] # NotFinite
      BY <2>1, Costs
    <2> QED
      BY <2>1, <2>2 DEF Descends
  <1>2. CASE Minimize
    BY <1>2, OptimizeDescends
  <1>3. CASE Restart
    BY <1>3 DEF Restart, Descends
  <1>4. CASE LeaveLoop
    BY <1>4 DEF LeaveLoop, Regenerated, Descends
  <1>5. CASE Audit
    BY <1>5 DEF Audit, Descends
  <1>6. CASE UNCHANGED vars
    BY <1>6 DEF vars, mvars, svars, Descends
  <1> QED
    BY <1>1, <1>2, <1>3, <1>4, <1>5, <1>6 DEF Next

\* The trajectory a caller is given is that of the best point the solve
\* accepted, whatever trial, restart or spent budget it ended on.
THEOREM FlownIsTheBest == Spec => []FlownIsBest
  <1>1. SolveTyped /\ Descends => FlownIsBest
    <2> SUFFICES ASSUME SolveTyped, Descends, pc = "idle", verdict = "published"
                 PROVE  \A s \in Range(steps) : obj.cost[q] <= obj.cost[s.from]
      BY DEF FlownIsBest, Descends
    <2>1. DOMAIN steps = 1..Len(steps)
      BY LenProperties DEF SolveTyped
    <2> QED
      BY <2>1 DEF Descends, Range
  <1>2. Spec => []Descends
    BY TypesHold, DescendsInit, DescendsStep, PTL DEF Spec
  <1> QED
    BY <1>1, <1>2, TypesHold, PTL

-----------------------------------------------------------------------------
(***************************************************************************)
(* The ring.                                                               *)
(***************************************************************************)

\* The slot i places behind the next one.
Slot(e, i) == (e + MemSize * MemSize - i) % MemSize

\* The i-th newest pair with curvature, as it happened.
Pair(s, i) ==
  LET made == Curved(s)
  IN <<made[Len(made) + 1 - i].from, made[Len(made) + 1 - i].to>>

\* Going i places back from slot e, round the ring.
LEMMA SlotValue ==
  ASSUME NEW e \in Slots, NEW i \in 1..MemSize
  PROVE  /\ Slot(e, i) = IF i <= e THEN e - i ELSE e + MemSize - i
         /\ Slot(e, i) \in Slots
  <1> DEFINE m == MemSize
             r == IF i <= e THEN e - i ELSE e + m - i
             w == IF i <= e THEN m ELSE m - 1
  <1>1. m \in Nat \ {0} /\ e \in Nat /\ e < m
    BY Sizes
  <1>2. r \in 0..(m - 1) /\ w \in Nat
    BY <1>1
  <1>3. e + m * m - i = m * w + r
    <2>1. CASE i <= e
      BY <1>1, <2>1
    <2>2. CASE ~ (i <= e)
      <3>1. m * (m - 1) = m * m - m
        BY <1>1
      <3>2. m * m \in Int
        BY <1>1
      <3> QED
        BY <1>1, <2>2, <3>1, <3>2
    <2> QED
      BY <2>1, <2>2
  <1>4. \A v, x \in Nat : x < m => (m * v + x) % m = x
    BY <1>1
  <1>5. Slot(e, i) = r
    <2>1. r \in Nat /\ r < m
      BY <1>1, <1>2
    <2> HIDE DEF r, w
    <2> QED
      BY <1>2, <1>3, <1>4, <2>1 DEF Slot
  <1> QED
    BY <1>2, <1>5 DEF Slots

\* When the ring advances, the slot just written is the first one behind it,
\* and the others are one further back, none of them the one just written.
LEMMA SlotShift ==
  ASSUME NEW e \in Slots
  PROVE  /\ Slot((e + 1) % MemSize, 1) = e
         /\ \A i \in 1..(MemSize - 1) :
              /\ Slot((e + 1) % MemSize, i + 1) = Slot(e, i)
              /\ Slot(e, i) # e
  <1> DEFINE m == MemSize
             f == (e + 1) % m
  <1>1. m \in Nat \ {0} /\ e \in Nat /\ e < m
    BY Sizes
  <1>2. f = IF e + 1 = m THEN 0 ELSE e + 1
    <2>1. CASE e + 1 = m
      BY <1>1, <2>1
    <2>2. CASE e + 1 # m
      BY <1>1, <2>2
    <2> QED
      BY <2>1, <2>2
  <1>3. f \in Slots
    BY <1>1, <1>2 DEF Slots
  <1> HIDE DEF f
  <1>4. 1 \in 1..MemSize
    BY <1>1
  <1>5. Slot(f, 1) = e
    <2>1. Slot(f, 1) = IF 1 <= f THEN f - 1 ELSE f + MemSize - 1
      BY <1>3, <1>4, SlotValue
    <2> QED
      BY <1>1, <1>2, <2>1
  <1>6. ASSUME NEW i \in 1..(m - 1)
        PROVE  Slot(f, i + 1) = Slot(e, i) /\ Slot(e, i) # e
    <2>1. i \in 1..MemSize /\ i + 1 \in 1..MemSize
      BY <1>1
    <2> DEFINE j == i + 1
    <2>2. j \in 1..MemSize
      BY <2>1
    <2> HIDE DEF j
    <2>3. Slot(f, j) = IF j <= f THEN f - j ELSE f + MemSize - j
      BY <1>3, <2>2, SlotValue
    <2>4. Slot(e, i) = IF i <= e THEN e - i ELSE e + MemSize - i
      BY <2>1, SlotValue
    <2>5. Slot(f, j) = Slot(e, i) /\ Slot(e, i) # e
      BY <1>1, <1>2, <2>1, <2>3, <2>4 DEF j
    <2> QED
      BY <2>5 DEF j
  <1> QED
    BY <1>5, <1>6 DEF f

\* The newest pairs after a step: a curved one comes first and the others move
\* one place back, a flat one leaves them as they were.
LEMMA NotedPairs ==
  ASSUME steps \in Seq(StepRecords), q \in Points, NEW p \in Points,
         NEW curved \in BOOLEAN, steps' = Noted(p, curved)
  PROVE  LET n == Lesser(Len(Curved(steps)), MemSize)
         IN /\ Len(Curved(steps)) \in Nat
            /\ Len(Curved(steps')) = IF curved THEN n + 1 ELSE n
            /\ curved => /\ Pair(steps', 1) = <<q, p>>
                         /\ \A i \in 1..n : Pair(steps', i + 1) = Pair(steps, i)
            /\ ~curved => \A i \in 1..n : Pair(steps', i) = Pair(steps, i)
  <1> DEFINE C == Curved(steps)
             D == Curved(steps')
             L == Len(C)
             n == Lesser(L, MemSize)
             new == steps'
  <1>1. /\ L \in Nat /\ n \in 0..L
        /\ Len(new) = n + 1
        /\ new[n + 1] = [from |-> q, to |-> p, curved |-> curved]
        /\ \A i \in 1..n : new[i] = C[L - n + i]
        /\ curved => D = new
        /\ ~curved => Len(D) = n /\ \A i \in 1..n : D[i] = new[i]
    BY NotedStep
  <1> HIDE DEF C, D, L, n, new
  <1>2. Len(D) = IF curved THEN n + 1 ELSE n
    BY <1>1
  <1>3. \A i \in 1..n : D[i] = C[L - n + i]
    <2>1. CASE curved
      BY <1>1, <2>1
    <2>2. CASE ~curved
      BY <1>1, <2>2
    <2> QED
      BY <2>1, <2>2
  <1>4. \A i : /\ Pair(steps', i) = <<D[Len(D) + 1 - i].from, D[Len(D) + 1 - i].to>>
               /\ Pair(steps, i) = <<C[L + 1 - i].from, C[L + 1 - i].to>>
    BY DEF Pair, C, D, L
  <1>5. ASSUME curved
        PROVE  /\ Pair(steps', 1) = <<q, p>>
               /\ \A i \in 1..n : Pair(steps', i + 1) = Pair(steps, i)
    <2>1. Len(D) + 1 - 1 = n + 1 /\ D[n + 1] = [from |-> q, to |-> p, curved |-> curved]
      BY <1>1, <1>2, <1>5
    <2>2. Pair(steps', 1) = <<q, p>>
      BY <1>4, <2>1
    <2>3. ASSUME NEW i \in 1..n
          PROVE  Pair(steps', i + 1) = Pair(steps, i)
      <3>1. Len(D) + 1 - (i + 1) = n + 1 - i /\ n + 1 - i \in 1..n
        BY <1>1, <1>2, <1>5
      <3>2. L - n + (n + 1 - i) = L + 1 - i
        BY <1>1
      <3>3. D[n + 1 - i] = C[L - n + (n + 1 - i)]
        BY <1>3, <3>1
      <3> QED
        BY <1>4, <3>1, <3>2, <3>3
    <2> QED
      BY <2>2, <2>3
  <1>6. ASSUME ~curved, NEW i \in 1..n
        PROVE  Pair(steps', i) = Pair(steps, i)
    <2>1. Len(D) + 1 - i = n + 1 - i /\ n + 1 - i \in 1..n
      BY <1>1, <1>2, <1>6
    <2>2. L - n + (n + 1 - i) = L + 1 - i
      BY <1>1
    <2>3. D[n + 1 - i] = C[L - n + (n + 1 - i)]
      BY <1>3, <2>1
    <2> QED
      BY <1>4, <2>1, <2>2, <2>3
  <1> QED
    BY <1>1, <1>2, <1>5, <1>6 DEF C, D, L, n

\* During a pass the iteration counts the curved pairs, as far as the ring
\* holds them; the slots behind the next one hold them, newest first, but for
\* the oldest, whose slot a flat pair may have taken; the last direction was
\* made of them.
RingHolds ==
  pc = "search" =>
    /\ Lesser(Len(Curved(steps)), MemSize) = Lesser(k - 1, MemSize)
    /\ \A i \in 1..Lesser(k - 1, MemSize - 1) : lm[Slot(end, i)] = Pair(steps, i)
    /\ MemoryIsRecentPairs

\* What the property says of a direction d after the steps s.
Newest(d, s) ==
  LET made == Curved(s)
      all == [i \in 1..Len(made) |-> <<made[Len(made) + 1 - i].from,
                                       made[Len(made) + 1 - i].to>>]
  IN d = SubSeq(all, 1, Lesser(MemSize, Len(all)))

\* The property, pair by pair.
LEMMA DirectionOfPairs ==
  ASSUME NEW s \in Seq(StepRecords), NEW n \in Nat,
         n = Lesser(MemSize, Len(Curved(s))),
         NEW d, d = [i \in 1..n |-> Pair(s, i)]
  PROVE  Newest(d, s)
  <1> DEFINE C == Curved(s)
             all == [i \in 1..Len(C) |-> Pair(s, i)]
             newest == SubSeq(all, 1, n)
             Pairs == {Pair(s, i) : i \in 1..Len(C)}
  <1>1. Len(C) \in Nat
    <2>1. CASE s # <<>> /\ ~Last(s).curved
      <3>1. Len(s) \in Nat \ {0}
        BY <2>1, EmptySeq
      <3>2. C = SubSeq(s, 1, Len(s) - 1)
        BY <2>1 DEF Curved, Front
      <3>3. \A i \in 1..Len(s) - 1 : s[i] \in StepRecords
        BY <3>1, ElementOfSeq
      <3> QED
        BY <3>1, <3>2, <3>3, SubSeqProperties
    <2>2. CASE ~ (s # <<>> /\ ~Last(s).curved)
      BY <2>2, LenProperties DEF Curved
    <2> QED
      BY <2>1, <2>2
  <1>2. all = [i \in 1..Len(C) |-> <<C[Len(C) + 1 - i].from, C[Len(C) + 1 - i].to>>]
    BY DEF Pair
  <1>3. \A i \in 1..Len(C) : all[i] = Pair(s, i)
    OBVIOUS
  <1>9. Len(all) = Len(C)
    BY <1>1
  <1>10. Newest(d, s) <=> d = SubSeq(all, 1, Lesser(MemSize, Len(all)))
    BY <1>2 DEF Newest
  <1>11. n = Lesser(MemSize, Len(C))
    OBVIOUS
  <1> HIDE DEF C, all
  <1>4. n <= Len(C)
    BY <1>1, <1>11, Sizes DEF Lesser
  <1>5. \A i \in 1..n : i \in 1..Len(C) /\ all[i] = Pair(s, i) /\ all[i] \in Pairs
    BY <1>1, <1>3, <1>4
  <1> HIDE DEF Pairs
  <1>6. /\ newest \in Seq(Pairs)
        /\ Len(newest) = IF 1 <= n THEN n - 1 + 1 ELSE 0
        /\ \A i \in 1..n - 1 + 1 : newest[i] = all[1 + i - 1]
    BY <1>5, SubSeqProperties
  <1>7. Len(newest) = n /\ \A i \in 1..n : newest[i] = Pair(s, i)
    BY <1>5, <1>6
  <1>8. newest = [i \in 1..n |-> newest[i]]
    BY <1>6, <1>7, LenProperties
  <1>12. newest = d
    <2> HIDE DEF newest
    <2> QED
      BY <1>7, <1>8
  <1> QED
    BY <1>9, <1>10, <1>11, <1>12

\* Nothing but a step touches the ring during a pass.
LEMMA RingUntouched ==
  ASSUME RingHolds, pc' = "search" => pc = "search",
         UNCHANGED <<steps, k, end, lm, dir>>
  PROVE  RingHolds'
  <1>1. MemoryIsRecentPairs' <=> (pc' = "search" /\ dir # <<>> =>
          dir = SubSeq(CurvedPairs, 1, Lesser(MemSize, Len(CurvedPairs))))
    BY DEF MemoryIsRecentPairs, CurvedPairs
  <1> QED
    BY <1>1 DEF RingHolds, MemoryIsRecentPairs

\* A step with curvature: its pair is the newest, in the ring and in the
\* direction.
LEMMA CurvedStep ==
  ASSUME SolveTyped, RingHolds, pc = "search", NEW p \in Points,
         steps' = Noted(p, TRUE), lm' = [lm EXCEPT ![end] = <<q, p>>],
         k' = k + 1, end' = (end + 1) % MemSize,
         dir' = [i \in 1..Lesser(MemSize, k) |->
                   lm'[(end' + MemSize * MemSize - i) % MemSize]]
  PROVE  RingHolds'
  <1> DEFINE L == Len(Curved(steps))
             n == Lesser(L, MemSize)
             m == MemSize
  <1>0. /\ m \in Nat \ {0} /\ end \in Slots /\ k \in Nat \ {0}
        /\ DOMAIN lm = Slots /\ steps \in Seq(StepRecords) /\ q \in Points
        /\ steps' \in Seq(StepRecords)
    BY Sizes, NotedStep DEF SolveTyped
  <1>1. /\ L \in Nat /\ Len(Curved(steps')) = n + 1
        /\ Pair(steps', 1) = <<q, p>>
        /\ \A i \in 1..n : Pair(steps', i + 1) = Pair(steps, i)
    BY <1>0, NotedPairs
  <1>2. /\ n = Lesser(k - 1, m)
        /\ \A i \in 1..Lesser(k - 1, m - 1) : lm[Slot(end, i)] = Pair(steps, i)
    BY DEF RingHolds
  <1>4. /\ Slot(end', 1) = end
        /\ \A i \in 1..m - 1 : Slot(end', i + 1) = Slot(end, i) /\ Slot(end, i) # end
    BY <1>0, SlotShift
  <1>5. /\ lm'[end] = <<q, p>>
        /\ \A s \in Slots : s # end => lm'[s] = lm[s]
    BY <1>0
  <1>6. \A i \in 1..m : Slot(end, i) \in Slots
    BY <1>0, SlotValue
  <1>11. \A i : lm'[(end' + MemSize * MemSize - i) % MemSize] = lm'[Slot(end', i)]
    BY DEF Slot
  <1> HIDE DEF n, L, m
  <1>3. /\ n \in Nat /\ Lesser(n + 1, m) = Lesser(k, m)
        /\ Lesser(m, n + 1) = Lesser(m, k) /\ Lesser(m, k) \in Nat
    BY <1>0, <1>2 DEF Lesser
  <1>12. ASSUME NEW i \in Nat, i + 1 <= Lesser(m, k), i >= 1
         PROVE  i \in 1..Lesser(k - 1, m - 1) /\ i \in 1..n /\ i \in 1..m - 1
                /\ i \in 1..m
    BY <1>0, <1>2, <1>12 DEF Lesser
  <1>7. ASSUME NEW j \in 1..Lesser(m, k)
        PROVE  lm'[Slot(end', j)] = Pair(steps', j)
    <2>1. CASE j = 1
      BY <2>1, <1>1, <1>4, <1>5
    <2>2. CASE j # 1
      <3> DEFINE i == j - 1
      <3>1. j = i + 1 /\ i \in Nat /\ i >= 1 /\ i + 1 <= Lesser(m, k)
        BY <2>2, <1>3
      <3> HIDE DEF i
      <3>2. i \in 1..Lesser(k - 1, m - 1) /\ i \in 1..n /\ i \in 1..m - 1 /\ i \in 1..m
        BY <1>12, <3>1
      <3>3. Slot(end', i + 1) = Slot(end, i) /\ Slot(end, i) # end
            /\ Slot(end, i) \in Slots
        BY <3>2, <1>4, <1>6
      <3>4. Pair(steps', i + 1) = Pair(steps, i) /\ lm[Slot(end, i)] = Pair(steps, i)
        BY <3>2, <1>1, <1>2
      <3> QED
        BY <3>1, <3>3, <3>4, <1>5
    <2> QED
      BY <2>1, <2>2
  <1>8. MemoryIsRecentPairs'
    <2> DEFINE w == Lesser(m, k)
    <2>1. w \in Nat /\ w = Lesser(MemSize, Len(Curved(steps')))
      BY <1>1, <1>3 DEF m
    <2>2. dir' = [i \in 1..w |-> lm'[Slot(end', i)]]
      BY <1>11 DEF m
    <2>3. \A i \in 1..w : lm'[Slot(end', i)] = Pair(steps', i)
      BY <1>7
    <2> HIDE DEF w
    <2>4. dir' = [i \in 1..w |-> Pair(steps', i)]
      BY <2>2, <2>3
    <2>5. Newest(dir', steps')
      BY <1>0, <2>1, <2>4, DirectionOfPairs
    <2> QED
      BY <2>5 DEF Newest, MemoryIsRecentPairs, CurvedPairs
  <1>9. \A i \in 1..Lesser(k, m - 1) : lm'[Slot(end', i)] = Pair(steps', i)
    <2>1. \A i \in 1..Lesser(k, m - 1) : i \in 1..Lesser(m, k)
      BY <1>0 DEF Lesser
    <2> QED
      BY <1>7, <2>1
  <1>10. k' - 1 = k
    BY <1>0
  <1> QED
    BY <1>1, <1>3, <1>8, <1>9, <1>10 DEF RingHolds, m

\* A step without curvature: its pair takes a slot no one looks at, and the next
\* direction is made afresh.
LEMMA FlatStep ==
  ASSUME SolveTyped, RingHolds, pc = "search", NEW p \in Points,
         steps' = Noted(p, FALSE), lm' = [lm EXCEPT ![end] = <<q, p>>],
         k' = k, end' = end, dir' = <<>>
  PROVE  RingHolds'
  <1> DEFINE L == Len(Curved(steps))
             n == Lesser(L, MemSize)
             m == MemSize
  <1>0. /\ m \in Nat \ {0} /\ end \in Slots /\ k \in Nat \ {0}
        /\ DOMAIN lm = Slots /\ steps \in Seq(StepRecords) /\ q \in Points
    BY Sizes DEF SolveTyped
  <1>1. /\ L \in Nat /\ Len(Curved(steps')) = n
        /\ \A i \in 1..n : Pair(steps', i) = Pair(steps, i)
    BY <1>0, NotedPairs
  <1>2. /\ n = Lesser(k - 1, m)
        /\ \A i \in 1..Lesser(k - 1, m - 1) : lm[Slot(end, i)] = Pair(steps, i)
    BY DEF RingHolds
  <1>3. /\ Lesser(n, m) = n
        /\ \A i \in 1..Lesser(k - 1, m - 1) : i \in 1..n /\ i \in 1..m - 1 /\ i \in 1..m
    BY <1>0, <1>1, <1>2 DEF Lesser
  <1>4. \A i \in 1..m - 1 : Slot(end, i) # end
    BY <1>0, SlotShift
  <1>5. \A s \in Slots : s # end => lm'[s] = lm[s]
    BY <1>0
  <1>6. \A i \in 1..m : Slot(end, i) \in Slots
    BY <1>0, SlotValue
  <1> HIDE DEF n, L, m
  <1>7. \A i \in 1..Lesser(k - 1, m - 1) : lm'[Slot(end, i)] = Pair(steps', i)
    BY <1>1, <1>2, <1>3, <1>4, <1>5, <1>6
  <1>8. MemoryIsRecentPairs'
    BY DEF MemoryIsRecentPairs
  <1> QED
    BY <1>1, <1>2, <1>3, <1>7, <1>8 DEF RingHolds, m

\* A pass starts with an empty ring.
LEMMA EmptyRing ==
  ASSUME steps' = <<>>, k' = 1, dir' = <<>>
  PROVE  RingHolds'
  <1>1. MemoryIsRecentPairs'
    BY DEF MemoryIsRecentPairs
  <1>2. Curved(steps') = <<>> /\ Len(Curved(steps')) = 0
    BY EmptySeq DEF Curved
  <1>3. MemSize \in Nat \ {0}
    BY Sizes
  <1>4. Lesser(0, MemSize) = 0 /\ Lesser(0, MemSize - 1) = 0
    BY <1>3 DEF Lesser
  <1> QED
    BY <1>1, <1>2, <1>4 DEF RingHolds

\* Every step of a solve keeps the ring.
LEMMA RingStep == SolveTyped /\ RingHolds /\ [Next]_vars => RingHolds'
  <1> SUFFICES ASSUME SolveTyped, RingHolds, [Next]_vars PROVE RingHolds'
    OBVIOUS
  <1>1. CASE Enter
    BY <1>1, EmptyRing DEF Enter
  <1>2. CASE SearchRefused \/ TrialFails
    <2>1. pc' = "judge"
      BY <1>2 DEF SearchRefused, TrialFails
    <2> QED
      BY <2>1 DEF RingHolds
  <1>3. CASE TrialAgain
    BY <1>3, RingUntouched DEF TrialAgain
  <1>4. CASE Converged
    BY <1>4 DEF Converged, RingHolds
  <1>5. CASE Iterate
    <2>1. PICK p \in Points, curved \in BOOLEAN :
            /\ pc = "search" /\ steps' = Noted(p, curved)
            /\ lm' = [lm EXCEPT ![end] = <<q, p>>]
            /\ k' = Counted(k, curved) /\ end' = Advance(end, curved)
            /\ dir' = IF ~curved THEN <<>>
                      ELSE [i \in 1..Lesser(MemSize, k) |->
                              lm'[(end' + MemSize * MemSize - i) % MemSize]]
      BY <1>5 DEF Iterate, Move
    <2>2. CASE curved = TRUE
      BY <2>1, <2>2, CurvedStep DEF Counted, Advance
    <2>3. CASE curved = FALSE
      BY <2>1, <2>3, FlatStep DEF Counted, Advance
    <2> QED
      BY <2>2, <2>3
  <1>6. CASE Call \/ Restart \/ LeaveLoop \/ Audit
    <2>1. pc' # "search"
      BY <1>6 DEF Call, Restart, LeaveLoop, Audit
    <2> QED
      BY <2>1 DEF RingHolds
  <1>7. CASE UNCHANGED vars
    BY <1>7, RingUntouched DEF vars, mvars
  <1> QED
    BY <1>1, <1>2, <1>3, <1>4, <1>5, <1>6, <1>7 DEF Next, Minimize, Optimize

\* Every direction of every pass is made of the newest curved pairs, in order
\* and as many as the memory holds, however many flat steps lie between them.
THEOREM MemoryHoldsTheNewest == Spec => []MemoryIsRecentPairs
  <1>1. Init => RingHolds
    BY DEF Init, RingHolds
  <1>2. RingHolds => MemoryIsRecentPairs
    BY DEF RingHolds, MemoryIsRecentPairs
  <1> QED
    BY <1>1, <1>2, RingStep, TypesHold, PTL DEF Spec

-----------------------------------------------------------------------------
(***************************************************************************)
(* The verdict.                                                            *)
(***************************************************************************)

\* Induction up to n, over the set of naturals a fact is known of.
LEMMA UpTo ==
  ASSUME NEW n \in Nat, NEW G, 0 \in G,
         \A i \in 1..n : i - 1 \in G => i \in G
  PROVE  \A i \in 0..n : i \in G
  <1> DEFINE T == {i \in 0..n : i \notin G}
  <1> SUFFICES ASSUME T # {} PROVE FALSE
    OBVIOUS
  <1>1. PICK m \in T : \A y \in T : ~ (<<y, m>> \in OpToRel(<, Nat))
    <2>1. T \subseteq Nat
      OBVIOUS
    <2> HIDE DEF T
    <2> QED
      BY <2>1, NatLessThanWellFounded, WFMin
  <1>2. m \in 0..n /\ m \notin G
    OBVIOUS
  <1>3. m \in 1..n /\ m - 1 \in 0..n
    BY <1>2
  <1>4. m - 1 \notin G
    BY <1>2, <1>3
  <1>5. m - 1 \in T
    BY <1>3, <1>4
  <1>6. <<m - 1, m>> \in OpToRel(<, Nat)
    BY <1>3 DEF OpToRel
  <1> QED
    BY <1>1, <1>5, <1>6

\* The samples among the first m at cruise speed, those that count, those that
\* count against the flight, and the audit's account of them.
AtCruise(s, m) == {j \in 1..m : s[j] \in {"within", "beyond"}}
CountedOf(s, m) == {i \in 1..m : s[i] # "invalid" /\ AtCruise(s, i) # {}}
AgainstOf(s, m) == {i \in CountedOf(s, m) : s[i] # "within"}
AccountOf(s, m) ==
  [cruised |-> AtCruise(s, m) # {}, n |-> Cardinality(CountedOf(s, m)),
   viol |-> Cardinality(AgainstOf(s, m))]

\* An account with its counts, and its flag, replaced.
Accounts == [cruised : BOOLEAN, n : Nat, viol : Nat]

\* What an update of an account's fields leaves.
LEMMA Updated ==
  ASSUME NEW acc \in Accounts, NEW n \in Nat, NEW v \in Nat
  PROVE  /\ [acc EXCEPT !.n = n, !.viol = v] =
              [cruised |-> acc.cruised, n |-> n, viol |-> v]
         /\ [acc EXCEPT !.cruised = TRUE, !.n = n] =
              [cruised |-> TRUE, n |-> n, viol |-> acc.viol]
         /\ [acc EXCEPT !.cruised = TRUE, !.n = n, !.viol = v] =
              [cruised |-> TRUE, n |-> n, viol |-> v]
  <1>1. /\ acc.cruised \in BOOLEAN /\ acc.n \in Nat /\ acc.viol \in Nat
    BY DEF Accounts
  <1>2. [acc EXCEPT !.n = n, !.viol = v] =
          [cruised |-> acc.cruised, n |-> n, viol |-> v]
    <2> DEFINE r == [acc EXCEPT !.n = n, !.viol = v]
    <2>1. r \in Accounts
      BY DEF Accounts
    <2>2. r.n = n /\ r.viol = v /\ r.cruised = acc.cruised
      BY DEF Accounts
    <2> HIDE DEF r
    <2>3. r = [cruised |-> acc.cruised, n |-> n, viol |-> v]
      BY <1>1, <2>1, <2>2 DEF Accounts
    <2> QED
      BY <2>3 DEF r
  <1>3. [acc EXCEPT !.cruised = TRUE, !.n = n] =
          [cruised |-> TRUE, n |-> n, viol |-> acc.viol]
    <2> DEFINE r == [acc EXCEPT !.cruised = TRUE, !.n = n]
    <2>1. r \in Accounts
      BY DEF Accounts
    <2>2. r.n = n /\ r.viol = acc.viol /\ r.cruised = TRUE
      BY DEF Accounts
    <2> HIDE DEF r
    <2>3. r = [cruised |-> TRUE, n |-> n, viol |-> acc.viol]
      BY <1>1, <2>1, <2>2 DEF Accounts
    <2> QED
      BY <2>3 DEF r
  <1>4. [acc EXCEPT !.cruised = TRUE, !.n = n, !.viol = v] =
          [cruised |-> TRUE, n |-> n, viol |-> v]
    <2> DEFINE r == [acc EXCEPT !.cruised = TRUE, !.n = n, !.viol = v]
    <2>1. r \in Accounts
      BY DEF Accounts
    <2>2. r.n = n /\ r.viol = v /\ r.cruised = TRUE
      BY DEF Accounts
    <2> HIDE DEF r
    <2>3. r = [cruised |-> TRUE, n |-> n, viol |-> v]
      BY <2>1, <2>2 DEF Accounts
    <2> QED
      BY <2>3 DEF r
  <1> QED
    BY <1>2, <1>3, <1>4

\* What one sample does to the account, kind by kind.
LEMMA SampleByKind ==
  ASSUME NEW acc \in Accounts, NEW x
  PROVE  /\ x = "invalid" => Counted1(acc, x) = acc
         /\ x \in {"inactive", "stalled"} /\ acc.cruised = FALSE =>
              Counted1(acc, x) = acc
         /\ x \in {"inactive", "stalled"} /\ acc.cruised = TRUE => Counted1(acc, x) =
              [cruised |-> TRUE, n |-> acc.n + 1, viol |-> acc.viol + 1]
         /\ x = "within" => Counted1(acc, x) =
              [cruised |-> TRUE, n |-> acc.n + 1, viol |-> acc.viol]
         /\ x = "beyond" => Counted1(acc, x) =
              [cruised |-> TRUE, n |-> acc.n + 1, viol |-> acc.viol + 1]
  <1> DEFINE n1 == acc.n + 1
             v1 == acc.viol + 1
             r1 == [acc EXCEPT !.n = n1, !.viol = v1]
             r2 == [acc EXCEPT !.cruised = TRUE, !.n = n1]
             r3 == [acc EXCEPT !.cruised = TRUE, !.n = n1, !.viol = v1]
  <1>1. Counted1(acc, x) =
          CASE x = "invalid" -> acc
            [] x \in {"inactive", "stalled"} -> IF acc.cruised THEN r1 ELSE acc
            [] x = "within" -> r2
            [] x = "beyond" -> r3
    BY Zenon DEF Counted1
  <1>2. n1 \in Nat /\ v1 \in Nat
    BY DEF Accounts
  <1> HIDE DEF n1, v1
  <1>3. /\ r1 = [cruised |-> acc.cruised, n |-> n1, viol |-> v1]
        /\ r2 = [cruised |-> TRUE, n |-> n1, viol |-> acc.viol]
        /\ r3 = [cruised |-> TRUE, n |-> n1, viol |-> v1]
    <2>1. r1 = [cruised |-> acc.cruised, n |-> n1, viol |-> v1]
      BY <1>2, Updated, Zenon
    <2>2. r2 = [cruised |-> TRUE, n |-> n1, viol |-> acc.viol]
      BY <1>2, Updated, Zenon
    <2>3. r3 = [cruised |-> TRUE, n |-> n1, viol |-> v1]
      BY <1>2, Updated, Zenon
    <2> QED
      BY <2>1, <2>2, <2>3, Zenon
  <1> HIDE DEF r1, r2, r3
  <1>4. /\ x = "invalid" => Counted1(acc, x) = acc
        /\ x \in {"inactive", "stalled"} =>
             Counted1(acc, x) = IF acc.cruised THEN r1 ELSE acc
        /\ x = "within" => Counted1(acc, x) = r2
        /\ x = "beyond" => Counted1(acc, x) = r3
    BY <1>1
  <1> QED
    BY <1>3, <1>4 DEF n1, v1

\* One more sample changes the account the way the audit counts it.
LEMMA OneMoreSample ==
  ASSUME NEW s \in Seq(SampleKinds), NEW m \in 1..Len(s)
  PROVE  AccountOf(s, m) = Counted1(AccountOf(s, m - 1), s[m])
  <1> DEFINE a == AtCruise(s, m)
             a0 == AtCruise(s, m - 1)
             c == CountedOf(s, m)
             c0 == CountedOf(s, m - 1)
             v == AgainstOf(s, m)
             v0 == AgainstOf(s, m - 1)
  <1>1. /\ m \in Nat \ {0} /\ 1..m = (1..(m - 1)) \cup {m} /\ m \notin 1..(m - 1)
        /\ s[m] \in SampleKinds
    BY ElementOfSeq, LenProperties
  <1>2. a = a0 \cup (IF s[m] \in {"within", "beyond"} THEN {m} ELSE {})
    BY <1>1 DEF AtCruise
  <1>3. c = c0 \cup (IF s[m] # "invalid" /\ a # {} THEN {m} ELSE {})
    BY <1>1 DEF CountedOf
  <1>4. v = v0 \cup (IF s[m] # "invalid" /\ a # {} /\ s[m] # "within"
                     THEN {m} ELSE {})
    BY <1>1, <1>3 DEF AgainstOf
  <1>5. m \notin c0 /\ m \notin v0
    BY <1>1 DEF CountedOf, AgainstOf
  <1>6. IsFiniteSet(c0) /\ IsFiniteSet(v0)
    <2>1. IsFiniteSet(1..(m - 1))
      BY <1>1, FS_Interval
    <2>2. c0 \in SUBSET (1..(m - 1)) /\ v0 \in SUBSET (1..(m - 1))
      BY DEF CountedOf, AgainstOf
    <2> QED
      BY <2>1, <2>2, FS_Subset
  <1>7. /\ Cardinality(c0 \cup {m}) = Cardinality(c0) + 1
        /\ Cardinality(v0 \cup {m}) = Cardinality(v0) + 1
    BY <1>5, <1>6, FS_AddElement
  <1>8. /\ AccountOf(s, m) = [cruised |-> a # {}, n |-> Cardinality(c),
                              viol |-> Cardinality(v)]
        /\ AccountOf(s, m - 1) = [cruised |-> a0 # {}, n |-> Cardinality(c0),
                                  viol |-> Cardinality(v0)]
    BY DEF AccountOf
  <1>14. Cardinality(c0) \in Nat /\ Cardinality(v0) \in Nat
    BY <1>6, FS_CardinalityType
  <1> DEFINE acc == AccountOf(s, m)
             acc0 == AccountOf(s, m - 1)
             N0 == Cardinality(c0)
             V0 == Cardinality(v0)
             b0 == a0 # {}
  <1>15. /\ acc0 \in Accounts
         /\ acc0.n = N0 /\ acc0.viol = V0 /\ acc0.cruised = b0
    <2>1. acc0 = [cruised |-> b0, n |-> N0, viol |-> V0]
      BY <1>8
    <2>2. b0 \in BOOLEAN /\ N0 \in Nat /\ V0 \in Nat
      BY <1>14
    <2> HIDE DEF b0, N0, V0, acc0
    <2> QED
      BY <2>1, <2>2 DEF Accounts
  <1> HIDE DEF a, a0, c, c0, v, v0, acc0, N0, V0
  <1>16. /\ s[m] = "invalid" => Counted1(acc0, s[m]) = acc0
         /\ s[m] \in {"inactive", "stalled"} /\ acc0.cruised = FALSE =>
              Counted1(acc0, s[m]) = acc0
         /\ s[m] \in {"inactive", "stalled"} /\ acc0.cruised = TRUE =>
              Counted1(acc0, s[m]) = [cruised |-> TRUE, n |-> N0 + 1, viol |-> V0 + 1]
         /\ s[m] = "within" => Counted1(acc0, s[m]) =
              [cruised |-> TRUE, n |-> N0 + 1, viol |-> V0]
         /\ s[m] = "beyond" => Counted1(acc0, s[m]) =
              [cruised |-> TRUE, n |-> N0 + 1, viol |-> V0 + 1]
    <2> HIDE DEF b0
    <2> QED
      BY <1>15, SampleByKind
  <1> HIDE DEF acc
  <1>17. /\ acc = [cruised |-> a # {}, n |-> Cardinality(c), viol |-> Cardinality(v)]
         /\ acc0 = [cruised |-> a0 # {}, n |-> N0, viol |-> V0]
    BY <1>8 DEF acc, acc0, N0, V0
  <1>18. /\ Cardinality(c0 \cup {m}) = N0 + 1 /\ Cardinality(v0 \cup {m}) = V0 + 1
         /\ Cardinality(c0) = N0 /\ Cardinality(v0) = V0
    BY <1>7 DEF N0, V0
  <1> SUFFICES acc = Counted1(acc0, s[m])
    BY DEF acc, acc0
  <1>9. CASE s[m] = "invalid"
    <2>1. a = a0 /\ c = c0 /\ v = v0
      BY <1>2, <1>3, <1>4, <1>9
    <2>2. acc = acc0
      BY <1>17, <1>18, <2>1
    <2> QED
      BY <1>9, <1>16, <2>2
  <1>10. CASE s[m] \in {"inactive", "stalled"} /\ a0 = {}
    <2>1. a = a0 /\ c = c0 /\ v = v0
      BY <1>2, <1>3, <1>4, <1>10
    <2>2. acc = acc0
      BY <1>17, <1>18, <2>1
    <2>3. acc0.cruised = FALSE
      BY <1>10, <1>15
    <2> QED
      BY <1>10, <1>16, <2>2, <2>3
  <1>11. CASE s[m] \in {"inactive", "stalled"} /\ a0 # {}
    <2>1. a = a0 /\ c = c0 \cup {m} /\ v = v0 \cup {m}
      BY <1>2, <1>3, <1>4, <1>11
    <2>2. b0 = TRUE
      BY <1>11
    <2>3. acc = [cruised |-> TRUE, n |-> N0 + 1, viol |-> V0 + 1]
      BY <1>17, <1>18, <2>1, <2>2
    <2> QED
      BY <1>11, <1>15, <1>16, <2>2, <2>3
  <1>12. CASE s[m] = "within"
    <2>1. (a # {}) = TRUE /\ c = c0 \cup {m} /\ v = v0
      BY <1>2, <1>3, <1>4, <1>12
    <2>2. acc = [cruised |-> TRUE, n |-> N0 + 1, viol |-> V0]
      BY <1>17, <1>18, <2>1
    <2> QED
      BY <1>12, <1>16, <2>2
  <1>13. CASE s[m] = "beyond"
    <2>1. (a # {}) = TRUE /\ c = c0 \cup {m} /\ v = v0 \cup {m}
      BY <1>2, <1>3, <1>4, <1>13
    <2>2. acc = [cruised |-> TRUE, n |-> N0 + 1, viol |-> V0 + 1]
      BY <1>17, <1>18, <2>1
    <2> QED
      BY <1>13, <1>16, <2>2
  <1> QED
    BY <1>1, <1>9, <1>10, <1>11, <1>12, <1>13 DEF SampleKinds

\* So the audit's loop, sample after sample, ends on the account of them all.
LEMMA TallyIsTheAccount ==
  ASSUME NEW s \in Seq(SampleKinds)
  PROVE  Tally(s) = AccountOf(s, Len(s))
  <1> DEFINE n == Len(s)
             zero == [cruised |-> FALSE, n |-> 0, viol |-> 0]
             IsLoop(t) == t = [i \in 0..n |->
                                 IF i = 0 THEN zero
                                 ELSE Counted1(t[i - 1], s[i])]
             g == [i \in 0..n |-> AccountOf(s, i)]
             loop == CHOOSE t : IsLoop(t)
  <1>1. n \in Nat
    BY LenProperties
  <1>2. AccountOf(s, 0) = zero
    <2>1. AtCruise(s, 0) = {} /\ CountedOf(s, 0) = {} /\ AgainstOf(s, 0) = {}
      BY DEF AtCruise, CountedOf, AgainstOf
    <2> QED
      BY <2>1, FS_EmptySet DEF AccountOf
  <1>3. IsLoop(g)
    <2>1. ASSUME NEW i \in 0..n, i # 0
          PROVE  AccountOf(s, i) = Counted1(g[i - 1], s[i])
      <3>1. i \in 1..n /\ i - 1 \in 0..n
        BY <1>1, <2>1
      <3>2. g[i - 1] = AccountOf(s, i - 1)
        BY <3>1
      <3> HIDE DEF g
      <3> QED
        BY <3>1, <3>2, OneMoreSample
    <2> QED
      BY <1>2, <2>1
  <1>4. IsLoop(loop)
    <2> HIDE DEF g, IsLoop
    <2> QED
      BY <1>3
  <1>5. Tally(s) = loop[n]
    BY DEF Tally
  <1> HIDE DEF loop
  <1>6. \A i \in 0..n : loop[i] = AccountOf(s, i)
    <2> DEFINE G == {i \in 0..n : loop[i] = AccountOf(s, i)}
    <2>1. loop = [i \in 0..n |-> IF i = 0 THEN zero
                                ELSE Counted1(loop[i - 1], s[i])]
      BY <1>4
    <2> HIDE DEF zero, IsLoop, n
    <2>5. /\ loop[0] = zero
          /\ \A i \in 1..n : loop[i] = Counted1(loop[i - 1], s[i])
      <3>1. \A i \in 0..n : loop[i] = IF i = 0 THEN zero
                                     ELSE Counted1(loop[i - 1], s[i])
        BY <2>1
      <3>2. 0 \in 0..n /\ \A i \in 1..n : i \in 0..n /\ i # 0
        BY <1>1
      <3> QED
        BY <3>1, <3>2, Zenon
    <2> USE DEF n
    <2>2. 0 \in G
      BY <1>1, <1>2, <2>5
    <2>3. ASSUME NEW i \in 1..n, i - 1 \in G
          PROVE  i \in G
      <3>1. loop[i - 1] = AccountOf(s, i - 1)
        BY <2>3
      <3>2. loop[i] = AccountOf(s, i)
        BY <2>5, <3>1, OneMoreSample
      <3> QED
        BY <1>1, <3>2
    <2>4. \A i \in 0..n : i \in G
      <3> HIDE DEF G
      <3> QED
        BY <1>1, <2>2, <2>3, UpTo
    <2> QED
      BY <2>4
  <1> QED
    BY <1>1, <1>5, <1>6

\* What the audit reports of a flight, in terms of the samples that count.
LEMMA EnvelopeCounts ==
  ASSUME NEW f, f.samples \in Seq(SampleKinds)
  PROVE  LET e == Envelope(f)
         IN /\ IF Cruise(f) = {} THEN e = IF DynamicsEnable THEN <<1, 1>> ELSE <<0, 1>>
               ELSE e = <<Cardinality(Unfit(f)), Cardinality(Cruise(f))>>
            /\ e[1] \in Nat /\ e[2] \in Nat
  <1> DEFINE s == f.samples
             n == Len(s)
             acc == Tally(s)
  <1>1. DOMAIN s = 1..n /\ n \in Nat
    BY LenProperties
  <1>2. CountedOf(s, n) = Cruise(f)
    BY <1>1 DEF CountedOf, AtCruise, Cruise
  <1>3. AgainstOf(s, n) = Unfit(f)
    BY <1>2 DEF AgainstOf, Unfit
  <1>4. acc.n = Cardinality(Cruise(f)) /\ acc.viol = Cardinality(Unfit(f))
    BY <1>2, <1>3, TallyIsTheAccount DEF AccountOf
  <1>5. IsFiniteSet(Cruise(f)) /\ IsFiniteSet(Unfit(f))
    <2>1. IsFiniteSet(1..n)
      <3> HIDE DEF n
      <3> QED
        BY <1>1, FS_Interval
    <2>2. Cruise(f) \in SUBSET (1..n) /\ Unfit(f) \in SUBSET (1..n)
      BY <1>1 DEF Cruise, Unfit
    <2> QED
      BY <2>1, <2>2, FS_Subset
  <1>6. /\ Cardinality(Cruise(f)) \in Nat /\ Cardinality(Unfit(f)) \in Nat
        /\ Cardinality(Cruise(f)) = 0 <=> Cruise(f) = {}
    BY <1>5, FS_CardinalityType, FS_EmptySet
  <1>7. Envelope(f) = IF acc.n > 0 THEN <<acc.viol, acc.n>>
                      ELSE IF DynamicsEnable THEN <<1, 1>> ELSE <<0, 1>>
    BY DEF Envelope
  <1> HIDE DEF acc
  <1>8. CASE Cruise(f) = {}
    <2>1. ~ (acc.n > 0)
      BY <1>4, <1>6, <1>8
    <2> QED
      BY <1>7, <1>8, <2>1
  <1>9. CASE Cruise(f) # {}
    <2>1. acc.n > 0
      BY <1>4, <1>6, <1>9
    <2> QED
      BY <1>4, <1>6, <1>7, <1>9, <2>1
  <1> QED
    BY <1>8, <1>9

\* The share of the samples that count against a flight, as the gates see it.
LEMMA ShareIsAbove ==
  ASSUME NEW f, f.samples \in Seq(SampleKinds), NEW percent \in Nat
  PROVE  Share(f, percent) <=> Above(Envelope(f), percent)
  <1> DEFINE e == Envelope(f)
  <1>1. /\ IF Cruise(f) = {} THEN e = IF DynamicsEnable THEN <<1, 1>> ELSE <<0, 1>>
           ELSE e = <<Cardinality(Unfit(f)), Cardinality(Cruise(f))>>
        /\ e[1] \in Nat /\ e[2] \in Nat
    BY EnvelopeCounts
  <1> HIDE DEF e
  <1>2. CASE Cruise(f) = {} /\ DynamicsEnable
    <2>1. e[1] = 1 /\ e[2] = 1
      BY <1>1, <1>2
    <2>2. Above(e, percent) <=> percent < 100
      BY <2>1 DEF Above
    <2> QED
      BY <1>2, <2>2 DEF Share, e
  <1>3. CASE Cruise(f) = {} /\ ~DynamicsEnable
    <2>1. e[1] = 0 /\ e[2] = 1
      BY <1>1, <1>3
    <2>2. ~Above(e, percent)
      BY <2>1 DEF Above
    <2> QED
      BY <1>3, <2>2 DEF Share, e
  <1>4. CASE Cruise(f) # {}
    <2>1. e[1] = Cardinality(Unfit(f)) /\ e[2] = Cardinality(Cruise(f))
      BY <1>1, <1>4
    <2> QED
      BY <1>4, <2>1 DEF Share, Above, e
  <1> QED
    BY <1>2, <1>3, <1>4

\* The flag is up exactly when a pass of this solve spent its budget, and the
\* verdict is what the gates say of the accepted point's own flight.
Judged ==
  /\ hit_maxiter \in BOOLEAN /\ hit_maxiter = spent
  /\ pc = "idle" /\ verdict # "none" =>
       LET f == obj.flight[q]
       IN IF Rejects(f, Envelope(f)) THEN verdict = "discarded"
          ELSE verdict = "published"

\* Only the audit gives a verdict, and nothing it read changes before the next
\* call.
LEMMA JudgedStep == Descends /\ Judged /\ [Next]_vars => Judged'
  <1> SUFFICES ASSUME Descends, Judged, [Next]_vars PROVE Judged'
    OBVIOUS
  <1>1. CASE Call
    BY <1>1 DEF Call, Judged
  <1>2. CASE Minimize
    <2>1. pc' # "idle"
      BY <1>2 DEF Minimize, Optimize, Enter, SearchRefused, TrialFails,
                  TrialAgain, Converged, Iterate, Move
    <2>2. hit_maxiter' = hit_maxiter /\ spent' = spent
      BY <1>2 DEF Minimize, svars
    <2> QED
      BY <2>1, <2>2 DEF Judged
  <1>3. CASE Restart
    <2>1. pc' # "idle"
      BY <1>3 DEF Restart
    <2>2. hit_maxiter' = Sticky(hit_maxiter) /\ spent' = (spent \/ IsMaxiter)
      BY <1>3 DEF Restart
    <2> QED
      BY <2>1, <2>2, Zenon DEF Judged, Sticky
  <1>4. CASE LeaveLoop
    <2>1. pc' # "idle"
      BY <1>4 DEF LeaveLoop
    <2>2. hit_maxiter' = Sticky(hit_maxiter) /\ spent' = (spent \/ IsMaxiter)
      BY <1>4 DEF LeaveLoop
    <2> QED
      BY <2>1, <2>2, Zenon DEF Judged, Sticky
  <1>5. CASE Audit
    <2> DEFINE f == obj.flight[q]
    <2>1. jerkOpt = q /\ UNCHANGED <<obj, q, result, hit_maxiter, spent>>
      BY <1>5 DEF Audit, Descends
    <2>2. env' = Envelope(f)
      BY <1>5, <2>1 DEF Audit
    <2>3. verdict' = IF Rejects(f, env') THEN "discarded" ELSE "published"
      BY <1>5, <2>1 DEF Audit
    <2>4. verdict' = IF Rejects(f, Envelope(f)) THEN "discarded" ELSE "published"
      BY <2>2, <2>3
    <2>5. (Rejects(obj.flight[q], Envelope(obj.flight[q])))' <=> Rejects(f, Envelope(f))
      BY <2>1 DEF Rejects
    <2>6. Judged' <=> /\ hit_maxiter' \in BOOLEAN /\ hit_maxiter' = spent'
                      /\ pc' = "idle" /\ verdict' # "none" =>
                           IF (Rejects(obj.flight[q], Envelope(obj.flight[q])))'
                           THEN verdict' = "discarded" ELSE verdict' = "published"
      BY DEF Judged
    <2> HIDE DEF f
    <2> QED
      BY <2>1, <2>4, <2>5, <2>6 DEF Judged
  <1>6. CASE UNCHANGED vars
    BY <1>6 DEF vars, mvars, svars, Judged, Rejects
  <1> QED
    BY <1>1, <1>2, <1>3, <1>4, <1>5, <1>6 DEF Next

\* Every verdict is about the trajectory that was flown and about everything
\* that happened in its solve.
THEOREM VerdictIsItsOwn == Spec => []JudgedByThisFlight
  <1>1. Init => Judged
    BY DEF Init, Judged
  <1>2. SolveTyped /\ Judged => JudgedByThisFlight
    <2> SUFFICES ASSUME SolveTyped, Judged, pc = "idle", verdict # "none"
                 PROVE  JudgedByThisFlight
      BY DEF JudgedByThisFlight
    <2> DEFINE f == obj.flight[q]
               e == Envelope(f)
               doubtful == spent \/ result \in Errors
               hits == CollisionReject /\ Collides(f)
               lax == EnvReject /\ Share(f, EnvHardMax)
               strict == EnvReject /\ Share(f, EnvMax)
    <2>1. f.samples \in Seq(SampleKinds)
      BY SolveAssumption DEF SolveTyped
    <2>2. EnvMax \in Nat /\ EnvHardMax \in Nat /\ EnvMax <= EnvHardMax
      BY SolveAssumption
    <2>3. /\ Share(f, EnvMax) <=> Above(e, EnvMax)
          /\ Share(f, EnvHardMax) <=> Above(e, EnvHardMax)
      BY <2>1, <2>2, ShareIsAbove
    <2>4. Above(e, EnvHardMax) => Above(e, EnvMax)
      <3>1. e[1] \in Nat /\ e[2] \in Nat
        BY <2>1, EnvelopeCounts
      <3> HIDE DEF e
      <3>2. EnvMax * e[2] <= EnvHardMax * e[2]
        BY <2>2, <3>1
      <3>3. EnvMax * e[2] \in Nat /\ EnvHardMax * e[2] \in Nat
        BY <2>2, <3>1
      <3> QED
        BY <3>1, <3>2, <3>3 DEF Above
    <2>5. Rejects(f, e) <=> hits \/ (doubtful /\ strict) \/ lax
      <3>1. hit_maxiter <=> spent
        BY Zenon DEF Judged
      <3> QED
        BY <2>3, <3>1, Zenon DEF Rejects
    <2>6. lax => strict
      BY <2>3, <2>4
    <2>7. IF Rejects(f, e) THEN verdict = "discarded" ELSE verdict = "published"
      BY DEF Judged
    <2>8. JudgedByThisFlight <=>
            ((verdict = "discarded") =
               \/ CollisionReject /\ (f.terrain < 0 \/ f.box < 0)
               \/ EnvReject /\ Share(f, IF doubtful THEN EnvMax ELSE EnvHardMax))
      BY DEF JudgedByThisFlight
    <2>9. (verdict = "discarded") <=> Rejects(f, e)
      BY <2>7
    <2>10. CASE doubtful
      <3>1. Share(f, IF doubtful THEN EnvMax ELSE EnvHardMax) = Share(f, EnvMax)
        BY <2>10
      <3> QED
        BY <2>5, <2>6, <2>8, <2>9, <2>10, <3>1 DEF Collides
    <2>11. CASE ~doubtful
      <3>1. Share(f, IF doubtful THEN EnvMax ELSE EnvHardMax) = Share(f, EnvHardMax)
        BY <2>11
      <3> QED
        BY <2>5, <2>6, <2>8, <2>9, <2>11, <3>1 DEF Collides
    <2> QED
      BY <2>10, <2>11
  <1>3. Spec => []Descends
    BY TypesHold, DescendsInit, DescendsStep, PTL DEF Spec
  <1>4. Spec => []Judged
    BY <1>1, <1>3, JudgedStep, PTL DEF Spec
  <1> QED
    BY <1>2, <1>4, TypesHold, PTL

=============================================================================
