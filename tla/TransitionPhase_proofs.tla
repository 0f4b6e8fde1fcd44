----------------------- MODULE TransitionPhase_proofs -----------------------
(***************************************************************************)
(* Proofs about TransitionPhase for any number of entries, primitives,     *)
(* steps, dwell and knots.                                                 *)
(*                                                                         *)
(* What a capture rests on is kept sample by sample while the candidate is *)
(* flown; what the audit says is kept candidate by candidate.  Two facts   *)
(* about the code's numbers carry the rest: sorting the entries puts the   *)
(* k-th nearest in place k, and knots on every multiple of a spacing no    *)
(* wider than the configured one leave no wider gap.                       *)
(***************************************************************************)
EXTENDS TransitionPhase, TLAPS, FunctionTheorems, FiniteSetTheorems,
        SequenceTheorems, WellFoundedInduction

-----------------------------------------------------------------------------
(***************************************************************************)
(* Minima, maxima, gates.                                                  *)
(***************************************************************************)

\* The smallest element of a set of naturals is in it and below the rest.
LEMMA LeastNatural ==
  ASSUME NEW S \in SUBSET Nat, S # {}
  PROVE  /\ Min(S) \in S
         /\ \A y \in S : Min(S) <= y
  <1> DEFINE R == OpToRel(<, Nat)
  <1>1. \E i \in S : \A j \in S : ~ (<<j, i>> \in R)
    BY NatLessThanWellFounded, WFMin
  <1>2. \A i, j \in Nat : j < i => <<j, i>> \in R
    BY DEF OpToRel
  <1>3. PICK i \in S : \A j \in S : ~ (<<j, i>> \in R)
    BY <1>1
  <1>4. ASSUME NEW j \in S PROVE i <= j
    <2>1. ~ (j < i)
      BY <1>2, <1>3
    <2> QED
      BY <2>1
  <1> QED
    BY <1>4 DEF Min

\* "none" is answered exactly when no gate of the order fails; otherwise one
\* that does.
LEMMA StopperFinds ==
  ASSUME NEW n \in Nat, NEW order, DOMAIN order = 1..n, NEW fails,
         \A i \in 1..n : order[i] # "none"
  PROVE  /\ Stopper(order, fails) = "none" =>
              \A i \in 1..n : order[i] \notin fails
         /\ Stopper(order, fails) # "none" =>
              \E i \in 1..n : /\ Stopper(order, fails) = order[i]
                              /\ order[i] \in fails
  <1> DEFINE hit == {i \in DOMAIN order : order[i] \in fails}
  <1>1. Stopper(order, fails) = IF hit = {} THEN "none" ELSE order[Min(hit)]
    BY DEF Stopper
  <1>2. hit # {} => Min(hit) \in hit
    <2>1. hit \in SUBSET Nat
      OBVIOUS
    <2> QED
      BY <2>1, LeastNatural
  <1>3. \A i \in 1..n : i \in hit <=> order[i] \in fails
    OBVIOUS
  <1>4. hit \subseteq 1..n
    OBVIOUS
  <1> HIDE DEF hit
  <1> QED
    BY <1>1, <1>2, <1>3, <1>4

\* The gates of a state.
LEMMA StateGateOrder ==
  ASSUME NEW fails
  PROVE  /\ Stopper(StateGates, fails) = "none" =>
              {"finiteness", "preguard", "terrain", "stale", "zone"}
                \cap fails = {}
         /\ Stopper(StateGates, fails) # "none" =>
              Stopper(StateGates, fails) \in
                {"finiteness", "preguard", "terrain", "stale", "zone"}
  <1>1. /\ DOMAIN StateGates = 1..5
        /\ \A i \in 1..5 : StateGates[i] # "none"
        /\ \A i \in 1..5 : StateGates[i] \in
             {"finiteness", "preguard", "terrain", "stale", "zone"}
    BY DEF StateGates
  <1>2. \A g \in {"finiteness", "preguard", "terrain", "stale", "zone"} :
          \E i \in 1..5 : StateGates[i] = g
    <2>1. /\ StateGates[1] = "finiteness" /\ StateGates[2] = "preguard"
          /\ StateGates[3] = "terrain" /\ StateGates[4] = "stale"
          /\ StateGates[5] = "zone"
      BY DEF StateGates
    <2> QED
      BY <2>1
  <1> HIDE DEF StateGates
  <1>3. /\ Stopper(StateGates, fails) = "none" =>
              \A i \in 1..5 : StateGates[i] \notin fails
        /\ Stopper(StateGates, fails) # "none" =>
              \E i \in 1..5 : /\ Stopper(StateGates, fails) = StateGates[i]
                              /\ StateGates[i] \in fails
    <2>1. 5 \in Nat
      OBVIOUS
    <2> QED
      BY <1>1, <2>1, StopperFinds, Zenon
  <1> QED
    BY <1>1, <1>2, <1>3

\* The gates of a step.
LEMMA StepGateOrder ==
  ASSUME NEW fails
  PROVE  /\ Stopper(StepGates, fails) = "none" =>
              {"interior", "representable", "saturated", "limits"}
                \cap fails = {}
         /\ Stopper(StepGates, fails) # "none" =>
              Stopper(StepGates, fails) \in
                {"interior", "representable", "saturated", "limits"}
  <1>1. /\ DOMAIN StepGates = 1..4
        /\ \A i \in 1..4 : StepGates[i] # "none"
        /\ \A i \in 1..4 : StepGates[i] \in
             {"interior", "representable", "saturated", "limits"}
    BY DEF StepGates
  <1>2. \A g \in {"interior", "representable", "saturated", "limits"} :
          \E i \in 1..4 : StepGates[i] = g
    <2>1. /\ StepGates[1] = "interior" /\ StepGates[2] = "representable"
          /\ StepGates[3] = "saturated" /\ StepGates[4] = "limits"
      BY DEF StepGates
    <2> QED
      BY <2>1
  <1> HIDE DEF StepGates
  <1>3. /\ Stopper(StepGates, fails) = "none" =>
              \A i \in 1..4 : StepGates[i] \notin fails
        /\ Stopper(StepGates, fails) # "none" =>
              \E i \in 1..4 : /\ Stopper(StepGates, fails) = StepGates[i]
                              /\ StepGates[i] \in fails
    <2>1. 4 \in Nat
      OBVIOUS
    <2> QED
      BY <1>1, <2>1, StopperFinds, Zenon
  <1> QED
    BY <1>1, <1>2, <1>3

\* The names behind the two orders.
LEMMA GateSets ==
  /\ GateNames = {"finiteness", "preguard", "terrain", "zone", "interior",
                  "representable", "saturated", "limits"}
  /\ {StepGates[j] : j \in DOMAIN StepGates} =
       {"interior", "representable", "saturated", "limits"}
  <1>1. DOMAIN StateGates = 1..5 /\ DOMAIN StepGates = 1..4
    BY DEF StateGates, StepGates
  <1>2. /\ StepGates[1] = "interior" /\ StepGates[2] = "representable"
        /\ StepGates[3] = "saturated" /\ StepGates[4] = "limits"
    BY DEF StepGates
  <1>3. /\ StateGates[1] = "finiteness" /\ StateGates[2] = "preguard"
        /\ StateGates[3] = "terrain" /\ StateGates[4] = "stale"
        /\ StateGates[5] = "zone"
    BY DEF StateGates
  <1>4. {StepGates[j] : j \in DOMAIN StepGates} =
          {"interior", "representable", "saturated", "limits"}
    <2>1. ASSUME NEW j \in 1..4
          PROVE  StepGates[j] \in
                   {"interior", "representable", "saturated", "limits"}
      BY <1>2
    <2> QED
      BY <1>1, <1>2, <2>1
  <1>5. {StateGates[j] : j \in DOMAIN StateGates} =
          {"finiteness", "preguard", "terrain", "stale", "zone"}
    <2>1. ASSUME NEW j \in 1..5
          PROVE  StateGates[j] \in
                   {"finiteness", "preguard", "terrain", "stale", "zone"}
      BY <1>3
    <2> QED
      BY <1>1, <1>3, <2>1
  <1> HIDE DEF StateGates, StepGates
  <1> QED
    BY <1>4, <1>5 DEF GateNames

-----------------------------------------------------------------------------
(***************************************************************************)
(* The entries, sorted.                                                    *)
(***************************************************************************)

\* Entry i comes before entry j: nearer, or as near and given earlier.
Nearer(arcs, i, j) == arcs[i] < arcs[j] \/ (arcs[i] = arcs[j] /\ i < j)

\* The place entry i is sorted to.
Place(arcs, i) == Cardinality({j \in DOMAIN arcs : Nearer(arcs, j, i)}) + 1

\* Every place is taken by one entry: the order is strict and total, so no
\* two entries share a place, and there are as many places as entries.
LEMMA EveryPlaceIsTaken ==
  ASSUME NEW n \in Nat, NEW arcs \in [1..n -> Nat], NEW k \in 1..n
  PROVE  \E i \in 1..n : Place(arcs, i) = k
  <1> DEFINE before(i) == {j \in 1..n : Nearer(arcs, j, i)}
             place == [i \in 1..n |-> Cardinality(before(i)) + 1]
  <1>1. DOMAIN arcs = 1..n /\ IsFiniteSet(1..n) /\ Cardinality(1..n) = n
    BY FS_Interval
  <1>2. ASSUME NEW i \in 1..n
        PROVE  /\ IsFiniteSet(before(i)) /\ Cardinality(before(i)) \in 0..(n - 1)
               /\ place[i] = Cardinality(before(i)) + 1
               /\ Place(arcs, i) = place[i]
    <2>1. i \notin before(i) /\ before(i) \subseteq (1..n) \ {i}
      BY DEF Nearer
    <2>2. /\ IsFiniteSet((1..n) \ {i})
          /\ Cardinality((1..n) \ {i}) = n - 1
      BY <1>1, FS_RemoveElement
    <2>3. /\ IsFiniteSet(before(i)) /\ Cardinality(before(i)) <= n - 1
          /\ Cardinality(before(i)) \in Nat
      <3> DEFINE B == before(i)
                 A == (1..n) \ {i}
      <3>1. B \in SUBSET A
        BY <2>1
      <3>2. IsFiniteSet(A) /\ Cardinality(A) = n - 1
        BY <2>2
      <3> HIDE DEF A, B
      <3>3. IsFiniteSet(B) /\ Cardinality(B) <= Cardinality(A)
        BY <3>1, <3>2, FS_Subset, Zenon
      <3>4. Cardinality(B) \in Nat
        BY <3>3, FS_CardinalityType, Zenon
      <3>5. IsFiniteSet(B) /\ Cardinality(B) <= n - 1 /\ Cardinality(B) \in Nat
        BY <3>2, <3>3, <3>4, Zenon
      <3> QED
        BY <3>5 DEF B
    <2>4. Place(arcs, i) = Cardinality(before(i)) + 1
      BY <1>1 DEF Place
    <2>5. place[i] = Cardinality(before(i)) + 1
      OBVIOUS
    <2> HIDE DEF before, place
    <2> QED
      BY <2>3, <2>4, <2>5
  <1>3. place \in [1..n -> 1..n]
    <2> HIDE DEF before
    <2>1. \A i \in 1..n : place[i] \in 1..n
      BY <1>2
    <2> QED
      BY <2>1
  <1>4. ASSUME NEW i \in 1..n, NEW j \in 1..n, Nearer(arcs, i, j)
        PROVE  place[i] < place[j]
    <2>1. before(i) \subseteq before(j) /\ i \in before(j) /\ i \notin before(i)
      BY <1>4 DEF Nearer
    <2>2. /\ Cardinality(before(i)) <= Cardinality(before(j))
          /\ Cardinality(before(i)) # Cardinality(before(j))
      BY <1>2, <2>1, FS_Subset
    <2> HIDE DEF before, place
    <2> QED
      BY <1>2, <2>2
  <1>5. place \in Injection(1..n, 1..n)
    <2>1. ASSUME NEW i \in 1..n, NEW j \in 1..n, place[i] = place[j]
          PROVE  i = j
      <3>1. arcs[i] \in Nat /\ arcs[j] \in Nat
        OBVIOUS
      <3>2. i = j \/ Nearer(arcs, i, j) \/ Nearer(arcs, j, i)
        BY <3>1 DEF Nearer
      <3>3. place[i] \in 1..n /\ place[j] \in 1..n
        BY <1>3
      <3> HIDE DEF place
      <3> QED
        BY <1>4, <2>1, <3>2, <3>3
    <2> HIDE DEF place
    <2> QED
      BY <1>3, <2>1 DEF Injection, IsInjective
  <1> HIDE DEF place
  <1>6. place \in Surjection(1..n, 1..n)
    BY <1>1, <1>5, FS_Injection
  <1>7. \E i \in 1..n : place[i] = k
    BY <1>6 DEF Surjection
  <1> QED
    BY <1>2, <1>7

\* Sorting keeps the number of entries, takes arcs of the request only, and
\* leaves at most k - 1 entries nearer than the k-th.
LEMMA SortedByArc ==
  ASSUME NEW n \in Nat, NEW arcs \in [1..n -> Nat]
  PROVE  /\ Sorted(arcs) \in [1..n -> Nat] /\ Len(Sorted(arcs)) = n
         /\ \A k \in 1..n :
              Cardinality({i \in 1..n : arcs[i] < Sorted(arcs)[k]}) \in 0..(k - 1)
  <1>1. DOMAIN arcs = 1..n /\ IsFiniteSet(1..n)
    BY FS_Interval
  <1>2. ASSUME NEW k \in 1..n
        PROVE  \E i \in 1..n : Sorted(arcs)[k] = arcs[i] /\ Place(arcs, i) = k
    <2> DEFINE i == CHOOSE i \in DOMAIN arcs : Place(arcs, i) = k
    <2>1. i \in 1..n /\ Place(arcs, i) = k
      <3>1. \E j \in DOMAIN arcs : Place(arcs, j) = k
        BY <1>1, EveryPlaceIsTaken
      <3>2. i \in DOMAIN arcs /\ Place(arcs, i) = k
        BY <3>1, Zenon
      <3> QED
        BY <1>1, <3>2
    <2>2. Sorted(arcs)[k] = arcs[i]
      BY <1>1 DEF Sorted, Place, Nearer
    <2> QED
      BY <2>1, <2>2
  <1>3. DOMAIN Sorted(arcs) = 1..n /\ Sorted(arcs) = [k \in 1..n |-> Sorted(arcs)[k]]
    BY <1>1 DEF Sorted
  <1>4. Sorted(arcs) \in [1..n -> Nat]
    BY <1>2, <1>3
  <1>5. Len(Sorted(arcs)) = n
    BY <1>4
  <1>6. ASSUME NEW k \in 1..n
        PROVE  Cardinality({i \in 1..n : arcs[i] < Sorted(arcs)[k]}) \in 0..(k - 1)
    <2>1. PICK m \in 1..n : Sorted(arcs)[k] = arcs[m] /\ Place(arcs, m) = k
      BY <1>2
    <2> DEFINE nearer == {i \in 1..n : arcs[i] < arcs[m]}
               before == {j \in 1..n : Nearer(arcs, j, m)}
    <2>2. nearer \subseteq before /\ IsFiniteSet(before)
      BY <1>1, FS_Subset DEF Nearer
    <2>3. /\ IsFiniteSet(nearer) /\ Cardinality(nearer) <= Cardinality(before)
          /\ Cardinality(nearer) \in Nat /\ Cardinality(before) \in Nat
      BY <2>2, FS_Subset, FS_CardinalityType, Zenon
    <2>4. Place(arcs, m) = Cardinality(before) + 1
      BY <1>1 DEF Place
    <2> HIDE DEF before, nearer
    <2>5. Cardinality(before) = k - 1
      BY <2>1, <2>3, <2>4
    <2>6. Cardinality(nearer) \in 0..(k - 1)
      BY <2>3, <2>5
    <2> QED
      BY <2>1, <2>6 DEF nearer
  <1> QED
    BY <1>4, <1>5, <1>6

-----------------------------------------------------------------------------
(***************************************************************************)
(* The knots.                                                              *)
(***************************************************************************)

\* No spacing of the ladder is wider than the configured one.
LEMMA SpacingBounds ==
  ASSUME NEW l \in 0..2
  PROVE  Spacing(l) \in Nat \ {0} /\ Spacing(l) <= KnotStep
  <1> DEFINE finer == KnotStep \div 2^l
  <1>1. KnotStep \in Nat \ {0}
    BY CountAssumption
  <1>2. finer \in Nat /\ finer <= KnotStep
    <2>1. 2^0 = 1 /\ 2^1 = 2 /\ 2^2 = 4
      OBVIOUS
    <2>2. l = 0 \/ l = 1 \/ l = 2
      OBVIOUS
    <2>3. CASE l = 0
      BY <1>1, <2>1, <2>3
    <2>4. CASE l = 1
      BY <1>1, <2>1, <2>4
    <2>5. CASE l = 2
      BY <1>1, <2>1, <2>5
    <2> QED
      BY <2>2, <2>3, <2>4, <2>5
  <1> HIDE DEF finer
  <1>3. Max({1, finer}) = IF finer >= 1 THEN finer ELSE 1
    BY <1>2 DEF Max
  <1>4. Spacing(l) = Max({1, finer})
    BY DEF Spacing, finer
  <1> QED
    BY <1>1, <1>2, <1>3, <1>4

\* The next multiple of s after i is at most s away.
LEMMA NextMultiple ==
  ASSUME NEW s \in Nat \ {0}, NEW i \in Nat
  PROVE  \E j \in Nat : i < j /\ j <= i + s /\ j % s = 0
  <1> DEFINE q == i \div s
             j == s * (q + 1)
  <1>1. i = s * q + (i % s) /\ i % s \in 0..(s - 1) /\ q \in Nat
    OBVIOUS
  <1>2. j = s * q + s
    BY <1>1
  <1>3. s * q \in Nat
    BY <1>1
  <1>4. i < j /\ j <= i + s /\ j \in Nat
    <2> DEFINE p == s * q
               r == i % s
    <2>1. p \in Nat /\ r \in 0..(s - 1) /\ i = p + r /\ j = p + s
      BY <1>1, <1>2, <1>3
    <2> HIDE DEF p, r, j
    <2> QED
      BY <2>1
  <1>5. j % s = 0
    <2>1. q + 1 \in Nat
      BY <1>1
    <2>2. \A m \in Nat : (s * m) % s = 0
      OBVIOUS
    <2> HIDE DEF q
    <2> QED
      BY <2>1, <2>2
  <1> HIDE DEF j
  <1> QED
    BY <1>4, <1>5

\* The spline has its first and its last sample, and between them no gap wider
\* than the configured knots.
LEMMA KnotsAreDense ==
  ASSUME level \in 0..2, Len(samples) \in Nat \ {0}
  PROVE  /\ {0, Len(samples) - 1} \subseteq Knots
         /\ \A i \in 0..Len(samples) - 1 - KnotStep :
              \E j \in Knots : i < j /\ j <= i + KnotStep
  <1> DEFINE n == Len(samples)
             s == Spacing(level)
  <1>1. s \in Nat \ {0} /\ s <= KnotStep /\ KnotStep \in Nat
    BY SpacingBounds, CountAssumption
  <1>2. Knots = {i \in 0..n - 1 : i % s = 0 \/ i = n - 1}
    BY DEF Knots
  <1> HIDE DEF n, s
  <1>3. n \in Nat \ {0}
    BY DEF n
  <1>4. 0 % s = 0
    BY <1>1
  <1>5. {0, n - 1} \subseteq Knots
    BY <1>2, <1>3, <1>4
  <1>6. ASSUME NEW i \in 0..n - 1 - KnotStep
        PROVE  \E j \in Knots : i < j /\ j <= i + KnotStep
    <2>1. i \in Nat
      OBVIOUS
    <2>2. PICK j \in Nat : i < j /\ j <= i + s /\ j % s = 0
      BY <1>1, <2>1, NextMultiple
    <2>3. j \in 0..n - 1 /\ j <= i + KnotStep
      BY <1>1, <1>3, <2>2
    <2> QED
      BY <1>2, <2>2, <2>3
  <1> QED
    BY <1>5, <1>6 DEF n

-----------------------------------------------------------------------------
(***************************************************************************)
(* The invariant.                                                          *)
(***************************************************************************)

\* Every variable stays in its range.
Typed ==
  /\ req \in Requests
  /\ policy \in {"current", "stale"}
  /\ pc \in {"commit", "screen", "fly", "captured", "adapt", "done"}
  /\ candidate \in Nat
  /\ samples \in Seq(Situations) /\ dwell \in Nat
  /\ level \in 0..2 /\ reached \in BOOLEAN
  /\ audit \in [Counters -> Nat]

\* The gates a flight is judged by, the ground's only where it is known.
JudgedGates ==
  IF req.floor = "terrain" THEN GateNames ELSE GateNames \ {"terrain"}

\* The gates of a step's command, which the last sample need not pass.
CommandGates == {"interior", "representable", "saturated", "limits"}

\* What the candidate has flown through so far: the gates each sample passed,
\* and a window without a break for as long as the dwell counts.
Sampled ==
  /\ dwell <= Len(samples)
  /\ \A i \in Len(samples) - dwell + 1..Len(samples) : samples[i].window
  /\ \A i \in 1..Len(samples) :
       samples[i].fails \cap (JudgedGates \ CommandGates) = {}
  /\ \A i \in 1..Len(samples) :
       i < Len(samples) \/ pc = "fly" => samples[i].fails \cap JudgedGates = {}

\* What a capture needs is there from the capture to the answer.
Earned ==
  pc \in {"captured", "adapt"} \/ result.ok =>
    /\ dwell >= DwellSteps
    /\ samples[Len(samples)].capturable

\* A success has its spline: on the knots of the level it was accepted at.
Splined == result.ok => pc = "done" /\ result.knots = Knots

\* Where the enumeration stands: one disqualification for every candidate
\* before the one being tried, and an adapter's refusal for every handoff that
\* was reached before.
Enumerated ==
  /\ pc \in {"commit", "screen"} =>
       /\ candidate = 0 /\ Disqualified = 0 /\ ~ reached
       /\ result = NoResult /\ samples = <<>> /\ dwell = 0
  /\ pc \in {"fly", "captured", "adapt"} =>
       /\ entries = Sorted(req.arcs)
       /\ candidate \in 1..Primitives * Len(req.arcs)
       /\ Disqualified = candidate - 1
       /\ result = NoResult
  /\ pc \in {"fly", "captured"} /\ reached => audit["adapter"] > 0

PhaseInv ==
  /\ Typed /\ Sampled /\ Earned /\ Splined
  /\ Enumerated /\ AuditExplainsTheAnswer

\* No call has been answered, nothing was flown.
LEMMA InitPhaseInv == Init => PhaseInv
  <1> SUFFICES ASSUME Init PROVE PhaseInv
    OBVIOUS
  <1> USE DEF Init
  <1>1. audit \in [Counters -> Nat] /\ \A c \in Counters : audit[c] = 0
    OBVIOUS
  <1>2. Typed
    <2>1. samples \in Seq(Situations) /\ audit \in [Counters -> Nat]
      BY <1>1, EmptySeq
    <2>2. /\ req \in Requests /\ policy = "current" /\ pc = "commit"
          /\ candidate \in Nat /\ dwell \in Nat /\ level \in 0..2
      OBVIOUS
    <2>3. reached \in BOOLEAN
      BY Zenon
    <2> HIDE DEF Init
    <2> QED
      BY <2>1, <2>2, <2>3, Zenon DEF Typed
  <1>3. Sampled /\ Earned /\ Splined
    BY DEF Sampled, Earned, Splined, NoResult
  <1>4. Disqualified = 0
    BY <1>1 DEF Disqualified, Counters
  <1>5. Enumerated
    BY <1>4 DEF Enumerated
  <1>6. AuditExplainsTheAnswer
    BY <1>4 DEF AuditExplainsTheAnswer, NoResult
  <1> QED
    BY <1>2, <1>3, <1>5, <1>6 DEF PhaseInv

-----------------------------------------------------------------------------
(***************************************************************************)
(* The samples.                                                            *)
(***************************************************************************)

\* Passing the gates of a state means failing none that is judged.
LEMMA PassedGates ==
  ASSUME NEW s \in Situations, Passes(s)
  PROVE  /\ policy # "stale"
         /\ s.fails \cap (JudgedGates \ CommandGates) = {}
         /\ Stopper(StepGates, s.fails) = "none" =>
              s.fails \cap JudgedGates = {}
  <1> DEFINE f == Facts(s)
  <1>1. {"finiteness", "preguard", "terrain", "stale", "zone"} \cap f = {}
    BY StateGateOrder DEF Passes
  <1>2. /\ policy # "stale"
        /\ s.fails \subseteq f \cup {"terrain"}
        /\ req.floor = "terrain" => s.fails \subseteq f
    BY <1>1 DEF Facts
  <1> HIDE DEF f
  <1>3. JudgedGates \ CommandGates \subseteq
          {"finiteness", "preguard", "terrain", "zone"}
    BY GateSets DEF JudgedGates, CommandGates
  <1>4. req.floor # "terrain" => "terrain" \notin JudgedGates
    BY DEF JudgedGates
  <1>5. s.fails \cap (JudgedGates \ CommandGates) = {}
    BY <1>1, <1>2, <1>3, <1>4
  <1>6. ASSUME Stopper(StepGates, s.fails) = "none"
        PROVE  s.fails \cap JudgedGates = {}
    <2>1. s.fails \cap CommandGates = {}
      BY <1>6, StepGateOrder DEF CommandGates
    <2> QED
      BY <1>5, <2>1
  <1> QED
    BY <1>2, <1>5, <1>6

\* A sample that passed the gates of a state, and those of its command unless
\* it is the captured one, joins the flight.
LEMMA SampleAdded ==
  ASSUME Typed, Sampled, pc = "fly", NEW s \in Situations, Passes(s),
         samples' = Append(samples, s), dwell' = Dwell(s), UNCHANGED req,
         pc' = "fly" => Stopper(StepGates, s.fails) = "none"
  PROVE  /\ samples' \in Seq(Situations) /\ dwell' \in Nat
         /\ samples'[Len(samples')] = s
         /\ Sampled'
  <1> DEFINE n == Len(samples)
  <1>1. /\ samples' \in Seq(Situations) /\ Len(samples') = n + 1
        /\ \A i \in 1..n : samples'[i] = samples[i]
        /\ samples'[n + 1] = s
    BY AppendProperties DEF Typed
  <1>2. n \in Nat /\ dwell \in Nat
    BY DEF Typed
  <1>3. dwell' = IF s.window THEN dwell + 1 ELSE 0
    BY DEF Dwell
  <1>4. dwell' \in Nat /\ dwell' <= n + 1
    BY <1>2, <1>3 DEF Sampled
  <1>5. JudgedGates' = JudgedGates
    BY DEF JudgedGates
  <1>6. /\ s.fails \cap (JudgedGates \ CommandGates) = {}
        /\ pc' = "fly" => s.fails \cap JudgedGates = {}
    BY PassedGates
  <1>7. /\ \A i \in n - dwell + 1..n : samples[i].window
        /\ \A i \in 1..n : samples[i].fails \cap (JudgedGates \ CommandGates) = {}
        /\ \A i \in 1..n : samples[i].fails \cap JudgedGates = {}
        /\ dwell <= n
    BY DEF Sampled
  <1> HIDE DEF n
  <1>8. ASSUME NEW i \in n + 1 - dwell' + 1..n + 1
        PROVE  samples'[i].window
    <2>1. CASE i = n + 1
      BY <1>1, <1>2, <1>3, <2>1
    <2>2. CASE i # n + 1
      <3>1. s.window /\ dwell' = dwell + 1
        BY <1>2, <1>3, <2>2
      <3>2. i \in n - dwell + 1..n /\ i \in 1..n
        <4>1. dwell <= n /\ i \in Int /\ n + 1 - dwell' + 1 <= i /\ i <= n + 1
          BY <1>2, <1>4, <1>7
        <4> QED
          BY <1>2, <2>2, <3>1, <4>1
      <3> QED
        BY <1>1, <1>7, <3>2
    <2> QED
      BY <2>1, <2>2
  <1>9. ASSUME NEW i \in 1..n + 1
        PROVE  /\ samples'[i].fails \cap (JudgedGates \ CommandGates) = {}
               /\ i < n + 1 \/ pc' = "fly" =>
                    samples'[i].fails \cap JudgedGates = {}
    <2>1. CASE i = n + 1
      BY <1>1, <1>2, <1>6, <2>1
    <2>2. CASE i # n + 1
      <3>1. i \in 1..n
        BY <1>2, <2>2
      <3> QED
        BY <1>1, <1>7, <3>1
    <2> QED
      BY <2>1, <2>2
  <1>10. CommandGates' = CommandGates
    BY DEF CommandGates
  <1> QED
    BY <1>1, <1>4, <1>5, <1>8, <1>9, <1>10 DEF Sampled, n

-----------------------------------------------------------------------------
(***************************************************************************)
(* The enumeration.                                                        *)
(***************************************************************************)

\* The request's entries, sorted: as many as were screened.
LEMMA EntryCount ==
  ASSUME req \in Requests
  PROVE  /\ Len(req.arcs) \in Nat
         /\ req.arcs \in [1..Len(req.arcs) -> Nat]
         /\ Len(Sorted(req.arcs)) = Len(req.arcs)
         /\ Primitives * Len(req.arcs) \in Nat
  <1>1. PICK n \in 0..MaxEntries : req.arcs \in [1..n -> Arcs]
    BY DEF Requests
  <1>2. n \in Nat /\ Arcs \subseteq Nat /\ Primitives \in Nat
    BY CountAssumption
  <1>3. req.arcs \in [1..n -> Nat] /\ Len(req.arcs) = n
    <2> DEFINE arcs == req.arcs
    <2>1. arcs \in [1..n -> Arcs]
      BY <1>1
    <2> HIDE DEF arcs
    <2>2. arcs \in [1..n -> Nat]
      BY <1>2, <2>1
    <2>3. Len(arcs) = n
      BY <1>2, <2>2
    <2> QED
      BY <2>2, <2>3 DEF arcs
  <1>4. Len(Sorted(req.arcs)) = n
    BY <1>2, <1>3, SortedByArc
  <1> QED
    BY <1>2, <1>3, <1>4

\* One counter of the audit goes up by one.
LEMMA Counted ==
  ASSUME audit \in [Counters -> Nat], NEW c \in Counters,
         audit' = [audit EXCEPT ![c] = @ + 1]
  PROVE  /\ audit' \in [Counters -> Nat]
         /\ Disqualified \in Nat /\ Disqualified' = Disqualified + 1
         /\ audit["adapter"] > 0 => audit'["adapter"] > 0
         /\ c = "adapter" => audit'["adapter"] > 0
  <1>1. \A d \in Counters :
          /\ audit[d] \in Nat
          /\ audit'[d] = IF d = c THEN audit[d] + 1 ELSE audit[d]
    OBVIOUS
  <1>2. audit' \in [Counters -> Nat]
    OBVIOUS
  <1> QED
    BY <1>1, <1>2 DEF Counters, Disqualified

\* Every gate has its counter.
LEMMA GateCounters ==
  \A gate \in {"finiteness", "preguard", "terrain", "zone", "interior",
               "representable", "saturated", "limits", "timeout", "end_pva",
               "adapter"} : Counter(gate) \in Counters
  BY DEF Counter, Counters

\* A disqualified candidate is counted once, and either the next one is tried
\* or the answer says what became of all of them.
LEMMA DisqualifyStep ==
  ASSUME PhaseInv, pc \in {"fly", "captured", "adapt"},
         NEW gate \in {"finiteness", "preguard", "terrain", "zone", "interior",
                       "representable", "saturated", "limits", "timeout",
                       "end_pva", "adapter"},
         pc = "adapt" => gate = "adapter",
         Disqualify(gate), UNCHANGED <<req, policy, entries, reached>>
  PROVE  PhaseInv'
  <1>0. /\ Typed /\ Enumerated
    BY DEF PhaseInv
  <1>1. /\ audit' \in [Counters -> Nat]
        /\ Disqualified \in Nat /\ Disqualified' = Disqualified + 1
        /\ audit["adapter"] > 0 => audit'["adapter"] > 0
        /\ gate = "adapter" => audit'["adapter"] > 0
    <2>1. /\ Counter(gate) \in Counters
          /\ audit' = [audit EXCEPT ![Counter(gate)] = @ + 1]
      BY GateCounters DEF Disqualify
    <2>2. gate = "adapter" => Counter(gate) = "adapter"
      BY DEF Counter
    <2> QED
      BY <1>0, <2>1, <2>2, Counted DEF Typed
  <1>2. reached => audit'["adapter"] > 0
    BY <1>0, <1>1 DEF Enumerated
  <1>3. /\ samples' = <<>> /\ dwell' = 0 /\ level' = 0
    BY DEF Disqualify
  <1>4. /\ entries = Sorted(req.arcs) /\ Len(entries) = Len(req.arcs)
        /\ candidate \in 1..Primitives * Len(req.arcs)
        /\ Primitives * Len(req.arcs) \in Nat
        /\ Disqualified = candidate - 1
        /\ result = NoResult
    BY <1>0, EntryCount DEF Enumerated, Typed
  <1> DEFINE all == Primitives * Len(req.arcs)
  <1>5. \/ /\ candidate < all /\ candidate' = candidate + 1
           /\ pc' = "fly" /\ UNCHANGED result
        \/ /\ candidate = all /\ candidate' = candidate /\ pc' = "done"
           /\ result' = [ok |-> FALSE, reason |->
                            IF reached THEN "adapter" ELSE "propagation"]
    BY <1>4 DEF Disqualify, Fail
  <1>6. result'.ok = FALSE
    BY <1>4, <1>5 DEF NoResult
  <1>7. Typed'
    BY <1>0, <1>1, <1>3, <1>4, <1>5, EmptySeq DEF Typed
  <1>8. Sampled'
    BY <1>3 DEF Sampled
  <1>9. Earned' /\ Splined'
    BY <1>5, <1>6 DEF Earned, Splined
  <1>10. Enumerated'
    BY <1>1, <1>2, <1>4, <1>5 DEF Enumerated
  <1>11. AuditExplainsTheAnswer'
    BY <1>1, <1>2, <1>4, <1>5 DEF AuditExplainsTheAnswer, NoResult
  <1> QED
    BY <1>7, <1>8, <1>9, <1>10, <1>11 DEF PhaseInv

\* When a stale policy stops the enumeration, the candidate it stopped is the
\* one that no gate counted.
LEMMA AbortStep ==
  ASSUME PhaseInv, pc \in {"fly", "captured", "adapt"}, Abort,
         UNCHANGED <<req, policy, entries, reached>>
  PROVE  PhaseInv'
  <1>0. /\ Typed /\ Sampled /\ Enumerated
    BY DEF PhaseInv
  <1>1. /\ pc' = "done" /\ result' = [ok |-> FALSE, reason |-> "stale"]
        /\ UNCHANGED <<candidate, samples, dwell, level, audit>>
    BY DEF Abort, Fail, flightVars
  <1>2. Disqualified' = Disqualified /\ Disqualified = candidate - 1
        /\ candidate \in Nat
    BY <1>0, <1>1 DEF Disqualified, Enumerated, Typed
  <1>3. Typed'
    BY <1>0, <1>1 DEF Typed
  <1>4. Sampled'
    BY <1>0, <1>1 DEF Sampled, JudgedGates, CommandGates
  <1>5. Earned' /\ Splined' /\ Enumerated'
    BY <1>1 DEF Earned, Splined, Enumerated
  <1>6. AuditExplainsTheAnswer'
    BY <1>1, <1>2 DEF AuditExplainsTheAnswer
  <1> QED
    BY <1>3, <1>4, <1>5, <1>6 DEF PhaseInv

-----------------------------------------------------------------------------
(***************************************************************************)
(* Every step keeps the invariant.                                         *)
(***************************************************************************)

\* Steps of the coordinator: a refusal flies nothing and counts nothing.
LEMMA CommitStep ==
  ASSUME PhaseInv, Commit
  PROVE  PhaseInv'
  <1>0. /\ Typed /\ Sampled /\ Enumerated /\ pc = "commit"
        /\ UNCHANGED <<req, policy, entries, candidate, samples, dwell, level,
                       fit, reached, audit>>
    BY DEF PhaseInv, Commit, coordVars, flightVars
  <1>1. \/ pc' = "screen" /\ UNCHANGED result
        \/ /\ pc' = "done"
           /\ \E r \in {"parameters", "route", "snapshot"} :
                result' = [ok |-> FALSE, reason |-> r]
    BY DEF Commit, Fail
  <1>2. /\ candidate = 0 /\ Disqualified = 0 /\ ~ reached
        /\ result = NoResult /\ UNCHANGED <<Disqualified, JudgedGates>>
    BY <1>0 DEF Enumerated, Disqualified, JudgedGates
  <1>3. Typed'
    BY <1>0, <1>1 DEF Typed
  <1>4. Sampled'
    BY <1>0, <1>1, <1>2 DEF Sampled, CommandGates
  <1>5. Earned' /\ Splined'
    BY <1>1, <1>2 DEF Earned, Splined, NoResult
  <1>6. Enumerated'
    BY <1>0, <1>1, <1>2 DEF Enumerated
  <1>7. AuditExplainsTheAnswer'
    BY <1>0, <1>1, <1>2 DEF AuditExplainsTheAnswer, NoResult
  <1> QED
    BY <1>3, <1>4, <1>5, <1>6, <1>7 DEF PhaseInv

\* What the generator refuses for are not its own verdicts; without a refusal
\* there is an entry to try.
LEMMA RefusalNames ==
  /\ Refusal \in {"none", "no entry", "no terrain source", "limits",
                  "start acceleration"}
  /\ Refusal = "none" => req.arcs # <<>>
  <1> DEFINE order == <<"no entry", "no terrain source", "limits",
                        "start acceleration">>
             names == {order[i] : i \in DOMAIN order}
             fails == {p \in names : Problem(p)}
  <1>1. /\ DOMAIN order = 1..4 /\ order[1] = "no entry"
        /\ \A i \in 1..4 : order[i] \in {"no entry", "no terrain source",
                                          "limits", "start acceleration"}
    OBVIOUS
  <1>2. \A i \in 1..4 : order[i] # "none"
    BY <1>1
  <1>3. Refusal = Stopper(order, fails)
    BY DEF Refusal
  <1>4. order[1] \in fails <=> Problem("no entry")
    <2> HIDE DEF order
    <2>1. 1 \in DOMAIN order
      <3>1. 1 \in 1..4
        OBVIOUS
      <3> QED
        BY <1>1, <3>1, Zenon
    <2>2. order[1] = "no entry" /\ order[1] \in names
      BY <1>1, <2>1, Zenon
    <2> HIDE DEF names
    <2> QED
      BY <2>2
  <1>5. Problem("no entry") <=> req.arcs = <<>>
    BY DEF Problem
  <1> HIDE DEF order, fails, names
  <1>6. 4 \in Nat /\ 1 \in 1..4
    OBVIOUS
  <1>7. /\ Stopper(order, fails) = "none" =>
             \A i \in 1..4 : order[i] \notin fails
        /\ Stopper(order, fails) # "none" =>
             \E i \in 1..4 : Stopper(order, fails) = order[i] /\ order[i] \in fails
    BY <1>1, <1>2, <1>6, StopperFinds, Zenon
  <1> QED
    BY <1>1, <1>3, <1>4, <1>5, <1>6, <1>7

\* Refusals before the first candidate keep the invariant.
LEMMA ScreenStep ==
  ASSUME PhaseInv, Screen
  PROVE  PhaseInv'
  <1>0. /\ Typed /\ Sampled /\ Enumerated /\ pc = "screen"
        /\ UNCHANGED <<req, policy, samples, dwell, level, fit, reached, audit>>
    BY DEF PhaseInv, Screen, flightVars
  <1>1. \/ /\ Refusal = "none" /\ entries' = Sorted(req.arcs)
           /\ candidate' = 1 /\ pc' = "fly" /\ UNCHANGED result
        \/ /\ Refusal # "none" /\ pc' = "done"
           /\ result' = [ok |-> FALSE, reason |-> Refusal]
           /\ UNCHANGED candidate
    BY DEF Screen, Fail
  <1>2. /\ candidate = 0 /\ Disqualified = 0 /\ ~ reached
        /\ result = NoResult /\ UNCHANGED <<Disqualified, JudgedGates>>
    BY <1>0 DEF Enumerated, Disqualified, JudgedGates
  <1>3. Typed'
    BY <1>0, <1>1 DEF Typed
  <1>4. Sampled'
    BY <1>0 DEF Enumerated, Sampled
  <1>5. Earned' /\ Splined'
    BY <1>1, <1>2 DEF Earned, Splined, NoResult
  <1>6. Refusal = "none" => 1 \in 1..Primitives * Len(req.arcs)
    <2>1. /\ Len(req.arcs) \in Nat /\ req.arcs \in Seq(Nat)
      <3>1. /\ Len(req.arcs) \in Nat
            /\ req.arcs \in [1..Len(req.arcs) -> Nat]
        BY <1>0, EntryCount DEF Typed
      <3> QED
        BY <3>1
    <2>2. Refusal = "none" => Len(req.arcs) # 0
      BY <2>1, RefusalNames, EmptySeq
    <2>3. Primitives \in Nat \ {0}
      BY CountAssumption
    <2> QED
      BY <2>1, <2>2, <2>3
  <1>7. Enumerated'
    BY <1>0, <1>1, <1>2, <1>6 DEF Enumerated
  <1>8. AuditExplainsTheAnswer'
    <2>1. CASE pc' = "fly"
      BY <1>1, <1>2, <2>1 DEF AuditExplainsTheAnswer, NoResult
    <2>2. CASE pc' # "fly"
      <3>1. /\ pc' = "done" /\ candidate' = 0
            /\ result' = [ok |-> FALSE, reason |-> Refusal]
        BY <1>1, <1>2, <2>2
      <3>2. Refusal \notin {"stale", "adapter", "propagation"}
        BY RefusalNames
      <3> QED
        BY <1>2, <3>1, <3>2 DEF AuditExplainsTheAnswer
    <2> QED
      BY <2>1, <2>2
  <1> QED
    BY <1>3, <1>4, <1>5, <1>7, <1>8 DEF PhaseInv

\* The gate a step of the flight stops at is one with a counter, or "stale".
LEMMA FlightGates ==
  ASSUME NEW s \in Situations
  PROVE  /\ Stopper(StateGates, Facts(s)) \in
              {"none", "stale", "finiteness", "preguard", "terrain", "zone"}
         /\ Stopper(StepGates, s.fails) \in
              {"none", "interior", "representable", "saturated", "limits"}
  BY StateGateOrder, StepGateOrder

\* A gate on the state disqualifies, or a stale policy stops everything.
LEMMA StateFailsStep ==
  ASSUME PhaseInv, NEW s \in Situations, StateFails(s)
  PROVE  PhaseInv'
  <1> DEFINE gate == Stopper(StateGates, Facts(s))
  <1>1. /\ pc = "fly" /\ gate # "none"
        /\ IF gate = "stale" THEN Abort ELSE Disqualify(gate)
        /\ UNCHANGED <<req, policy, entries, reached>>
    BY DEF StateFails, callVars
  <1>2. gate \in {"none", "stale", "finiteness", "preguard", "terrain", "zone"}
    BY FlightGates
  <1> HIDE DEF gate
  <1>3. CASE gate = "stale"
    BY <1>1, <1>3, AbortStep
  <1>4. CASE gate # "stale"
    BY <1>1, <1>2, <1>4, DisqualifyStep
  <1> QED
    BY <1>3, <1>4

\* A capture ends the flight on a sample that can be captured, with the whole
\* dwell behind it.
LEMMA CaptureStep ==
  ASSUME PhaseInv, NEW s \in Situations, Capture(s)
  PROVE  PhaseInv'
  <1>0. /\ Typed /\ Sampled /\ Enumerated /\ pc = "fly" /\ Passes(s)
        /\ Dwell(s) >= DwellSteps /\ s.capturable
        /\ samples' = Append(samples, s) /\ dwell' = Dwell(s)
        /\ pc' = "captured"
        /\ UNCHANGED <<req, policy, entries, reached, candidate, level, fit,
                       audit, result>>
    BY DEF PhaseInv, Capture, Captures, Passes, callVars
  <1>1. /\ samples' \in Seq(Situations) /\ dwell' \in Nat
        /\ samples'[Len(samples')] = s /\ Sampled'
    <2>1. pc' = "fly" => Stopper(StepGates, s.fails) = "none"
      BY <1>0
    <2> QED
      BY <1>0, <2>1, SampleAdded
  <1>2. Disqualified' = Disqualified
    BY <1>0 DEF Disqualified
  <1>3. Typed'
    BY <1>0, <1>1 DEF Typed
  <1>4. Earned'
    BY <1>0, <1>1 DEF Earned
  <1>5. Splined' /\ Enumerated'
    BY <1>0, <1>2 DEF Splined, Enumerated, NoResult
  <1>6. AuditExplainsTheAnswer'
    BY <1>0, <1>2 DEF AuditExplainsTheAnswer, Enumerated, NoResult, Typed
  <1> QED
    BY <1>1, <1>3, <1>4, <1>5, <1>6 DEF PhaseInv

\* A step in the flight passes every gate or disqualifies.
LEMMA FlyStep ==
  ASSUME PhaseInv, NEW s \in Situations, Fly(s)
  PROVE  PhaseInv'
  <1> DEFINE gate == Stopper(StepGates, s.fails)
  <1>0. /\ Typed /\ Sampled /\ Enumerated /\ pc = "fly" /\ Passes(s)
        /\ UNCHANGED <<req, policy, entries, reached>>
    BY DEF PhaseInv, Fly, Passes, callVars
  <1>1. gate \in {"none", "interior", "representable", "saturated", "limits"}
    BY FlightGates
  <1>2. \/ gate # "none" /\ Disqualify(gate)
        \/ /\ gate = "none"
           /\ samples' = Append(samples, s) /\ dwell' = Dwell(s)
           /\ UNCHANGED <<pc, candidate, level, fit, audit, result>>
    BY DEF Fly
  <1> HIDE DEF gate
  <1>3. CASE gate # "none"
    BY <1>0, <1>1, <1>2, <1>3, DisqualifyStep
  <1>4. CASE gate = "none"
    <2>1. /\ samples' \in Seq(Situations) /\ dwell' \in Nat /\ Sampled'
      BY <1>0, <1>2, <1>4, SampleAdded DEF gate
    <2>2. Disqualified' = Disqualified
      BY <1>2, <1>4 DEF Disqualified
    <2>3. Typed'
      BY <1>0, <1>2, <1>4, <2>1 DEF Typed
    <2>4. Earned' /\ Splined' /\ Enumerated'
      BY <1>0, <1>2, <1>4, <2>2 DEF Earned, Splined, Enumerated, NoResult
    <2>5. AuditExplainsTheAnswer'
      BY <1>0, <1>2, <1>4, <2>2
        DEF AuditExplainsTheAnswer, Enumerated, NoResult, Typed
    <2> QED
      BY <2>1, <2>3, <2>4, <2>5 DEF PhaseInv
  <1> QED
    BY <1>3, <1>4

\* The handoff state is refused, or its spline is tried on the first level.
LEMMA JudgeHandoffStep ==
  ASSUME PhaseInv, JudgeHandoff
  PROVE  PhaseInv'
  <1>0. /\ Typed /\ Sampled /\ Earned /\ Enumerated /\ pc = "captured"
        /\ UNCHANGED <<req, policy, entries>>
    BY DEF PhaseInv, JudgeHandoff
  <1>1. CASE Disqualify("end_pva") /\ UNCHANGED reached
    BY <1>0, <1>1, DisqualifyStep
  <1>2. CASE /\ reached' = TRUE /\ pc' = "adapt"
             /\ UNCHANGED <<candidate, samples, dwell, level, audit, result>>
    <2>1. Disqualified' = Disqualified
      BY <1>2 DEF Disqualified
    <2>2. reached' \in BOOLEAN
      BY <1>2, Zenon
    <2>3. Typed'
      BY <1>0, <1>2, <2>2 DEF Typed
    <2>4. Sampled'
      BY <1>0, <1>2 DEF Sampled, JudgedGates, CommandGates
    <2>5. Earned' /\ Splined' /\ Enumerated'
      BY <1>0, <1>2, <2>1 DEF Earned, Splined, Enumerated, NoResult
    <2>6. AuditExplainsTheAnswer'
      BY <1>0, <1>2, <2>1
        DEF AuditExplainsTheAnswer, Enumerated, NoResult, Typed
    <2> QED
      BY <2>3, <2>4, <2>5, <2>6 DEF PhaseInv
  <1> QED
    BY <1>1, <1>2 DEF JudgeHandoff

\* The answer's entry: every entry nearer than it had all its primitives tried.
LEMMA NearerEntriesTried ==
  ASSUME Typed, Enumerated, pc = "adapt"
  PROVE  Disqualified >= Primitives *
           Cardinality({i \in DOMAIN req.arcs :
                          req.arcs[i] < EntryOf(candidate)})
  <1> DEFINE n == Len(req.arcs)
             k == ((candidate - 1) \div Primitives) + 1
             nearer == {i \in 1..n : req.arcs[i] < Sorted(req.arcs)[k]}
  <1>1. /\ n \in Nat /\ req.arcs \in [1..n -> Nat]
        /\ Primitives \in Nat \ {0} /\ Primitives * n \in Nat
    BY EntryCount, CountAssumption DEF Typed
  <1>2. /\ candidate \in 1..Primitives * n /\ Disqualified = candidate - 1
        /\ EntryOf(candidate) = Sorted(req.arcs)[k]
    BY DEF Enumerated, EntryOf
  <1>3. DOMAIN req.arcs = 1..n
    BY <1>1
  <1>4. /\ k - 1 \in Nat /\ k \in 1..n
        /\ Primitives * (k - 1) <= candidate - 1
    <2> DEFINE c == candidate - 1
               q == c \div Primitives
    <2>1. c \in 0..(Primitives * n - 1)
      BY <1>1, <1>2
    <2>2. k = q + 1
      OBVIOUS
    <2> HIDE DEF c, n, k
    <2>3. q \in 0..(n - 1) /\ Primitives * q <= c
      BY <1>1, <2>1
    <2> HIDE DEF q
    <2>4. k - 1 = q
      BY <1>1, <2>2, <2>3
    <2>5. Primitives * (k - 1) <= candidate - 1
      BY <2>3, <2>4 DEF c
    <2>6. k - 1 \in Nat /\ k \in 1..n
      BY <1>1, <2>2, <2>3
    <2> QED
      BY <2>5, <2>6
  <1>5. Cardinality(nearer) \in 0..(k - 1)
    <2> DEFINE arcs == req.arcs
    <2>1. n \in Nat /\ arcs \in [1..n -> Nat] /\ k \in 1..n
      BY <1>1, <1>4
    <2>2. nearer = {i \in 1..n : arcs[i] < Sorted(arcs)[k]}
      OBVIOUS
    <2> HIDE DEF arcs, n, k, nearer
    <2>3. \A m \in 1..n :
            Cardinality({i \in 1..n : arcs[i] < Sorted(arcs)[m]}) \in 0..(m - 1)
      BY <2>1, SortedByArc, Zenon
    <2> QED
      BY <2>1, <2>2, <2>3, Zenon
  <1> HIDE DEF nearer, k, n
  <1>6. Primitives * Cardinality(nearer) <= Primitives * (k - 1)
    BY <1>1, <1>4, <1>5
  <1>7. Primitives * Cardinality(nearer) <= candidate - 1
    <2>1. /\ Primitives * Cardinality(nearer) \in Nat
          /\ Primitives * (k - 1) \in Nat
      BY <1>1, <1>4, <1>5
    <2> QED
      BY <1>1, <1>2, <1>4, <1>6, <2>1
  <1>8. {i \in DOMAIN req.arcs : req.arcs[i] < EntryOf(candidate)} = nearer
    BY <1>2, <1>3 DEF nearer
  <1>9. Disqualified >= Primitives * Cardinality(nearer)
    BY <1>1, <1>2, <1>5, <1>7
  <1> QED
    BY <1>8, <1>9, Zenon

\* Nothing but the state is new: another spacing of the ladder, the flight and
\* the enumeration as they were.
LEMMA FinerStep ==
  ASSUME PhaseInv, pc = "adapt", Finer,
         UNCHANGED <<req, policy, entries, reached>>
  PROVE  PhaseInv'
  <1>0. /\ Typed /\ Sampled /\ Earned /\ Enumerated
    BY DEF PhaseInv
  <1>1. CASE level < Levels - 1
    <2>1. /\ level' = level + 1
          /\ UNCHANGED <<pc, candidate, samples, dwell, fit, audit, result>>
      BY <1>1 DEF Finer
    <2>2. /\ Disqualified' = Disqualified /\ level' \in 0..2
          /\ UNCHANGED <<JudgedGates, CommandGates>>
      BY <1>0, <1>1, <2>1
        DEF Disqualified, Levels, Typed, JudgedGates, CommandGates
    <2>3. Typed'
      BY <1>0, <2>1, <2>2 DEF Typed
    <2>4. Sampled'
      BY <1>0, <2>1, <2>2 DEF Sampled
    <2>5. Earned' /\ Splined' /\ Enumerated'
      BY <1>0, <2>1, <2>2 DEF Earned, Splined, Enumerated, NoResult
    <2>6. AuditExplainsTheAnswer'
      BY <1>0, <2>1, <2>2
        DEF AuditExplainsTheAnswer, Enumerated, NoResult, Typed
    <2> QED
      BY <2>3, <2>4, <2>5, <2>6 DEF PhaseInv
  <1>2. CASE ~ (level < Levels - 1)
    <2>1. Disqualify("adapter")
      BY <1>2 DEF Finer
    <2> QED
      BY <2>1, DisqualifyStep
  <1> QED
    BY <1>1, <1>2

\* The answer that is flown: this candidate's entry, its samples' knots.
LEMMA AcceptStep ==
  ASSUME PhaseInv, pc = "adapt", pc' = "done",
         result' = [ok |-> TRUE, reason |-> "none",
                    arc |-> EntryOf(candidate), knots |-> Knots],
         UNCHANGED <<req, policy, entries, reached, candidate, samples, dwell,
                     level, fit, audit>>
  PROVE  PhaseInv'
  <1>0. /\ Typed /\ Sampled /\ Earned /\ Enumerated
    BY DEF PhaseInv
  <1>1. /\ Disqualified' = Disqualified /\ Knots' = Knots
        /\ UNCHANGED <<JudgedGates, CommandGates>>
    BY DEF Disqualified, Knots, JudgedGates, CommandGates
  <1>2. /\ result'.ok = TRUE /\ result'.reason = "none"
        /\ result'.arc = EntryOf(candidate) /\ result'.knots = Knots
    OBVIOUS
  <1>3. Typed'
    BY <1>0 DEF Typed
  <1>4. Sampled'
    BY <1>0, <1>1 DEF Sampled
  <1>5. Earned' /\ Splined' /\ Enumerated'
    BY <1>0, <1>1, <1>2 DEF Earned, Splined, Enumerated
  <1>6. AuditExplainsTheAnswer'
    <2>1. candidate' = Disqualified' + 1
      BY <1>0, <1>1 DEF Enumerated, Typed
    <2>2. Disqualified' >= Primitives *
            Cardinality({i \in DOMAIN req'.arcs : req'.arcs[i] < result'.arc})
      BY <1>0, <1>1, <1>2, NearerEntriesTried
    <2> QED
      BY <1>2, <2>1, <2>2 DEF AuditExplainsTheAnswer
  <1> QED
    BY <1>3, <1>4, <1>5, <1>6 DEF PhaseInv

\* One level of the knot ladder: refined, given up, stopped or accepted.
LEMMA AdaptStep ==
  ASSUME PhaseInv, Adapt
  PROVE  PhaseInv'
  <1>1. /\ pc = "adapt" /\ UNCHANGED <<req, policy, entries, reached>>
    BY DEF Adapt, callVars
  <1>2. CASE Finer
    BY <1>1, <1>2, FinerStep
  <1>3. CASE Abort
    BY <1>1, <1>3, AbortStep
  <1>4. CASE /\ result' = [ok |-> TRUE, reason |-> "none",
                           arc |-> EntryOf(candidate), knots |-> Knots]
             /\ pc' = "done"
             /\ UNCHANGED <<candidate, flightVars, audit>>
    BY <1>1, <1>4, AcceptStep DEF flightVars
  <1> QED
    BY <1>2, <1>3, <1>4 DEF Adapt

\* A flight that ran out of steps is disqualified.
LEMMA TimeoutStep ==
  ASSUME PhaseInv, NEW s \in Situations, Timeout(s)
  PROVE  PhaseInv'
  <1>1. /\ pc = "fly" /\ Disqualify("timeout")
        /\ UNCHANGED <<req, policy, entries, reached>>
    BY DEF Timeout, Passes, callVars
  <1> QED
    BY <1>1, DisqualifyStep

\* The world moving and a step of nobody touch none of it.
LEMMA IdleStep ==
  ASSUME PhaseInv, policy' \in {policy, "stale"},
         UNCHANGED <<req, pc, entries, candidate, samples, dwell, level, fit,
                     reached, audit, result>>
  PROVE  PhaseInv'
  <1>0. /\ Typed /\ Sampled /\ Earned /\ Splined /\ Enumerated
        /\ AuditExplainsTheAnswer
    BY DEF PhaseInv
  <1>1. /\ Disqualified' = Disqualified /\ Knots' = Knots
        /\ UNCHANGED <<JudgedGates, CommandGates>>
    BY DEF Disqualified, Knots, JudgedGates, CommandGates
  <1>2. Typed'
    BY <1>0 DEF Typed
  <1>3. Sampled' /\ Earned' /\ Splined'
    BY <1>0, <1>1 DEF Sampled, Earned, Splined
  <1>4. Enumerated'
    BY <1>0, <1>1 DEF Enumerated
  <1>5. AuditExplainsTheAnswer'
    BY <1>0, <1>1 DEF AuditExplainsTheAnswer
  <1> QED
    BY <1>2, <1>3, <1>4, <1>5 DEF PhaseInv

\* Every step keeps the invariant.
LEMMA PhaseStep == PhaseInv /\ [Next]_vars => PhaseInv'
  <1> SUFFICES ASSUME PhaseInv, [Next]_vars PROVE PhaseInv'
    OBVIOUS
  <1>1. CASE Commit
    BY <1>1, CommitStep
  <1>2. CASE Screen
    BY <1>2, ScreenStep
  <1>3. CASE GoStale
    BY <1>3, IdleStep DEF GoStale, flightVars
  <1>4. CASE \E s \in Situations :
               StateFails(s) \/ Capture(s) \/ Timeout(s) \/ Fly(s)
    BY <1>4, StateFailsStep, CaptureStep, TimeoutStep, FlyStep
  <1>5. CASE JudgeHandoff
    BY <1>5, JudgeHandoffStep
  <1>6. CASE Adapt
    BY <1>6, AdaptStep
  <1>7. CASE UNCHANGED vars
    BY <1>7, IdleStep DEF vars, flightVars
  <1> QED
    BY <1>1, <1>2, <1>3, <1>4, <1>5, <1>6, <1>7 DEF Next, Generate, Stopped

-----------------------------------------------------------------------------
(***************************************************************************)
(* The theorems.                                                           *)
(***************************************************************************)

\* What a capture rests on and what the audit says, at every moment of a call.
THEOREM PhaseInductive == Spec => []PhaseInv
  BY InitPhaseInv, PhaseStep, PTL DEF Spec

\* The feasibility report of a transition plan is exact, whatever the entries,
\* primitives and gates: every candidate is counted once, each verdict is the
\* one its counters show, and no entry is flown past a nearer one that had a
\* primitive left to try.
THEOREM AuditIsExplained == Spec => []AuditExplainsTheAnswer
  <1>1. PhaseInv => AuditExplainsTheAnswer
    BY DEF PhaseInv
  <1> QED
    BY <1>1, PhaseInductive, PTL

\* From the sample's record to the answer's spline.
LEMMA InvEarnsHandoff == PhaseInv => HandoffEarned
  <1> SUFFICES ASSUME PhaseInv, pc \in {"captured", "adapt"} \/ result.ok
               PROVE  HandoffEarned
    BY DEF HandoffEarned
  <1> DEFINE n == Len(samples)
             judged(i) == (IF req.floor = "terrain" THEN GateNames
                           ELSE GateNames \ {"terrain"})
                          \ (IF i = n THEN {StepGates[j] : j \in DOMAIN StepGates}
                               ELSE {})
  <1>0. /\ Typed /\ Sampled /\ Earned /\ Splined
    BY DEF PhaseInv
  <1>1. /\ n \in Nat /\ dwell \in Nat /\ dwell <= n /\ dwell >= DwellSteps
        /\ DwellSteps \in Nat \ {0} /\ samples[n].capturable
    BY <1>0, CountAssumption DEF Typed, Sampled, Earned
  <1>2. \A i \in 1..n : samples[i].fails \cap judged(i) = {}
    <2> SUFFICES ASSUME NEW i \in 1..n
                 PROVE  samples[i].fails \cap judged(i) = {}
      OBVIOUS
    <2>1. CASE i = n
      <3>1. judged(i) = JudgedGates \ CommandGates
        BY <2>1, GateSets DEF JudgedGates, CommandGates
      <3> QED
        BY <1>0, <3>1 DEF Sampled
    <2>2. CASE i # n
      <3>1. judged(i) = JudgedGates
        BY <2>2 DEF JudgedGates
      <3>2. i < Len(samples)
        BY <1>1, <2>2
      <3> QED
        BY <1>0, <3>1, <3>2 DEF Sampled
    <2> QED
      BY <2>1, <2>2
  <1>3. \A i \in n - DwellSteps + 1..n : i \in 1..n /\ samples[i].window
    <2>1. \A i \in n - dwell + 1..n : samples[i].window
      BY <1>0 DEF Sampled
    <2> HIDE DEF n
    <2>2. ASSUME NEW i \in n - DwellSteps + 1..n
          PROVE  i \in 1..n /\ i \in n - dwell + 1..n
      BY <1>1
    <2> QED
      BY <2>1, <2>2
  <1>4. result.ok =>
          /\ {0, n - 1} \subseteq result.knots
          /\ \A i \in 0..n - 1 - KnotStep :
               \E j \in result.knots : i < j /\ j <= i + KnotStep
    <2>1. level \in 0..2 /\ Len(samples) \in Nat \ {0}
      BY <1>0, <1>1 DEF Typed
    <2>2. result.ok => result.knots = Knots
      BY <1>0 DEF Splined
    <2> QED
      BY <2>1, <2>2, KnotsAreDense
  <1> QED
    BY <1>1, <1>2, <1>3, <1>4 DEF HandoffEarned

\* A handoff is never granted on less than was asked: every sample through
\* every gate, the dwell unbroken, the flown spline from the start to the
\* captured state without a gap wider than its knots.
THEOREM HandoffIsEarned == Spec => []HandoffEarned
  BY InvEarnsHandoff, PhaseInductive, PTL

=============================================================================
