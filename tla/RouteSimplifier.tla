------------------------- MODULE RouteSimplifier -------------------------
(***************************************************************************)
(* The second half of astarSearchAndGetSimplePath (dyn_a_star.cpp): the    *)
(* raw route of either front end is thinned to few vertices by chords that *)
(* are checked for occupancy, risk and cost, repaired where the optimizer  *)
(* would cut its corners, and lifted over the terrain its coarse grid did  *)
(* not see.                                                                *)
(*                                                                         *)
(* Routes lie in the plane of the map.  Points are whole half steps, one   *)
(* half step being the pitch at which the code samples a chord; a sample   *)
(* is cut to whole coordinates, and so is a vertex that is put there.      *)
(* A lift adds one half step (0.02 in the code).                           *)
(* The debugging parameter that returns the raw route is off.              *)
(*                                                                         *)
(* Every X_mutant is a plausible wrong X, used to show that the checks can *)
(* fail; the specification uses X.                                         *)
(***************************************************************************)
EXTENDS FastMarching

CONSTANTS
  NearSq,       \* squared distance below which two vertices are one (0.3 u)
  GuardRounds,  \* rounds of the corner-cut guard (8 in the code)
  LiftCap,      \* kLiftCap of the terrain sweep (512)
  SweepRounds   \* kRoundSafety of the terrain sweep (256)

ASSUME CapAssumption ==
  {NearSq, GuardRounds, LiftCap, SweepRounds} \subseteq Nat \ {0}

VARIABLES
  simp,          \* idle, greedy, polish, guard, dedup, sweep, merge, done
  path,          \* the raw route
  kept,          \* the indices of its vertices that are kept
  guard,         \* [rounds, refined, clean] of the corner-cut guard
  simple_path,
  sweep          \* [round, lifted, clean_exit] of the terrain sweep

simpVars == <<simp, path, kept, guard, simple_path, sweep>>

-----------------------------------------------------------------------------
(* Chords.                                                                 *)

NeedCost == Zones # {} \/ scene.rough > 0

Dist(a, b) ==
  LET d == Minus(b, a) IN Root(10000 * (d[1] * d[1] + d[3] * d[3]))

\* segmentRiskCost: the trapezoidal mean of five samples, times the length
\* (here times 8).
SegmentRiskCost(a, b) ==
  LET d == Minus(b, a)
      At(t) == <<a[1] + (t * d[1]) \div 4, 0, a[3] + (t * d[3]) \div 4>>
      Price(t) == (IF t \in {0, 4} THEN 1 ELSE 2)
                    * (1 + RiskCost(At(t)) + AltBandCost(At(t)[3]))
  IN Dist(a, b) * FoldSet(LAMBDA t, acc : acc + Price(t), 0, 0..4)

MaxRisk(points) == IF NeedCost THEN Max({RiskCost(p) : p \in points}) ELSE 0

\* cum_cost and seg_max, over the raw segments from vertex a to vertex b.
DetourCost(a, b) ==
  FoldSet(LAMBDA k, acc : acc + SegmentRiskCost(path[k], path[k + 1]),
          0, a..(b - 1))
DetourMax(a, b) ==
  MaxRisk(UNION {Between(path[k], path[k + 1]) : k \in a..(b - 1)})

\* The V3 filter: no risk where the detour had none, at most a tenth more
\* than it had where it had some.
WithinEnvelope(points, a, b) ==
  LET detour == DetourMax(a, b)
  IN IF detour = 0 THEN MaxRisk(points) = 0
     ELSE 10 * MaxRisk(points) <= 11 * detour

\* chordOccRisk.
ChordFree_mutant(a, b) == \A p \in Between(path[a], path[b]) : ~Occupied(p)

ChordFree(a, b) ==
  \A p \in Between(path[a], path[b]) :
    ~Occupied(p) /\ ~(zone_lexico_hard /\ InHardZone(p))

\* chordOk: a raw segment is taken on trust.
ChordOk(a, b) ==
  \/ b <= a + 1
  \/ /\ ChordFree(a, b)
     /\ NeedCost => WithinEnvelope(Between(path[a], path[b]), a, b)
     /\ 20 * SegmentRiskCost(path[a], path[b]) <= 21 * DetourCost(a, b)

-----------------------------------------------------------------------------
(* Thinning.                                                               *)

\* A loop body run n times; the bodies here leave alone what is finished.
Iterate(body, first, n) ==
  LET after[k \in 0..n] == IF k = 0 THEN first ELSE body[after[k - 1]]
  IN after[n]

\* The farthest vertex found from i: the last one, or the frontier between a
\* chord that held and one that did not, by doubling and then by halving.
Farthest(i) ==
  LET last == Len(path)
      doubled[s \in 1..last] ==
        IF i + 2 * s < last /\ ChordOk(i, i + 2 * s) THEN doubled[2 * s] ELSE s
      ok == i + doubled[1]
      bad == i + 2 * doubled[1]
      halve == [s \in [ok : Nat, bad : Nat] |->
                  LET mid == s.ok + (s.bad - s.ok) \div 2
                  IN IF s.ok + 1 >= s.bad THEN s
                     ELSE IF ChordOk(i, mid) THEN [s EXCEPT !.ok = mid]
                     ELSE [s EXCEPT !.bad = mid]]
  IN IF ChordOk(i, last) THEN last
     ELSE Iterate(halve, [ok |-> ok, bad |-> IF bad < last THEN bad ELSE last],
                  last).ok

\* A raw route of two points, or none, is returned as it is.
TakeRaw(raw) ==
  /\ simp = "idle"
  /\ path' = raw
  /\ IF Len(raw) <= 2 THEN simp' = "done" /\ simple_path' = raw
                      ELSE simp' = "greedy" /\ UNCHANGED simple_path
  /\ UNCHANGED <<kept, guard, sweep, fmVars, scene>>

KeepNext ==
  /\ simp = "greedy"
  /\ kept' = Append(kept, Farthest(Last(kept)))
  /\ simp' = IF Last(kept') = Len(path) THEN "polish" ELSE "greedy"
  /\ UNCHANGED <<path, guard, simple_path, sweep, fmVars, scene>>

\* One pass: every vertex whose neighbours see each other goes, and the one
\* that moves into its place is looked at next.
PolishPass(seq) ==
  LET look == [s \in [seq : Seq(Nat), at : Nat] |->
                 IF s.at >= Len(s.seq) THEN s
                 ELSE IF ChordOk(s.seq[s.at - 1], s.seq[s.at + 1])
                   THEN [s EXCEPT !.seq = RemoveAt(s.seq, s.at)]
                 ELSE [s EXCEPT !.at = s.at + 1]]
  IN Iterate(look, [seq |-> seq, at |-> 2], Len(seq)).seq

Polish ==
  /\ simp = "polish"
  /\ kept' = PolishPass(kept)
  /\ simp' = IF kept' = kept \/ Len(kept') = 2 THEN "guard" ELSE "polish"
  /\ UNCHANGED <<path, guard, simple_path, sweep, fmVars, scene>>

-----------------------------------------------------------------------------
(* The corner-cut guard.                                                   *)

\* The chord between the middles of two segments, which the optimizer flies.
InnerChord(a, b, c) == Between(Half(Plus(a, b)), Half(Plus(b, c)))

InnerChordBlocked(a, b, c) ==
  LET points == InnerChord(path[a], path[b], path[c])
  IN \/ \E p \in points : Occupied(p)
     \/ NeedCost /\ ~WithinEnvelope(points, a, c)

\* The corner scan: beside a blocked corner the middle vertex of the longer
\* raw span comes back.
CornerScan(seq) ==
  LET look == [s \in [seq : Seq(Nat), at : Nat, dense : BOOLEAN] |->
        IF s.at + 2 > Len(s.seq) THEN s
        ELSE LET a == s.seq[s.at]
                 b == s.seq[s.at + 1]
                 c == s.seq[s.at + 2]
                 blocked == InnerChordBlocked(a, b, c)
                 right == c > b + 1 /\ (b <= a + 1 \/ c - b >= b - a)
                 left == ~right /\ b > a + 1
             IN [seq |-> IF blocked /\ right
                           THEN InsertAt(s.seq, s.at + 2, b + (c - b) \div 2)
                         ELSE IF blocked /\ left
                           THEN InsertAt(s.seq, s.at + 1, a + (b - a) \div 2)
                         ELSE s.seq,
                 at |-> s.at + 1,
                 dense |-> s.dense \/ (blocked /\ ~right /\ ~left)]]
  IN Iterate(look, [seq |-> seq, at |-> 1, dense |-> FALSE], Len(path))

\* The validation scan: a chord the guard made is split until it is free.
ValidationScan(seq) ==
  LET look == [s \in [seq : Seq(Nat), at : Nat] |->
        IF s.at + 1 > Len(s.seq) THEN s
        ELSE LET a == s.seq[s.at]
                 b == s.seq[s.at + 1]
             IN IF b <= a + 1 \/ ChordFree(a, b)
                  THEN [s EXCEPT !.at = s.at + 1]
                ELSE [seq |-> InsertAt(s.seq, s.at + 1, a + (b - a) \div 2),
                      at |-> s.at + 2]]
  IN Iterate(look, [seq |-> seq, at |-> 1], Len(seq)).seq

\* A round; the guard stops when one inserts nothing, or at its cap with work
\* remaining.
GuardRound ==
  LET corner == CornerScan(kept)
      next == ValidationScan(corner.seq)
      refined == next # kept
      over == guard.rounds + 1 = GuardRounds
  IN /\ simp = "guard"
     /\ kept' = next
     /\ guard' = [rounds |-> guard.rounds + 1, refined |-> refined,
                  clean |-> guard.clean /\ ~corner.dense /\ ~(refined /\ over)]
     /\ IF ~refined \/ over
          THEN /\ simp' = "dedup"
               /\ simple_path' = [n \in DOMAIN next |-> path[next[n]]]
          ELSE UNCHANGED <<simp, simple_path>>
     /\ UNCHANGED <<path, sweep, fmVars, scene>>

-----------------------------------------------------------------------------
(* Near vertices, before the sweep: the endpoints stay.                    *)

IsNear(a, b) ==
  LET d == Minus(a, b) IN d[1] * d[1] + d[3] * d[3] < NearSq

NearPairs(s) == {n \in 1..(Len(s) - 1) : IsNear(s[n], s[n + 1])}

DropNear ==
  /\ simp = "dedup"
  /\ IF NearPairs(simple_path) = {} \/ Len(simple_path) = 2
       THEN simp' = "sweep" /\ UNCHANGED simple_path
       ELSE LET n == Min(NearPairs(simple_path))
                goal == n + 1 = Len(simple_path)
            IN /\ simple_path' = RemoveAt(simple_path, IF goal THEN n ELSE n + 1)
               /\ UNCHANGED simp
  /\ UNCHANGED <<path, kept, guard, sweep, fmVars, scene>>

-----------------------------------------------------------------------------
(* The terrain sweep.                                                      *)

Need(p) == TerrainHeight(p) + scene.margin
Sunk(p) == TerrainKnown(p) /\ p[3] < Need(p)

Lifted(p) == [p EXCEPT ![3] = Need(p) + 1]

\* The deepest point of a set, the one nearest to the chord's start first.
WorstOf(points, from) ==
  LET Deep(p) == Need(p) - p[3]
      sunk == {p \in points : Sunk(p)}
      worst == {p \in sunk : \A q \in sunk : Deep(q) <= Deep(p)}
  IN CHOOSE p \in worst : \A q \in worst : Dist(from, p) <= Dist(from, q)

Points == Int \X Int \X Int

\* (0) interior vertices rise in place.
LiftVertices(s) ==
  [n \in DOMAIN s |-> IF n \notin {1, Len(s)} /\ Sunk(s[n])
                        THEN Lifted(s[n]) ELSE s[n]]

\* (1) the deepest point of a segment becomes a vertex of it.
LiftSegments(seq) ==
  LET from[s \in Seq(Points), k \in Nat] ==
        IF k = Len(s) THEN s
        ELSE LET inside == Between(s[k], s[k + 1]) \ {s[k], s[k + 1]}
             IN IF \A p \in inside : ~Sunk(p) THEN from[s, k + 1]
                ELSE from[InsertAt(s, k + 1, Lifted(WorstOf(inside, s[k]))),
                          k + 2]
  IN from[seq, 1]

\* (2) the deepest point of an inner chord becomes the vertex behind the
\* corner, on whichever side of the corner it lies.
LiftInner(seq) ==
  LET from[s \in Seq(Points), k \in Nat] ==
        IF k >= Len(s) THEN s
        ELSE LET inner == InnerChord(s[k - 1], s[k], s[k + 1])
                 middle == Half(Plus(s[k - 1], s[k]))
             IN IF \A p \in inner : ~Sunk(p) THEN from[s, k + 1]
                ELSE from[InsertAt(s, k + 1, Lifted(WorstOf(inner, middle))),
                          k + 2]
  IN from[seq, 2]

Lifts(s) == Cardinality({n \in 2..(Len(s) - 1) : Sunk(s[n])})

\* A round of lifts; the sweep ends with a round that finds nothing, or at a
\* cap.
SweepRound ==
  LET next == LiftInner(LiftSegments(LiftVertices(simple_path)))
      lifted == sweep.lifted + Lifts(simple_path)
                  + Len(next) - Len(simple_path)
  IN /\ simp = "sweep"
     /\ simple_path' = next
     /\ sweep' = [round |-> sweep.round + 1, lifted |-> lifted,
                  clean_exit |-> next = simple_path]
     /\ simp' = IF \/ next = simple_path
                   \/ sweep.round + 1 = SweepRounds
                   \/ lifted >= LiftCap
                  THEN "merge" ELSE "sweep"
     /\ UNCHANGED <<path, kept, guard, fmVars, scene>>

-----------------------------------------------------------------------------
(* Near vertices, after the sweep: merged at the higher of the two, unless *)
(* the survivor is an endpoint that would have to rise.                    *)

Mergeable(s) ==
  {n \in NearPairs(s) :
     /\ n = 1 => s[2][3] <= s[1][3]
     /\ n # 1 /\ n + 1 = Len(s) => s[n][3] <= s[n + 1][3]}

MergeAt(s, n) ==
  IF n = 1 THEN RemoveAt(s, 2)
  ELSE IF n + 1 = Len(s) THEN RemoveAt(s, n)
  ELSE RemoveAt([s EXCEPT ![n][3] = Max({s[n][3], s[n + 1][3]})], n + 1)

MergeNear ==
  /\ simp = "merge"
  /\ IF Mergeable(simple_path) = {} \/ Len(simple_path) = 2
       THEN simp' = "done" /\ UNCHANGED simple_path
       ELSE /\ simple_path' = MergeAt(simple_path, Min(Mergeable(simple_path)))
            /\ UNCHANGED simp
  /\ UNCHANGED <<path, kept, guard, sweep, fmVars, scene>>

SimplifyInit ==
  /\ simp = "idle"
  /\ path = <<>>
  /\ kept = <<1>>
  /\ guard = [rounds |-> 0, refined |-> TRUE, clean |-> TRUE]
  /\ simple_path = <<>>
  /\ sweep = [round |-> 0, lifted |-> 0, clean_exit |-> FALSE]

SimplifyNext ==
  KeepNext \/ Polish \/ GuardRound \/ DropNear \/ SweepRound \/ MergeNear

-----------------------------------------------------------------------------
(* Properties.                                                             *)

\* The thinned route keeps the policy of its pass: what the march was not
\* allowed to cross, no chord of it crosses either, once the guard has nothing
\* left to insert.  Its insertions make chords that no shortcut ever checked
\* (dyn_a_star.cpp:915-918, 1070-1077).  This is said of the vertices kept, before
\* DropNear: nothing looks at the chord that a dropped vertex leaves.
ShortcutKeepsThePolicy ==
  ~guard.refined /\ zone_avoid_pass \in {1, 3} =>
    \A n \in 1..(Len(kept) - 1) :
      \A p \in Between(path[kept[n]], path[kept[n + 1]]) : ~InHardZone(p)

\* The sweep finds nothing more to lift before a cap stops it.
Settled == simp \in {"merge", "done"} /\ Len(path) > 2 => sweep.clean_exit

\* "Real DEMs converge in a handful of lifts ... the cap only guards
\* pathological geometry" (dyn_a_star.cpp:1172-1177), for any commanded ends.
SweepSettles == Settled

=============================================================================
