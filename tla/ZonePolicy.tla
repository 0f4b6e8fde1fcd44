---------------------------- MODULE ZonePolicy ----------------------------
(***************************************************************************)
(* The risk-zone policy shared by the planner's front end and the          *)
(* transition generator (path_manager.cpp, dyn_a_star.cpp).                *)
(*                                                                         *)
(* Every front-end search decides, zone by zone, what may be crossed: a    *)
(* zone around the start or the goal is exempt, and where no zone-free     *)
(* route exists the zones the route needed stay soft.  The decision lives  *)
(* in the searcher's buffers and is overwritten by the next search, while  *)
(* the zone list itself is re-derived whenever the zones or the terrain    *)
(* change.  A snapshot freezes the decision with a data generation and a   *)
(* search epoch; a consumer's question is answered only while both still   *)
(* match.                                                                  *)
(*                                                                         *)
(* This module has the policy's state and operations.  The operations are  *)
(* steps of WorldModel's actions, which say when they happen; X_mutant is  *)
(* a plausible wrong X, used to show that the checks can fail.             *)
(***************************************************************************)
EXTENDS Naturals, Sequences

CONSTANTS
  MaxLegs,         \* bound: legs (waypoints) of one mission's front-end run
  Lexicographic    \* manager/zone_avoid_lexicographic with the FM2 front end

ASSUME LegsAssumption == MaxLegs \in Nat \ {0}
ASSUME LexicographicAssumption == Lexicographic \in BOOLEAN

VARIABLES
  risk_zones,              \* the effective zones [zone, ground], in index order
  zone_policy_generation,  \* bumped whenever risk_zones is re-derived
  zone_policy_epoch,       \* bumped by every front-end run
  epoch_generation,        \* the generation the last front-end run saw
  epoch_searches,          \* leg searches of the last front-end run
  searcher,                \* the last search: zones bound, pass, per-zone sets
  snapshot                 \* the policy snapshot a consumer holds

policyVars == <<risk_zones, zone_policy_generation, zone_policy_epoch,
                epoch_generation, epoch_searches, searcher, snapshot>>

Passes == 0..3
Dispositions == {"HARD_AVOID", "SOFT_UNAVOIDABLE", "SOFT_ENDPOINT",
                 "SOFT_FALLBACK"}

\* A snapshot nobody has taken yet: of no generation and of no epoch.
NoSnapshot == [valid |-> FALSE, generation |-> 0, epoch |-> 0, zones |-> <<>>]

\* The constructor derives the zones once and has searched nothing.
PolicyInit(zones) ==
  /\ risk_zones = zones
  /\ zone_policy_generation = 1
  /\ zone_policy_epoch = 0
  /\ epoch_generation = 0
  /\ epoch_searches = 0
  /\ searcher = [zones |-> <<>>, pass |-> 0, endpoint |-> {}, soft |-> {}]
  /\ snapshot = NoSnapshot

\* refreshEffectiveRiskZones: the zones are re-derived from their raw list.
RefreshZones_mutant(zones) ==
  /\ risk_zones' = zones
  /\ zone_policy_generation' =
       IF Len(zones) = Len(risk_zones) THEN zone_policy_generation
                                       ELSE zone_policy_generation + 1
  /\ UNCHANGED <<zone_policy_epoch, epoch_generation, epoch_searches,
                 searcher, snapshot>>

RefreshZones(zones) ==
  /\ risk_zones' = zones
  /\ zone_policy_generation' = zone_policy_generation + 1
  /\ UNCHANGED <<zone_policy_epoch, epoch_generation, epoch_searches,
                 searcher, snapshot>>

\* What one leg's search may leave in the searcher.  Without zones, or with
\* the policy off, no pass runs and the soft set of an earlier search stays.
\* Pass 1 found a zone-free route; passes 2 and 3 crossed the soft zones.
SearchOutcomes ==
  LET indices == DOMAIN risk_zones
      Outcome(pass, endpoint, soft) ==
        [zones |-> risk_zones, pass |-> pass,
         endpoint |-> endpoint, soft |-> soft]
  IN IF risk_zones = <<>> \/ ~Lexicographic
     THEN {Outcome(0, e, searcher.soft) : e \in SUBSET indices}
     ELSE {Outcome(1, e, {}) : e \in SUBSET indices}
            \cup UNION {{Outcome(p, e, s) : s \in SUBSET (indices \ e)} :
                          p \in {2, 3}, e \in SUBSET indices}

\* planFrontEnd: a new epoch on the current data, one search per leg, each of
\* which rewrites the searcher's buffers.  A failing leg ends the run early.
PlanFrontEnd(legs) ==
  /\ zone_policy_epoch' = zone_policy_epoch + 1
  /\ epoch_generation' = zone_policy_generation
  /\ epoch_searches' = legs
  /\ searcher' \in SearchOutcomes
  /\ UNCHANGED <<risk_zones, zone_policy_generation, snapshot>>

Disposition(search, i) ==
  IF i \in search.endpoint THEN "SOFT_ENDPOINT"
  ELSE IF search.pass = 2 THEN "SOFT_FALLBACK"
  ELSE IF i \in search.soft THEN "SOFT_UNAVOIDABLE" ELSE "HARD_AVOID"

SnapshotValid ==
  /\ risk_zones = <<>> \/ (searcher.pass # 0 /\ epoch_searches = 1)
  /\ epoch_generation = zone_policy_generation

\* zonePolicySnapshot: shapes, dispositions and the two stamps are frozen.
TakeSnapshot ==
  /\ snapshot' =
       [valid |-> SnapshotValid,
        generation |-> zone_policy_generation,
        epoch |-> zone_policy_epoch,
        zones |-> [i \in DOMAIN risk_zones |->
                     [zone |-> risk_zones[i],
                      disposition |-> Disposition(searcher, i)]]]
  /\ UNCHANGED <<risk_zones, zone_policy_generation, zone_policy_epoch,
                 epoch_generation, epoch_searches, searcher>>

\* Two effective zones look alike when center, reach and peak agree; the
\* heights of one zone on two maps may coincide.
SameShape(a, b) == a.zone = b.zone

ZoneSnapshotCurrent(snap, i) ==
  /\ snap.generation = zone_policy_generation
  /\ snap.epoch = zone_policy_epoch
  /\ i \in DOMAIN snap.zones \cap DOMAIN risk_zones
  /\ SameShape(snap.zones[i].zone, risk_zones[i])

\* zoneContact answers CLEAR or CONTACT, and zoneExposureRaw gives a value,
\* exactly for these zones; otherwise the answer is INVALID or STALE.
Judged(snap, i) == snap.valid /\ ZoneSnapshotCurrent(snap, i)

-----------------------------------------------------------------------------

\* A contact is judged only against the policy of the one search that ran on
\* the zones of this moment: a later search, a second leg or a re-derived zone
\* list turns every answer into STALE or INVALID (ZonePolicySnapshot's
\* contract: "can never be silently consulted through stale indices").
JudgedByTheOneSearch ==
  \A i \in DOMAIN snapshot.zones : Judged(snapshot, i) =>
    /\ searcher.zones = risk_zones
    /\ searcher.pass # 0
    /\ epoch_searches = 1
    /\ snapshot.zones[i].disposition = Disposition(searcher, i)
=============================================================================
