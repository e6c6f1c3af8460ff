----------------------------- MODULE MCFrames -----------------------------
(* The frames of a match: what becomes of the commands of the AI, what it  *)
(* is shown and told, what it finds when it looks for units, and what its  *)
(* units may be told.  The parts have no state in common; a behaviour is   *)
(* of one of them.                                                         *)
EXTENDS MCCommandOptimizer, MCCommandLegality, LatencyCompensation, UnitSearch, UnitSets

CONSTANTS here, there, me, land

VARIABLE part   \* "orders", "latency", "units", "search" or "legality"

MCVars == <<part, vars, latencyVars, unitVars, searchVars, legalVars>>

\* A factory with a cheap and a dear kind, and slots other than the first.
Prices == [k \in {"Vulture", "Goliath"} |-> IF k = "Vulture" THEN 1 ELSE 2]
LastAndSecond == {-2, 1}

\* Two players and the neutral one.
MatchPlayers == {me, foe, land}

\* A soldier that stays in its place and a flying machine of any size up to the
\* largest that goes anywhere on a small map.
MapBoxes == [left : 0 .. 4, top : 0 .. 2, right : 0 .. 4, bottom : 0 .. 2]
SmallBoxes ==
  {b \in MapBoxes : b.right - b.left \in 0 .. 2 /\ b.bottom - b.top \in 0 .. 1}
AllRectangles == {r \in MapBoxes : r.left <= r.right /\ r.top <= r.bottom}
SoldierBox == [left |-> 1, top |-> 1, right |-> 2, bottom |-> 1]

SearchThings == here :> {"organic"} @@ there :> {"flying", "mechanical"}
SearchOwners == here :> me @@ there :> foe
SearchBoxes == here :> {SoldierBox} @@ there :> SmallBoxes
SearchWeapons == {[min |-> 0, max |-> 2, targets |-> {"ground"}],
                  [min |-> 1, max |-> 2, targets |-> {"air"}]}
SearchFilters == {{here, there}}

ASSUME SearchIsSound == SearchAssumption
ASSUME UnitsAreSound == PlayersAssumption
ASSUME LatencyIsSound == LatencyAssumption

\* Nobody is asked about in the other parts.
NoActor == [id |-> "actor", sort |-> "Marine", side |-> "mine", is |-> {}]

\* The parts that a behaviour is not of start in one way only.
MCInit ==
  /\ part \in {"orders", "latency", "units", "search", "legality"}
  /\ Init /\ LatencyInit /\ UnitsInit
  /\ SearchInit
  /\ part # "orders" => army = {m1, m2, m3, car}
  /\ part # "latency" => shown.minerals = 3
  /\ part # "search" => far = 0 /\ world[there].box = SoldierBox
  /\ IF part = "legality" THEN LegalInit
     ELSE /\ actor = NoActor /\ larvae = {} /\ means = {} /\ odd = 0
          /\ goal = Goal("Minerals", "neutral")

\* Level 2 for the templars only, whose spells level 4 changes: the other armies'
\* commands are optimized alike, but that level 2 sends m1's Move at once.
MCNext ==
  \/ part = "orders" /\ Next /\ (level' = 2 => t1 \in army) /\ UNCHANGED <<part, latencyVars, unitVars, searchVars, legalVars>>
  \/ part = "latency" /\ LatencyNext /\ UNCHANGED <<part, vars, unitVars, searchVars, legalVars>>
  \/ part = "units" /\ UnitsNext /\ UNCHANGED <<part, vars, latencyVars, searchVars, legalVars>>
  \/ part = "search" /\ SearchNext /\ UNCHANGED <<part, vars, latencyVars, unitVars, legalVars>>
  \/ part = "legality" /\ LegalNext /\ UNCHANGED <<part, vars, latencyVars, unitVars, searchVars>>

MCSpec == MCInit /\ [][MCNext]_MCVars

MCSearchSpec == MCInit /\ part = "search" /\ [][MCNext]_MCVars
=============================================================================
