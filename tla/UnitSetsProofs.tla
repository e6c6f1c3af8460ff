--------------------------- MODULE UnitSetsProofs ---------------------------
(***************************************************************************)
(* Proofs about the units of a match.                                      *)
(* UnitSets, for any slots, players and units: the invariant IInv is       *)
(* inductive, its parts that matter follow, and with it every step is a    *)
(* step of UnitStory.                                                      *)
(* UnitSearch (at the end), for any number of units, boxes of any size up  *)
(* to the largest, any rectangles and any radii: searches are exact.       *)
(***************************************************************************)
EXTENDS UnitSets, UnitSearch, TLAPS

-----------------------------------------------------------------------------
(* The invariant.                                                          *)

Stages == {"existence", "primary", "extract", "secondary", "serve", "finish"}

\* After computePrimaryUnitSets; and from one change of the sets to the next.
Compared == {"extract", "secondary", "serve", "finish"}
Comparing == {"primary", "extract", "secondary"}

Past == {o \in Slots \X Nat : o[2] <= number[o[1]]}

UnitSetsOf(O) ==
  [accessible : SUBSET O, units : [Players -> SUBSET O],
   neutral : SUBSET O, minerals : SUBSET O, geysers : SUBSET O]

TypeOK ==
  /\ stage \in Stages
  /\ unit \in [Slots -> Things \cup {Absent}]
  /\ first \in BOOLEAN /\ mapInfo \in BOOLEAN
  /\ number \in [Slots -> Nat]
  /\ dying \subseteq Slots /\ accessible \subseteq Slots
  /\ discover \subseteq Slots /\ evade \subseteq Slots
  /\ wasAlive \subseteq Slots /\ wasAccessible \subseteq Slots
  /\ wasVisible \subseteq Slots /\ wasCompleted \subseteq Slots
  /\ lastOwner \in [Slots -> Players \cup {NoPlayer}]
  /\ lastKind \in [Slots -> UnitKinds \cup {"unknown"}]
  /\ toldOwner \in [Slots -> Players]
  /\ toldKind \in [Slots -> UnitKinds \cup {"unknown"}]
  /\ events \in [Slots -> SUBSET Notices]
  /\ sets \in UnitSetsOf(Past)
  /\ told \in [Slots -> {"new", "hidden", "shown", "lost", "dead"}]

\* The units that were alive, or accessible, when the flags were last compared.
Lives ==
  /\ stage = "existence" => wasAlive \subseteq Alive
  /\ stage # "existence" => dying = wasAlive \ Alive

Access ==
  /\ stage = "existence" => Evaded = accessible
  /\ stage = "primary" => wasAccessible = accessible
  /\ stage # "primary" => accessible \subseteq Alive
  /\ stage # "existence" => wasAccessible \subseteq wasAlive
  /\ stage \in Compared => /\ evade = wasAccessible \ accessible
                           /\ discover = accessible \ wasAccessible
  /\ stage \in {"extract", "secondary", "serve"} => accessible = Reached

Sight ==
  /\ stage = "primary" => wasVisible \subseteq accessible
  /\ stage # "primary" => wasVisible = {s \in accessible : Visible(s)}

\* The events that are due, as far as the story of a unit depends on them.
Due ==
  stage \in {"extract", "secondary", "serve"} =>
    \A s \in Slots :
      /\ "create" \in events[s] <=> s \in accessible \ wasAlive
      /\ "complete" \in events[s] => s \in accessible
      /\ "discover" \in events[s] <=> s \in discover
      /\ "show" \in events[s] <=> s \in wasVisible /\ told[s] # "shown"
      /\ "hide" \in events[s] <=> s \notin wasVisible /\ told[s] = "shown"
      /\ "evade" \in events[s] <=> s \in evade
      /\ "destroy" \in events[s] <=> s \in evade \cap dying
      /\ "morph" \in events[s] => stage = "serve" /\ s \in accessible
      /\ "renegade" \in events[s] => stage = "serve" /\ s \in accessible

\* What the AI was told of the units it has access to, at the last Serve.
ToldOf == IF stage \in Comparing \cup {"serve"} THEN wasAccessible ELSE accessible

Telling ==
  /\ \A s \in Slots : told[s] \in {"hidden", "shown"} <=> s \in ToldOf
  /\ stage \in {"existence", "primary", "finish"} =>
       \A s \in Slots : told[s] = "shown" <=> s \in wasVisible
  /\ \A s \in Slots : told[s] = "dead" => stage = "finish" /\ s \in dying
  /\ stage \in {"existence", "finish"} =>
       \A s \in Slots \ Alive : told[s] = "new" \/ (stage = "finish" /\ s \in dying)
  /\ stage \notin {"existence", "finish"} =>
       \A s \in Slots \ wasAlive : told[s] = "new"

\* What is remembered of a unit (lastPlayer, lastType).
Memory ==
  /\ \A s \in Alive : lastKind[s] # "unknown" =>
       (lastKind[s] = "mineral" <=> unit[s].kind = "mineral")
  /\ \A s \in Slots : lastKind[s] \in {"mineral", "geyser"} => lastOwner[s] = Neutral
  /\ \A s \in Slots \ Alive :
       stage = "existence" \/ s \notin dying =>
         lastOwner[s] = NoPlayer /\ lastKind[s] = "unknown"

\* The units that the sets hold, and what the data say of them.
Held == IF stage \in Comparing THEN wasAccessible ELSE accessible

DataSayLast(s)  == toldOwner[s] = lastOwner[s] /\ toldKind[s] = lastKind[s]
DataSayWorld(s) == toldOwner[s] = unit[s].owner /\ toldKind[s] = unit[s].kind

Data ==
  /\ stage \notin Comparing => \A s \in accessible : DataSayLast(s) /\ DataSayWorld(s)
  /\ stage \in {"primary", "extract"} => \A s \in wasAccessible : DataSayLast(s)
  /\ stage = "secondary" => /\ \A s \in accessible : DataSayWorld(s)
                            /\ \A s \in evade \cap dying : DataSayLast(s)

\* No unit is in two players' sets, and one that is in a set is what was
\* remembered of it when it was put there.
Membership ==
  /\ \A p, q \in Players : p # q => sets.units[p] \cap sets.units[q] = {}
  /\ \A s \in Slots :
       /\ \A p \in Players : Object(s) \in sets.units[p] => lastOwner[s] = p
       /\ Object(s) \in sets.minerals => lastKind[s] = "mineral"
       /\ Object(s) \in sets.geysers => lastKind[s] = "geyser"
  /\ sets.accessible = ObjectsOf(Held)
  /\ \A s \in Held : lastOwner[s] \in Players /\ Object(s) \in sets.units[lastOwner[s]]

Destroyed ==
  stage \in {"serve", "finish"} =>
    \A s \in Told("destroy") :
      /\ \A p \in Players : Object(s) \notin sets.units[p]
      /\ Object(s) \notin sets.minerals \cup sets.geysers \cup sets.accessible

Clients ==
  /\ stage # "serve" => client = sets
  /\ stage = "serve" => ClientSets = sets

IInv ==
  /\ TypeOK /\ Lives /\ Access /\ Sight /\ Due /\ Telling
  /\ Memory /\ Data /\ Membership /\ Destroyed /\ Clients

-----------------------------------------------------------------------------
(* Objects of units.                                                       *)

\* A unit is in a set of units exactly if its object is in the set of theirs.
LEMMA ObjectIn ==
  ASSUME NEW S, NEW s
  PROVE  Object(s) \in ObjectsOf(S) <=> s \in S
BY DEF Object, ObjectsOf

\* The objects of the units of a slot that have gone are not touched.
LEMMA OldObjectOut ==
  ASSUME NEW S, NEW s, NEW n, n # number[s]
  PROVE  <<s, n>> \notin ObjectsOf(S)
BY DEF Object, ObjectsOf

LEMMA ObjectsAlgebra ==
  ASSUME NEW S, NEW T
  PROVE  /\ ObjectsOf(S \cup T) = ObjectsOf(S) \cup ObjectsOf(T)
         /\ ObjectsOf(S \ T) = ObjectsOf(S) \ ObjectsOf(T)
         /\ S \cap T = {} => ObjectsOf(S) \cap ObjectsOf(T) = {}
BY DEF Object, ObjectsOf

LEMMA ObjectsArePast ==
  ASSUME TypeOK, NEW S \in SUBSET Slots
  PROVE  ObjectsOf(S) \subseteq Past
BY DEF TypeOK, Past, Object, ObjectsOf

\* The fields of the sets of units.
LEMMA SetsTyped ==
  ASSUME NEW O, NEW x \in UnitSetsOf(O)
  PROVE  /\ x.accessible \subseteq O /\ x.neutral \subseteq O
         /\ x.minerals \subseteq O /\ x.geysers \subseteq O
         /\ \A p \in Players : x.units[p] \subseteq O
BY DEF UnitSetsOf

LEMMA NoSetsTyped == NoSets \in UnitSetsOf(Past)
BY DEF NoSets, UnitSetsOf

\* What Brood War's units are.
LEMMA ThingsAre ==
  ASSUME PlayersAssumption, NEW x \in Things
  PROVE  /\ x # Absent
         /\ x.kind \in UnitKinds /\ x.owner \in Players
         /\ x.kind \in {"mineral", "geyser"} => x.owner = Neutral
         /\ x.kind # "unknown" /\ x.owner # NoPlayer
<1>1. x.kind \in UnitKinds /\ x.owner \in Players
      /\ (x.kind \in {"mineral", "geyser"} => x.owner = Neutral)
  BY DEF PlayersAssumption, Things, Minerals, Geysers, Refineries, UnitKinds
<1>2. x # Absent
  BY <1>1 DEF Absent, UnitKinds
<1>3. QED
  BY <1>1, <1>2 DEF UnitKinds, PlayersAssumption

LEMMA AliveAre ==
  ASSUME PlayersAssumption, TypeOK, NEW s \in Alive
  PROVE  /\ s \in Slots /\ unit[s] \in Things
         /\ unit[s].kind \in UnitKinds /\ unit[s].owner \in Players
         /\ unit[s].kind \in {"mineral", "geyser"} => unit[s].owner = Neutral
<1>1. s \in Slots /\ unit[s] \in Things
  BY DEF TypeOK, Alive
<1>2. QED
  BY <1>1, ThingsAre

-----------------------------------------------------------------------------
(* The invariant holds initially.                                          *)

LEMMA InitIInv == ASSUME PlayersAssumption PROVE UnitsInit => IInv
<1> SUFFICES ASSUME UnitsInit PROVE IInv
  OBVIOUS
<1> USE DEF UnitsInit
<1>1. TypeOK
  BY NoSetsTyped DEF TypeOK, Stages, PlayersAssumption
<1>2. Alive = {}
  BY DEF Alive
<1>3. Lives /\ Sight /\ Due /\ Destroyed /\ Clients
  BY DEF Lives, Sight, Due, Destroyed, Clients
<1>4. Access
  BY DEF Access, Evaded, Compared
<1>5. Telling
  BY DEF Telling, ToldOf, Comparing
<1>6. Memory
  BY <1>2 DEF Memory
<1>7. Data
  BY DEF Data, Comparing
<1>8. Membership
  BY DEF Membership, Held, Comparing, NoSets, ObjectsOf
<1>9. QED
  BY <1>1, <1>3, <1>4, <1>5, <1>6, <1>7, <1>8 DEF IInv

-----------------------------------------------------------------------------
(* computeUnitExistence.                                                   *)

LEMMA StepExistence ==
  ASSUME PlayersAssumption, IInv, ComputeUnitExistence PROVE IInv'
<1> USE DEF ComputeUnitExistence
<1>0. TypeOK /\ stage = "existence" /\ stage' = "primary"
  BY DEF IInv
<1>1. TypeOK'
  <2>1. Alive \subseteq Slots /\ dying' \subseteq Slots
    BY DEF Alive
  <2>2. Past' = Past
    BY DEF Past
  <2>3. QED
    BY <1>0, <2>1, <2>2 DEF TypeOK, Stages, frameVars, lastVars, dataVars, Evaded
<1>2. wasAlive' = Alive
  BY <1>0 DEF IInv, Lives
<1>3. wasAccessible' = accessible /\ accessible' = accessible /\ accessible \subseteq Alive
  BY <1>0 DEF IInv, Access
<1>4. dying' = Alive \ Alive'
  BY DEF Alive
<1>5. Lives'
  BY <1>0, <1>2, <1>4 DEF Lives
<1>6. Access'
  BY <1>0, <1>2, <1>3 DEF Access, Compared
<1>7. Sight'
  BY <1>0, <1>3 DEF IInv, Sight
<1>8. Due' /\ Destroyed'
  BY <1>0 DEF Due, Destroyed
<1>9. Telling'
  BY <1>0, <1>2, <1>3 DEF IInv, Telling, ToldOf, Comparing
<1>10. Memory'
  <2>1. ASSUME NEW s \in Alive', lastKind[s] # "unknown"
        PROVE  lastKind[s] = "mineral" <=> unit'[s].kind = "mineral"
    <3>1. s \in Slots
      BY DEF Alive
    <3>2. s \in Alive
      BY <1>0, <2>1, <3>1 DEF IInv, Memory
    <3>3. Becomes(unit[s], unit'[s]) /\ unit[s] # Absent /\ unit'[s] # Absent
      BY <3>1, <3>2 DEF Alive
    <3>4. QED
      BY <2>1, <3>2, <3>3 DEF Becomes, IInv, Memory
  <2>2. \A s \in Slots : lastKind[s] \in {"mineral", "geyser"} => lastOwner[s] = Neutral
    BY DEF IInv, Memory
  <2>3. ASSUME NEW s \in Slots \ Alive', s \notin dying'
        PROVE  lastOwner[s] = NoPlayer /\ lastKind[s] = "unknown"
    BY <1>0, <1>4, <2>3 DEF IInv, Memory
  <2>4. QED
    BY <1>0, <2>1, <2>2, <2>3 DEF Memory, lastVars
<1>11. Data'
  BY <1>0, <1>3 DEF IInv, Data, Comparing, DataSayLast, lastVars, dataVars
<1>12. Membership'
  BY <1>0, <1>3 DEF IInv, Membership, Held, Comparing, Object, ObjectsOf, lastVars
<1>13. Clients'
  BY <1>0 DEF IInv, Clients
<1>14. QED
  BY <1>1, <1>5, <1>6, <1>7, <1>8, <1>9, <1>10, <1>11, <1>12, <1>13 DEF IInv

-----------------------------------------------------------------------------
(* computePrimaryUnitSets.                                                 *)

\* What is compared: the units that were accessible are alive or dying, and
\* those that were visible were accessible.
LEMMA Comparison ==
  ASSUME IInv, stage = "primary"
  PROVE  /\ wasVisible \subseteq wasAccessible /\ wasAccessible \subseteq Slots
         /\ wasAccessible \subseteq Alive \cup dying
         /\ Alive \subseteq Slots /\ dying = wasAlive \ Alive
         /\ Reached \subseteq Alive
         /\ Leaving = wasAccessible \ Reached
         /\ Arriving = Reached \ wasAccessible
         /\ Showing = {s \in Reached : Visible(s)} \ wasVisible
         /\ Hiding = wasVisible \ {s \in Reached : Visible(s)}
<1>1. wasVisible \subseteq wasAccessible
  BY DEF IInv, Access, Sight
<1>2. wasAccessible \subseteq Slots /\ wasAccessible \subseteq wasAlive
  BY DEF IInv, TypeOK, Access
<1>3. dying = wasAlive \ Alive
  BY DEF IInv, Lives
<1>4. wasAccessible \subseteq Alive \cup dying
  BY <1>2, <1>3
<1>5. Alive \subseteq Slots /\ Reached \subseteq Alive
  BY DEF Alive, Reached
<1>6. \A s : CanAccess(s) <=> s \in Reached
  BY DEF Reached, CanAccess
<1>7. Leaving = wasAccessible \ Reached
  BY <1>4, <1>6 DEF Leaving
<1>8. Arriving = Reached \ wasAccessible
  BY <1>5, <1>6 DEF Arriving
<1>9. Showing = {s \in Reached : Visible(s)} \ wasVisible
  BY <1>5, <1>6 DEF Showing
<1>10. Hiding = wasVisible \ {s \in Reached : Visible(s)}
  BY <1>1, <1>6, <1>7 DEF Hiding
<1>11. QED
  BY <1>1, <1>2, <1>3, <1>4, <1>5, <1>7, <1>8, <1>9, <1>10

LEMMA StepPrimary ==
  ASSUME PlayersAssumption, IInv, ComputePrimaryUnitSets PROVE IInv'
<1> USE DEF ComputePrimaryUnitSets
<1>0. TypeOK /\ stage = "primary" /\ stage' = "extract"
  BY DEF IInv
<1>a. Alive' = Alive /\ Reached' = Reached
  BY DEF Alive, Reached, CanAccess, Visible, IsNeutral
<1>b. /\ accessible' = Reached /\ Reached \subseteq Alive
      /\ evade' = wasAccessible \ Reached
      /\ discover' = Reached \ wasAccessible
      /\ wasVisible' = {s \in Reached : Visible(s)}
  BY <1>0, Comparison
<1>1. TypeOK'
  <2>1. /\ accessible' \subseteq Slots /\ evade' \subseteq Slots
        /\ discover' \subseteq Slots /\ wasVisible' \subseteq Slots
    BY <1>0, <1>b, Comparison
  <2>2. Completing \subseteq Slots
    BY <1>0 DEF Completing, Alive
  <2>3. events' \in [Slots -> SUBSET Notices]
    BY DEF PrimaryEvents
  <2>4. Past' = Past
    BY DEF Past
  <2>5. QED
    BY <1>0, <2>1, <2>2, <2>3, <2>4 DEF TypeOK, Stages, lastVars, dataVars
<1>2. Lives'
  BY <1>0, <1>a DEF IInv, Lives
<1>3. Access'
  BY <1>0, <1>a, <1>b DEF IInv, Access, Compared
<1>4. Sight'
  BY <1>0, <1>b DEF Sight, Visible
<1>5. Due'
  <2> SUFFICES ASSUME NEW s \in Slots
               PROVE /\ "create" \in events'[s] <=> s \in accessible' \ wasAlive'
                     /\ "complete" \in events'[s] => s \in accessible'
                     /\ "discover" \in events'[s] <=> s \in discover'
                     /\ "show" \in events'[s] <=> s \in wasVisible' /\ told'[s] # "shown"
                     /\ "hide" \in events'[s] <=> s \notin wasVisible' /\ told'[s] = "shown"
                     /\ "evade" \in events'[s] <=> s \in evade'
                     /\ "destroy" \in events'[s] <=> s \in evade' \cap dying'
                     /\ "morph" \notin events'[s] /\ "renegade" \notin events'[s]
    BY DEF Due
  <2>1. events'[s] = PrimaryEvents(s)
    OBVIOUS
  <2>2. CanAccess(s) <=> s \in Reached
    BY DEF Reached, CanAccess
  <2>3. told[s] = "shown" <=> s \in wasVisible
    BY <1>0 DEF IInv, Telling
  <2>4. s \in Completing => s \in Reached
    BY <2>2 DEF Completing
  <2>5. /\ "create" \in events'[s] <=> CanAccess(s) /\ s \notin wasAlive
        /\ "complete" \in events'[s] <=> s \in Completing
        /\ "discover" \in events'[s] <=> s \in Arriving
        /\ "show" \in events'[s] <=> s \in Showing
        /\ "hide" \in events'[s] <=> s \in Hiding
        /\ "evade" \in events'[s] <=> s \in Leaving
        /\ "destroy" \in events'[s] <=> s \in Leaving \cap dying
        /\ "morph" \notin events'[s] /\ "renegade" \notin events'[s]
    BY <2>1 DEF PrimaryEvents, Notices
  <2>6. s \in Showing <=> s \in wasVisible' /\ told[s] # "shown"
    BY <1>0, <1>b, <2>3, Comparison
  <2>7. s \in Hiding <=> s \notin wasVisible' /\ told[s] = "shown"
    BY <1>0, <1>b, <2>3, Comparison
  <2>8. QED
    BY <1>0, <1>b, <2>2, <2>4, <2>5, <2>6, <2>7
<1>6. Telling'
  BY <1>0 DEF IInv, Telling, ToldOf, Comparing
<1>7. Memory'
  BY <1>0, <1>a DEF IInv, Memory, lastVars
<1>8. Data'
  BY <1>0 DEF IInv, Data, Comparing, DataSayLast, lastVars, dataVars
<1>9. Membership'
  BY <1>0 DEF IInv, Membership, Held, Comparing, Object, ObjectsOf, lastVars
<1>10. Destroyed' /\ Clients'
  BY <1>0 DEF IInv, Destroyed, Clients
<1>11. QED
  BY <1>1, <1>2, <1>3, <1>4, <1>5, <1>6, <1>7, <1>8, <1>9, <1>10 DEF IInv

-----------------------------------------------------------------------------
(* The data of the units.                                                  *)

LEMMA DataTyped ==
  ASSUME PlayersAssumption, TypeOK, NEW s
  PROVE  /\ DataOwner(s) \in Players /\ DataKind(s) \in UnitKinds \cup {"unknown"}
         /\ s \in Reached => DataOwner(s) = unit[s].owner /\ DataKind(s) = unit[s].kind
<1>1. CanAccess(s) <=> s \in Reached
  BY DEF Reached, CanAccess
<1>2. CASE s \in Reached
  <2>1. s \in Alive
    BY <1>2 DEF Reached
  <2>2. QED
    BY <1>1, <1>2, <2>1, AliveAre DEF DataOwner, DataKind
<1>3. CASE s \notin Reached
  BY <1>1, <1>3 DEF DataOwner, DataKind, PlayersAssumption
<1>4. QED
  BY <1>2, <1>3

LEMMA UpdateTyped ==
  ASSUME PlayersAssumption, TypeOK, NEW S, UpdateData(S)
  PROVE  /\ toldOwner' \in [Slots -> Players]
         /\ toldKind' \in [Slots -> UnitKinds \cup {"unknown"}]
BY DataTyped DEF UpdateData, TypeOK

LEMMA StepExtract ==
  ASSUME PlayersAssumption, IInv, ExtractUnitData PROVE IInv'
<1> USE DEF ExtractUnitData
<1>0. TypeOK /\ stage = "extract" /\ stage' = "secondary"
  BY DEF IInv
<1>a. /\ Alive' = Alive /\ Reached' = Reached
      /\ accessible' = accessible /\ wasAccessible' = wasAccessible
      /\ evade' = evade /\ discover' = discover /\ dying' = dying
  BY DEF Alive, Reached, CanAccess, Visible, IsNeutral, frameVars, flagVars
<1>1. TypeOK'
  <2>1. Past' = Past
    BY DEF Past
  <2>2. QED
    BY <1>0, <2>1, UpdateTyped DEF TypeOK, Stages, frameVars, flagVars, lastVars
<1>2. Lives' /\ Access' /\ Sight'
  BY <1>0, <1>a DEF IInv, Lives, Access, Sight, Compared, Visible, flagVars
<1>3. Due'
  BY <1>0, <1>a DEF IInv, Due, flagVars
<1>4. Telling'
  BY <1>0, <1>a DEF IInv, Telling, ToldOf, Comparing, flagVars
<1>5. Memory'
  BY <1>0, <1>a DEF IInv, Memory, lastVars
<1>6. Data'
  <2>1. ASSUME NEW s \in accessible PROVE DataSayWorld(s)'
    <3>1. s \in Slots /\ s \in Alive /\ s \in Reached
      BY <1>0 DEF IInv, Access, Alive, Reached
    <3>2. toldOwner'[s] = DataOwner(s) /\ toldKind'[s] = DataKind(s)
      BY <3>1 DEF UpdateData, Extracted
    <3>3. QED
      BY <1>0, <3>1, <3>2, DataTyped DEF DataSayWorld
  <2>2. ASSUME NEW s \in evade \cap dying PROVE DataSayLast(s)'
    <3>1. s \in Slots /\ s \notin Alive /\ s \in wasAccessible
      BY <1>0 DEF IInv, TypeOK, Access, Lives, Compared
    <3>2. toldOwner'[s] = toldOwner[s] /\ toldKind'[s] = toldKind[s]
      BY <3>1 DEF UpdateData, Extracted
    <3>3. DataSayLast(s)
      BY <1>0, <3>1 DEF IInv, Data
    <3>4. QED
      BY <3>2, <3>3 DEF DataSayLast, lastVars
  <2>3. QED
    BY <1>0, <1>a, <2>1, <2>2 DEF Data, Comparing
<1>7. Membership'
  BY <1>0, <1>a DEF IInv, Membership, Held, Comparing, Object, ObjectsOf, lastVars
<1>8. Destroyed' /\ Clients'
  BY <1>0 DEF IInv, Destroyed, Clients
<1>9. QED
  BY <1>1, <1>2, <1>3, <1>4, <1>5, <1>6, <1>7, <1>8 DEF IInv

-----------------------------------------------------------------------------
(* computeSecondaryUnitSets.                                               *)

\* What is known when the sets are changed.
LEMMA AtSecondary ==
  ASSUME PlayersAssumption, IInv, stage = "secondary"
  PROVE  /\ accessible \subseteq Alive /\ Alive \subseteq Slots
         /\ wasAccessible \subseteq Slots
         /\ evade = wasAccessible \ accessible /\ discover = accessible \ wasAccessible
         /\ Morphed \subseteq accessible /\ Changed \subseteq accessible
         /\ \A s \in accessible :
              /\ unit[s].owner \in Players /\ unit[s].kind \in UnitKinds
              /\ toldOwner[s] = unit[s].owner /\ toldKind[s] = unit[s].kind
              /\ unit[s].kind \in {"mineral", "geyser"} => unit[s].owner = Neutral
              /\ lastKind[s] # "unknown" =>
                   (lastKind[s] = "mineral" <=> unit[s].kind = "mineral")
         /\ \A s \in wasAccessible :
              lastOwner[s] \in Players /\ Object(s) \in sets.units[lastOwner[s]]
<1>1. accessible \subseteq Alive /\ Alive \subseteq Slots
  BY DEF IInv, Access, Alive
<1>2. /\ wasAccessible \subseteq Slots
      /\ evade = wasAccessible \ accessible /\ discover = accessible \ wasAccessible
  BY DEF IInv, TypeOK, Access, Compared
<1>3. Morphed \subseteq accessible /\ Changed \subseteq accessible
  BY DEF Morphed, Changed
<1>4. ASSUME NEW s \in accessible
      PROVE  /\ unit[s].owner \in Players /\ unit[s].kind \in UnitKinds
             /\ toldOwner[s] = unit[s].owner /\ toldKind[s] = unit[s].kind
             /\ unit[s].kind \in {"mineral", "geyser"} => unit[s].owner = Neutral
             /\ lastKind[s] # "unknown" =>
                  (lastKind[s] = "mineral" <=> unit[s].kind = "mineral")
  <2>1. s \in Alive /\ TypeOK
    BY <1>1 DEF IInv
  <2>2. DataSayWorld(s)
    BY DEF IInv, Data
  <2>3. QED
    BY <2>1, <2>2, AliveAre DEF DataSayWorld, IInv, Memory
<1>5. ASSUME NEW s \in wasAccessible
      PROVE  lastOwner[s] \in Players /\ Object(s) \in sets.units[lastOwner[s]]
  BY DEF IInv, Membership, Held, Comparing
<1>6. QED
  BY <1>1, <1>2, <1>3, <1>4, <1>5

\* A set of a player afterwards: of the units that are accessible those that
\* are his, of the others those that were in it and did not leave it.
LEMMA UnitsAfterAre ==
  ASSUME PlayersAssumption, IInv, stage = "secondary", NEW p \in Players, NEW s \in Slots
  PROVE  /\ s \in accessible => (Object(s) \in UnitsAfter(p) <=> unit[s].owner = p)
         /\ s \notin accessible =>
              (Object(s) \in UnitsAfter(p) <=>
                 Object(s) \in sets.units[p] /\ ~(s \in evade /\ toldOwner[s] = p))
         /\ \A n \in Nat : n # number[s] =>
              (<<s, n>> \in UnitsAfter(p) <=> <<s, n>> \in sets.units[p])
<1>0. Object(s) \in sets.units[p] => lastOwner[s] = p
  BY DEF IInv, Membership
<1>1. Object(s) \in UnitsAfter(p) <=>
        \/ /\ Object(s) \in sets.units[p] \/ s \in {r \in discover : toldOwner[r] = p}
           /\ s \notin {r \in evade : toldOwner[r] = p}
           /\ s \notin {r \in Changed : lastOwner[r] = p}
        \/ s \in {r \in Changed : unit[r].owner = p}
  BY ObjectIn DEF UnitsAfter, Kept
<1>2. \A n \in Nat : n # number[s] =>
        (<<s, n>> \in UnitsAfter(p) <=> <<s, n>> \in sets.units[p])
  BY OldObjectOut DEF UnitsAfter, Kept
<1>3. CASE s \in accessible
  <2>1. s \in Changed <=> lastOwner[s] # NoPlayer /\ lastOwner[s] # unit[s].owner
    BY <1>3 DEF Changed
  <2>2. NoPlayer # p
    BY DEF PlayersAssumption
  <2>3. CASE s \in wasAccessible
    <3>1. lastOwner[s] # NoPlayer /\ Object(s) \in sets.units[lastOwner[s]]
      BY <2>3, AtSecondary DEF PlayersAssumption
    <3>2. s \notin discover /\ s \notin evade
      BY <1>3, <2>3, AtSecondary
    <3>3. QED
      BY <1>0, <1>1, <1>2, <1>3, <2>1, <2>2, <3>1, <3>2
  <2>4. CASE s \notin wasAccessible
    <3>1. s \in discover /\ s \notin evade /\ toldOwner[s] = unit[s].owner
      BY <1>3, <2>4, AtSecondary
    <3>2. QED
      BY <1>0, <1>1, <1>2, <1>3, <2>1, <2>2, <3>1
  <2>5. QED
    BY <2>3, <2>4
<1>4. CASE s \notin accessible
  <2>1. s \notin Changed /\ s \notin discover
    BY <1>4, AtSecondary
  <2>2. QED
    BY <1>1, <1>2, <1>4, <2>1
<1>5. QED
  BY <1>3, <1>4

\* The same of the sets of minerals and of geysers.
LEMMA ResourcesAfterAre ==
  ASSUME PlayersAssumption, IInv, stage = "secondary", NEW s \in Slots
  PROVE  /\ Object(s) \in GameSets.minerals =>
              IF s \in accessible THEN unit[s].kind = "mineral"
              ELSE Object(s) \in sets.minerals /\ s \notin ToldToBe(evade, "mineral")
         /\ Object(s) \in GameSets.geysers =>
              IF s \in accessible THEN unit[s].kind = "geyser"
              ELSE Object(s) \in sets.geysers /\ s \notin ToldToBe(evade, "geyser")
<1>0. /\ Object(s) \in sets.minerals => lastKind[s] = "mineral"
      /\ Object(s) \in sets.geysers => lastKind[s] = "geyser"
  BY DEF IInv, Membership
<1>1. Object(s) \in GameSets.minerals =>
        /\ Object(s) \in sets.minerals \/ s \in ToldToBe(discover, "mineral")
        /\ s \notin ToldToBe(evade, "mineral")
  BY ObjectIn DEF GameSets, Kept
<1>2. Object(s) \in GameSets.geysers =>
        \/ /\ Object(s) \in sets.geysers \/ s \in ToldToBe(discover, "geyser")
           /\ s \notin ToldToBe(evade, "geyser") /\ s \notin FromGeyser
        \/ s \in ToGeyser
  BY ObjectIn DEF GameSets, Kept
<1>3. \A k : s \in ToldToBe(discover, k) => s \in discover /\ toldKind[s] = k
  BY DEF ToldToBe, ToldNeutral
<1>4. CASE s \in accessible
  <2>1. /\ toldKind[s] = unit[s].kind
        /\ lastKind[s] # "unknown" => (lastKind[s] = "mineral" <=> unit[s].kind = "mineral")
    BY <1>4, AtSecondary
  <2>2. lastKind[s] = "geyser" /\ unit[s].kind # "geyser" => s \in FromGeyser
    BY <1>4 DEF FromGeyser, Morphed
  <2>3. s \in ToGeyser => unit[s].kind = "geyser"
    BY DEF ToGeyser
  <2>4. QED
    BY <1>0, <1>1, <1>2, <1>3, <1>4, <2>1, <2>2, <2>3
<1>5. CASE s \notin accessible
  <2>1. s \notin discover /\ s \notin ToGeyser
    BY <1>5, AtSecondary DEF ToGeyser
  <2>2. QED
    BY <1>1, <1>2, <1>3, <1>5, <2>1
<1>6. QED
  BY <1>4, <1>5

\* Nothing but objects that there are or have been comes into a set.
LEMMA GameSetsTyped ==
  ASSUME PlayersAssumption, IInv, stage = "secondary"
  PROVE  GameSets \in UnitSetsOf(Past)
<1>0. TypeOK /\ sets \in UnitSetsOf(Past)
  BY DEF IInv, TypeOK
<1>1. /\ discover \subseteq Slots /\ evade \subseteq Slots /\ accessible \subseteq Slots
      /\ Morphed \subseteq Slots /\ Changed \subseteq Slots
  BY <1>0, AtSecondary DEF TypeOK
<1>2. ASSUME NEW S, S \subseteq Slots PROVE ObjectsOf(S) \subseteq Past
  BY <1>0, <1>2, ObjectsArePast
<1>3. ASSUME NEW old, NEW in, NEW out, old \subseteq Past, in \subseteq Slots
      PROVE Kept(old, in, out) \subseteq Past
  BY <1>2, <1>3 DEF Kept
<1>4. /\ \A k : ToldToBe(discover, k) \subseteq Slots
      /\ ToldNeutral(discover) \subseteq Slots /\ ToGeyser \subseteq Slots
  BY <1>1 DEF ToldToBe, ToldNeutral, ToGeyser
<1>5. ObjectsOf(ToGeyser) \subseteq Past /\ ObjectsOf(accessible) \subseteq Past
  BY <1>1, <1>2, <1>4
<1>6. ASSUME NEW p \in Players PROVE UnitsAfter(p) \subseteq Past
  <2>1. {s \in discover : toldOwner[s] = p} \subseteq Slots
    BY <1>1
  <2>2. ObjectsOf({s \in Changed : unit[s].owner = p}) \subseteq Past
    BY <1>1, <1>2
  <2>3. sets.units[p] \subseteq Past
    BY <1>0, SetsTyped
  <2>4. Kept(sets.units[p], {s \in discover : toldOwner[s] = p},
             {s \in evade : toldOwner[s] = p}) \subseteq Past
    BY <1>3, <2>1, <2>3
  <2>5. QED
    BY <2>2, <2>4 DEF UnitsAfter
<1>7. GameSets.neutral \subseteq Past
  BY <1>0, <1>3, <1>4, <1>5, SetsTyped DEF GameSets
<1>8. GameSets.minerals \subseteq Past
  BY <1>0, <1>3, <1>4, SetsTyped DEF GameSets
<1>9. GameSets.geysers \subseteq Past
  BY <1>0, <1>3, <1>4, <1>5, SetsTyped DEF GameSets
<1>10. GameSets.units \in [Players -> SUBSET Past] /\ GameSets.accessible \subseteq Past
  BY <1>5, <1>6 DEF GameSets
<1>11. GameSets = [accessible |-> GameSets.accessible, units |-> GameSets.units,
                   neutral |-> GameSets.neutral, minerals |-> GameSets.minerals,
                   geysers |-> GameSets.geysers]
  BY DEF GameSets
<1>12. QED
  BY <1>7, <1>8, <1>9, <1>10, <1>11 DEF UnitSetsOf

\* Whom the events name when the sets have been changed.
LEMMA EventsTold ==
  ASSUME PlayersAssumption, IInv, ComputeSecondaryUnitSets
  PROVE  /\ Told("discover")' = discover /\ Told("evade")' = evade
         /\ Told("morph")' = Morphed /\ Told("renegade")' = Changed
         /\ Told("destroy")' = evade \cap dying
<1>0. TypeOK /\ stage = "secondary"
  BY DEF IInv, ComputeSecondaryUnitSets
<1>1. ASSUME NEW s \in Slots
      PROVE  /\ "discover" \in events'[s] <=> s \in discover
             /\ "evade" \in events'[s] <=> s \in evade
             /\ "destroy" \in events'[s] <=> s \in evade \cap dying
             /\ "morph" \in events'[s] <=> s \in Morphed
             /\ "renegade" \in events'[s] <=> s \in Changed
  <2>1. events'[s] = events[s] \cup (IF s \in Morphed THEN {"morph"} ELSE {})
                               \cup (IF s \in Changed THEN {"renegade"} ELSE {})
    BY DEF ComputeSecondaryUnitSets
  <2>2. /\ "discover" \in events[s] <=> s \in discover
        /\ "evade" \in events[s] <=> s \in evade
        /\ "destroy" \in events[s] <=> s \in evade \cap dying
        /\ "morph" \notin events[s] /\ "renegade" \notin events[s]
    BY <1>0 DEF IInv, Due
  <2>3. QED
    BY <2>1, <2>2
<1>2. /\ discover \subseteq Slots /\ evade \subseteq Slots
      /\ Morphed \subseteq Slots /\ Changed \subseteq Slots
  BY <1>0, AtSecondary DEF TypeOK
<1>3. QED
  BY <1>1, <1>2 DEF Told

\* From the events the client makes the same sets as the game.
LEMMA ClientFollows ==
  ASSUME PlayersAssumption, IInv, ComputeSecondaryUnitSets
  PROVE  ClientSets' = GameSets
<1>0. TypeOK /\ stage = "secondary" /\ client' = sets
  BY DEF IInv, ComputeSecondaryUnitSets, Clients
<1>1. /\ number' = number /\ toldOwner' = toldOwner /\ toldKind' = toldKind
      /\ discover' = discover /\ evade' = evade
  BY DEF ComputeSecondaryUnitSets, frameVars, dataVars
<1>2. \A S : ObjectsOf(S)' = ObjectsOf(S)
  BY <1>1 DEF ObjectsOf, Object
<1>3. /\ BecomeGeysers' = ToGeyser
      /\ BecomeRefineries' = {s \in Morphed : toldKind[s] = "refinery"}
  <2>1. \A s \in Morphed : toldKind[s] = unit[s].kind
    BY <1>0, AtSecondary
  <2>2. QED
    BY <1>1, <2>1, EventsTold DEF BecomeGeysers, BecomeRefineries, ToGeyser
<1>4. BecomeRefineries' = FromGeyser
  <2>1. ASSUME NEW s \in Morphed
        PROVE toldKind[s] = "refinery" <=> lastKind[s] = "geyser"
    <3>1. /\ toldKind[s] = unit[s].kind /\ unit[s].kind \in UnitKinds
          /\ lastKind[s] # "unknown" => (lastKind[s] = "mineral" <=> unit[s].kind = "mineral")
      BY <1>0, AtSecondary
    <3>2. lastKind[s] \in UnitKinds \ {unit[s].kind} /\ lastKind[s] # "unknown"
      <4>1. s \in Slots /\ lastKind[s] \notin {"unknown", unit[s].kind}
        BY <1>0, AtSecondary DEF Morphed
      <4>2. QED
        BY <1>0, <4>1 DEF TypeOK
    <3>3. QED
      BY <3>1, <3>2 DEF UnitKinds
  <2>2. QED
    BY <1>3, <2>1 DEF FromGeyser
<1>5. ToGeyser \cap FromGeyser = {}
  BY DEF ToGeyser, FromGeyser, Morphed
<1>6. ClientSets' =
        [accessible |-> Kept(sets.accessible, discover, evade),
         units      |-> [p \in Players |->
            (Kept(sets.units[p], {s \in discover : toldOwner[s] = p},
                                 {s \in evade : toldOwner[s] = p}) \ ObjectsOf(Changed))
              \cup ObjectsOf({s \in Changed : toldOwner[s] = p})],
         neutral    |-> Kept(Kept(sets.neutral, ToldNeutral(discover), ToldNeutral(evade)),
                             ToGeyser, FromGeyser),
         minerals   |-> Kept(sets.minerals, ToldToBe(discover, "mineral"),
                                            ToldToBe(evade, "mineral")),
         geysers    |-> Kept(Kept(sets.geysers, ToldToBe(discover, "geyser"),
                                                ToldToBe(evade, "geyser")),
                             ToGeyser, FromGeyser)]
  BY <1>0, <1>1, <1>3, <1>4, EventsTold, ZenonT(30)
     DEF ClientSets, Renegades, Kept, ObjectsOf, Object, ToldNeutral, ToldToBe
<1>7. Kept(sets.accessible, discover, evade) = ObjectsOf(accessible)
  <2>1. sets.accessible = ObjectsOf(wasAccessible)
    BY <1>0 DEF IInv, Membership, Held, Comparing
  <2>2. (wasAccessible \cup discover) \ evade = accessible
    BY <1>0, AtSecondary
  <2>3. Kept(ObjectsOf(wasAccessible), discover, evade)
          = ObjectsOf((wasAccessible \cup discover) \ evade)
    <3>1. ObjectsOf(wasAccessible \cup discover)
            = ObjectsOf(wasAccessible) \cup ObjectsOf(discover)
      BY ObjectsAlgebra
    <3>2. ObjectsOf((wasAccessible \cup discover) \ evade)
            = ObjectsOf(wasAccessible \cup discover) \ ObjectsOf(evade)
      BY ObjectsAlgebra
    <3>3. QED
      BY <3>1, <3>2 DEF Kept
  <2>4. QED
    BY <2>1, <2>2, <2>3
<1>8. ASSUME NEW p \in Players
      PROVE  (Kept(sets.units[p], {s \in discover : toldOwner[s] = p},
                                  {s \in evade : toldOwner[s] = p}) \ ObjectsOf(Changed))
               \cup ObjectsOf({s \in Changed : toldOwner[s] = p})
             = UnitsAfter(p)
  <2> DEFINE seen == Kept(sets.units[p], {s \in discover : toldOwner[s] = p},
                                         {s \in evade : toldOwner[s] = p})
             new == ObjectsOf({s \in Changed : toldOwner[s] = p})
             gone == ObjectsOf({s \in Changed : lastOwner[s] = p})
  <2>1. \A s \in Changed : s \in Slots /\ s \in accessible /\ toldOwner[s] = unit[s].owner
    BY <1>0, AtSecondary
  <2>2. {s \in Changed : toldOwner[s] = p} = {s \in Changed : unit[s].owner = p}
    BY <2>1
  <2>3. UnitsAfter(p) = (seen \ gone) \cup new
    BY <2>2 DEF UnitsAfter
  <2>4. gone \subseteq ObjectsOf(Changed)
    BY DEF ObjectsOf
  <2>5. ASSUME NEW s \in Changed, Object(s) \in UnitsAfter(p)
        PROVE Object(s) \in new
    <3>1. unit[s].owner = p
      BY <1>0, <2>1, <2>5, UnitsAfterAre
    <3>2. s \in {r \in Changed : toldOwner[r] = p}
      BY <2>1, <3>1
    <3>3. QED
      BY <3>2, ObjectIn
  <2>6. \A x \in ObjectsOf(Changed) : x \in UnitsAfter(p) => x \in new
    BY <2>5 DEF ObjectsOf
  <2> HIDE DEF seen, new, gone
  <2>7. (seen \ ObjectsOf(Changed)) \cup new = UnitsAfter(p)
    BY <2>3, <2>4, <2>6
  <2>8. QED
    BY <2>7 DEF seen, new
<1>9. ASSUME NEW old
      PROVE Kept(old, ToGeyser, FromGeyser)
              = (old \ ObjectsOf(FromGeyser)) \cup ObjectsOf(ToGeyser)
  BY <1>5, ObjectsAlgebra DEF Kept
<1>10. QED
  BY <1>6, <1>7, <1>8, <1>9 DEF GameSets

LEMMA StepSecondary ==
  ASSUME PlayersAssumption, IInv, ComputeSecondaryUnitSets PROVE IInv'
<1> USE DEF ComputeSecondaryUnitSets
<1>0. TypeOK /\ stage = "secondary" /\ stage' = "serve"
  BY DEF IInv
<1>a. /\ Alive' = Alive /\ Reached' = Reached
      /\ accessible' = accessible /\ wasAccessible' = wasAccessible /\ wasVisible' = wasVisible
      /\ wasAlive' = wasAlive /\ number' = number
      /\ evade' = evade /\ discover' = discover /\ dying' = dying
  BY DEF Alive, Reached, CanAccess, Visible, IsNeutral, frameVars
<1>b. \A s : Object(s)' = Object(s)
  BY <1>a DEF Object
<1>1. TypeOK'
  <2>1. Past' = Past
    BY <1>a DEF Past
  <2>2. sets' \in UnitSetsOf(Past)'
    BY <1>0, <2>1, GameSetsTyped DEF UnitSetsOf
  <2>3. \A s \in accessible : OwnerSeen(s) \in Players /\ unit[s].kind \in UnitKinds
    BY <1>0, AtSecondary DEF OwnerSeen
  <2>4. /\ lastOwner' \in [Slots -> Players \cup {NoPlayer}]
        /\ lastKind' \in [Slots -> UnitKinds \cup {"unknown"}]
    BY <1>0, <2>3 DEF TypeOK
  <2>5. events' \in [Slots -> SUBSET Notices]
    BY <1>0 DEF TypeOK, Notices
  <2>6. QED
    BY <1>0, <2>2, <2>4, <2>5 DEF TypeOK, Stages, frameVars, dataVars
<1>2. Lives' /\ Access' /\ Sight'
  BY <1>0, <1>a DEF IInv, Lives, Access, Sight, Compared, Visible
<1>3. Due'
  <2>1. Morphed \subseteq accessible /\ Changed \subseteq accessible
    BY DEF Morphed, Changed
  <2>2. QED
    BY <1>0, <1>a, <2>1 DEF IInv, Due
<1>4. Telling'
  BY <1>0, <1>a DEF IInv, Telling, ToldOf, Comparing
<1>c. ASSUME NEW s \in accessible
      PROVE  /\ s \in Slots /\ s \in Alive
             /\ lastOwner'[s] = unit[s].owner /\ lastKind'[s] = unit[s].kind
             /\ unit[s].owner \in Players /\ unit[s].kind \in UnitKinds
             /\ toldOwner[s] = unit[s].owner /\ toldKind[s] = unit[s].kind
             /\ unit[s].kind \in {"mineral", "geyser"} => unit[s].owner = Neutral
  BY <1>0, AtSecondary DEF OwnerSeen
<1>d. \A s \in Slots \ accessible : lastOwner'[s] = lastOwner[s] /\ lastKind'[s] = lastKind[s]
  OBVIOUS
<1>5. Memory'
  BY <1>0, <1>a, <1>c, <1>d DEF IInv, Memory, Alive
<1>6. Data'
  BY <1>0, <1>a, <1>c DEF Data, Comparing, DataSayLast, DataSayWorld, dataVars
<1>7. Membership'
  <2>1. ASSUME NEW p \in Players, NEW q \in Players, p # q
        PROVE UnitsAfter(p) \cap UnitsAfter(q) = {}
    <3> SUFFICES ASSUME NEW x, x \in UnitsAfter(p), x \in UnitsAfter(q) PROVE FALSE
      OBVIOUS
    <3>1. PICK s \in Slots, n \in Nat : x = <<s, n>>
      <4>1. UnitsAfter(p) \subseteq Past
        BY <1>0, GameSetsTyped, SetsTyped DEF GameSets
      <4>2. QED
        BY <4>1 DEF Past
    <3>2. sets.units[p] \cap sets.units[q] = {}
      BY <2>1 DEF IInv, Membership
    <3>3. CASE n = number[s]
      <4>1. x = Object(s)
        BY <3>1, <3>3 DEF Object
      <4>2. QED
        BY <1>0, <2>1, <3>2, <4>1, UnitsAfterAre
    <3>4. CASE n # number[s]
      BY <1>0, <3>1, <3>2, <3>4, UnitsAfterAre
    <3>5. QED
      BY <3>3, <3>4
  <2>2. ASSUME NEW s \in Slots, NEW p \in Players, Object(s) \in UnitsAfter(p)
        PROVE lastOwner'[s] = p
    <3>1. CASE s \in accessible
      BY <1>0, <1>c, <2>2, <3>1, UnitsAfterAre
    <3>2. CASE s \notin accessible
      BY <1>0, <1>d, <2>2, <3>2, UnitsAfterAre DEF IInv, Membership
    <3>3. QED
      BY <3>1, <3>2
  <2>3. ASSUME NEW s \in Slots
        PROVE /\ Object(s) \in GameSets.minerals => lastKind'[s] = "mineral"
              /\ Object(s) \in GameSets.geysers => lastKind'[s] = "geyser"
    <3>1. CASE s \in accessible
      BY <1>0, <1>c, <3>1, ResourcesAfterAre
    <3>2. CASE s \notin accessible
      BY <1>0, <1>d, <3>2, ResourcesAfterAre DEF IInv, Membership
    <3>3. QED
      BY <3>1, <3>2
  <2>4. Held' = accessible
    BY <1>0, <1>a DEF Held, Comparing
  <2>5. \A s \in accessible : Object(s) \in UnitsAfter(unit[s].owner)
    BY <1>0, <1>c, UnitsAfterAre
  <2>6. sets' = GameSets /\ \A p \in Players : sets'.units[p] = UnitsAfter(p)
    BY DEF GameSets
  <2>7. sets'.accessible = ObjectsOf(Held)'
    BY <1>a, <2>4 DEF GameSets, ObjectsOf, Object
  <2>8. \A p, q \in Players : p # q => sets'.units[p] \cap sets'.units[q] = {}
    BY <2>1, <2>6
  <2>9. ASSUME NEW s \in Slots
        PROVE  /\ \A p \in Players : Object(s)' \in sets'.units[p] => lastOwner'[s] = p
               /\ Object(s)' \in sets'.minerals => lastKind'[s] = "mineral"
               /\ Object(s)' \in sets'.geysers => lastKind'[s] = "geyser"
    BY <1>b, <2>2, <2>3, <2>6
  <2>10. ASSUME NEW s \in accessible
         PROVE lastOwner'[s] \in Players /\ Object(s)' \in sets'.units[lastOwner'[s]]
    BY <1>b, <1>c, <2>5, <2>6, ZenonT(30)
  <2>11. QED
    BY <2>4, <2>7, <2>8, <2>9, <2>10 DEF Membership
<1>8. Destroyed'
  <2>1. Told("destroy")' = evade \cap dying
    BY EventsTold
  <2>2. ASSUME NEW s \in evade \cap dying
        PROVE  /\ \A p \in Players : Object(s) \notin UnitsAfter(p)
               /\ Object(s) \notin GameSets.minerals \cup GameSets.geysers
               /\ Object(s) \notin ObjectsOf(accessible)
    <3>1. s \in Slots /\ s \notin accessible /\ DataSayLast(s)
      BY <1>0, AtSecondary DEF IInv, Data, TypeOK
    <3>2. toldOwner[s] = lastOwner[s] /\ toldKind[s] = lastKind[s]
      BY <3>1 DEF DataSayLast
    <3>3. \A p \in Players : Object(s) \notin UnitsAfter(p)
      BY <1>0, <3>1, <3>2, UnitsAfterAre DEF IInv, Membership
    <3>4. /\ Object(s) \in sets.minerals => s \in ToldToBe(evade, "mineral")
          /\ Object(s) \in sets.geysers => s \in ToldToBe(evade, "geyser")
      BY <3>1, <3>2 DEF IInv, Membership, Memory, ToldToBe, ToldNeutral
    <3>5. QED
      BY <1>0, <3>1, <3>3, <3>4, ResourcesAfterAre, ObjectIn
  <2>3. sets'.accessible = ObjectsOf(accessible) /\ sets' = GameSets
    BY DEF GameSets
  <2>4. \A p \in Players : sets'.units[p] = UnitsAfter(p)
    BY DEF GameSets
  <2>5. QED
    BY <1>b, <2>1, <2>2, <2>3, <2>4 DEF Destroyed
<1>9. Clients'
  BY <1>0, ClientFollows DEF Clients
<1>10. QED
  BY <1>1, <1>2, <1>3, <1>4, <1>5, <1>6, <1>7, <1>8, <1>9 DEF IInv
-----------------------------------------------------------------------------
(* server.update, and the end of the frame.                                *)

\* What the AI knows of a unit once the events of a frame were told.
LEMMA LearnedIs ==
  ASSUME IInv, stage = "serve", NEW s \in Slots
  PROVE  /\ Learned(s) \in {"new", "hidden", "shown", "lost", "dead"}
         /\ Learned(s) \in {"hidden", "shown"} <=> s \in accessible
         /\ Learned(s) = "shown" <=> s \in wasVisible
         /\ Learned(s) = "dead" => s \in dying
         /\ s \notin wasAlive /\ s \notin accessible => Learned(s) = "new"
<1>1. /\ "discover" \in events[s] <=> s \in discover
      /\ "show" \in events[s] <=> s \in wasVisible /\ told[s] # "shown"
      /\ "hide" \in events[s] <=> s \notin wasVisible /\ told[s] = "shown"
      /\ "evade" \in events[s] <=> s \in evade
      /\ "destroy" \in events[s] <=> s \in evade \cap dying
  BY DEF IInv, Due
<1>2. /\ told[s] \in {"new", "hidden", "shown", "lost", "dead"}
      /\ told[s] \in {"hidden", "shown"} <=> s \in wasAccessible
      /\ told[s] # "dead"
      /\ s \notin wasAlive => told[s] = "new"
  BY DEF IInv, TypeOK, Telling, ToldOf
<1>3. /\ evade = wasAccessible \ accessible /\ discover = accessible \ wasAccessible
      /\ wasVisible \subseteq accessible /\ wasAccessible \subseteq wasAlive
  BY DEF IInv, Access, Sight, Compared
<1>4. CASE s \in evade
  BY <1>1, <1>3, <1>4 DEF Learned
<1>5. CASE s \notin evade
  <2>1. Learned(s) = IF "show" \in events[s] THEN "shown"
                     ELSE IF "hide" \in events[s] \/ "discover" \in events[s] THEN "hidden"
                     ELSE told[s]
    BY <1>1, <1>5 DEF Learned
  <2>2. QED
    BY <1>1, <1>2, <1>3, <1>5, <2>1
<1>6. QED
  BY <1>4, <1>5

LEMMA StepServe ==
  ASSUME PlayersAssumption, IInv, Serve PROVE IInv'
<1> USE DEF Serve
<1>0. TypeOK /\ stage = "serve" /\ stage' = "finish"
  BY DEF IInv
<1>a. /\ Alive' = Alive /\ number' = number
      /\ accessible' = accessible /\ wasAccessible' = wasAccessible
      /\ wasVisible' = wasVisible /\ wasAlive' = wasAlive
      /\ evade' = evade /\ discover' = discover /\ dying' = dying
  BY DEF Alive, frameVars, flagVars
<1>1. TypeOK'
  <2>1. Past' = Past
    BY <1>a DEF Past
  <2>2. told' \in [Slots -> {"new", "hidden", "shown", "lost", "dead"}]
    BY <1>0, LearnedIs
  <2>3. mapInfo' \in BOOLEAN
    BY <1>0 DEF TypeOK
  <2>4. QED
    BY <1>0, <2>1, <2>2, <2>3 DEF TypeOK, Stages, frameVars, flagVars, lastVars, dataVars
<1>2. Lives' /\ Access' /\ Sight' /\ Due'
  BY <1>0, <1>a DEF IInv, Lives, Access, Sight, Due, Compared, Visible
<1>3. Telling'
  <2>1. \A s \in Slots : told'[s] = Learned(s)
    OBVIOUS
  <2>2. ToldOf' = accessible
    BY <1>0, <1>a DEF ToldOf, Comparing
  <2>3. \A s \in Slots \ Alive : s \in dying \/ (s \notin wasAlive /\ s \notin accessible)
    BY <1>0 DEF IInv, Lives, Access
  <2>4. QED
    BY <1>0, <1>a, <2>1, <2>2, <2>3, LearnedIs DEF Telling
<1>4. Memory'
  BY <1>0, <1>a DEF IInv, Memory, lastVars
<1>5. Data'
  BY <1>0, <1>a DEF IInv, Data, Comparing, DataSayLast, DataSayWorld, lastVars, dataVars
<1>6. Membership'
  BY <1>0, <1>a DEF IInv, Membership, Held, Comparing, Object, ObjectsOf, lastVars
<1>7. Destroyed'
  BY <1>0, <1>a DEF IInv, Destroyed, Object, Told
<1>8. Clients'
  BY <1>0 DEF IInv, Clients
<1>9. QED
  BY <1>1, <1>2, <1>3, <1>4, <1>5, <1>6, <1>7, <1>8 DEF IInv

LEMMA StepFinish ==
  ASSUME PlayersAssumption, IInv, Finish PROVE IInv'
<1> USE DEF Finish
<1>0. TypeOK /\ stage = "finish" /\ stage' = "existence"
  BY DEF IInv
<1>a. /\ Alive' = Alive /\ accessible' = accessible /\ evade' = evade /\ dying' = dying
      /\ Alive \subseteq Slots
  BY DEF Alive, frameVars
<1>b. /\ accessible \subseteq Alive /\ dying = wasAlive \ Alive
      /\ evade = wasAccessible \ accessible /\ wasAccessible \subseteq wasAlive
      /\ accessible \cap dying = {} /\ accessible \cap evade = {}
  BY <1>0 DEF IInv, Lives, Access, Compared
<1>c. \A s \in Slots \ dying : Object(s)' = Object(s) /\ lastOwner'[s] = lastOwner[s]
                               /\ lastKind'[s] = lastKind[s] /\ told'[s] = told[s]
  BY DEF Object
<1>d. \A s \in dying : lastOwner'[s] = NoPlayer /\ lastKind'[s] = "unknown" /\ told'[s] = "new"
  BY <1>0 DEF TypeOK
<1>e. \A s \in accessible : toldOwner'[s] = toldOwner[s] /\ toldKind'[s] = toldKind[s]
  BY <1>a, <1>b DEF UpdateData
<1>1. TypeOK'
  <2>1. number' \in [Slots -> Nat] /\ Past \subseteq Past'
    BY <1>0 DEF TypeOK, Past
  <2>2. sets' \in UnitSetsOf(Past)'
    BY <1>0, <2>1 DEF TypeOK, UnitSetsOf
  <2>3. /\ toldOwner' \in [Slots -> Players]
        /\ toldKind' \in [Slots -> UnitKinds \cup {"unknown"}]
    BY <1>0, UpdateTyped
  <2>4. events' \in [Slots -> SUBSET Notices] /\ first' \in BOOLEAN
    BY <1>0 DEF TypeOK
  <2>5. /\ lastOwner' \in [Slots -> Players \cup {NoPlayer}]
        /\ lastKind' \in [Slots -> UnitKinds \cup {"unknown"}]
        /\ told' \in [Slots -> {"new", "hidden", "shown", "lost", "dead"}]
    BY <1>0 DEF TypeOK
  <2>6. QED
    BY <1>0, <2>1, <2>2, <2>3, <2>4, <2>5 DEF TypeOK, Stages, frameVars
<1>2. Lives'
  BY <1>0, <1>a, <1>b DEF Lives
<1>3. Access'
  <2>1. Evaded' = accessible
    BY <1>a, <1>b DEF Evaded
  <2>2. QED
    BY <1>0, <1>a, <1>b, <2>1 DEF Access, Compared
<1>4. Sight'
  <2>1. wasVisible' = wasVisible
    BY <1>0, <1>b DEF IInv, Sight
  <2>2. QED
    BY <1>0, <1>a, <2>1 DEF IInv, Sight, Visible
<1>5. Due' /\ Destroyed'
  BY <1>0 DEF Due, Destroyed
<1>6. Telling'
  <2>1. ToldOf = accessible /\ ToldOf' = accessible
    BY <1>0, <1>a DEF ToldOf, Comparing
  <2>2. wasVisible' = wasVisible /\ wasVisible \cap dying = {}
    BY <1>0, <1>b DEF IInv, Sight
  <2>3. ASSUME NEW s \in Slots
        PROVE  /\ told'[s] \in {"hidden", "shown"} <=> s \in accessible
               /\ told'[s] = "shown" <=> s \in wasVisible
               /\ told'[s] # "dead"
               /\ s \notin Alive => told'[s] = "new"
    <3>1. CASE s \in dying
      BY <1>b, <1>d, <2>2, <3>1
    <3>2. CASE s \notin dying
      BY <1>0, <1>c, <2>1, <3>2 DEF IInv, Telling
    <3>3. QED
      BY <3>1, <3>2
  <2>4. QED
    BY <1>0, <1>a, <2>1, <2>2, <2>3 DEF Telling
<1>7. Memory'
  BY <1>0, <1>a, <1>b, <1>c, <1>d DEF IInv, Memory
<1>8. Data'
  <2>1. \A s \in accessible : DataSayLast(s) /\ DataSayWorld(s)
    BY <1>0 DEF IInv, Data, Comparing
  <2>2. \A s \in accessible : DataSayLast(s)' /\ DataSayWorld(s)'
    BY <1>a, <1>b, <1>c, <1>e, <2>1 DEF DataSayLast, DataSayWorld
  <2>3. QED
    BY <1>0, <1>a, <2>2 DEF Data, Comparing
<1>9. Membership'
  <2>1. Held = accessible /\ Held' = accessible
    BY <1>0, <1>a DEF Held, Comparing
  <2>2. sets \in UnitSetsOf(Past) /\ sets' = sets
    BY <1>0 DEF TypeOK
  <2>3. ASSUME NEW s \in dying
        PROVE  /\ \A p \in Players : Object(s)' \notin sets.units[p]
               /\ Object(s)' \notin sets.minerals /\ Object(s)' \notin sets.geysers
    <3>1. Object(s)' = <<s, number[s] + 1>> /\ number[s] \in Nat
      BY <1>0 DEF Object, TypeOK
    <3>2. Object(s)' \notin Past
      BY <3>1 DEF Past
    <3>3. QED
      BY <2>2, <3>2, SetsTyped
  <2>4. ASSUME NEW s \in Slots
        PROVE  /\ \A p \in Players : Object(s)' \in sets.units[p] => lastOwner'[s] = p
               /\ Object(s)' \in sets.minerals => lastKind'[s] = "mineral"
               /\ Object(s)' \in sets.geysers => lastKind'[s] = "geyser"
    BY <1>c, <2>3 DEF IInv, Membership
  <2>5. \A s \in accessible : Object(s)' = Object(s)
    BY <1>a, <1>b, <1>c
  <2>6. ObjectsOf(accessible)' = ObjectsOf(accessible)
    BY <1>a, <2>5 DEF ObjectsOf
  <2>7. ASSUME NEW s \in accessible
        PROVE lastOwner'[s] \in Players /\ Object(s)' \in sets.units[lastOwner'[s]]
    BY <1>a, <1>b, <1>c, <2>1 DEF IInv, Membership
  <2>8. QED
    BY <1>a, <2>1, <2>2, <2>4, <2>6, <2>7 DEF IInv, Membership
<1>10. Clients'
  BY <1>0 DEF IInv, Clients
<1>11. QED
  BY <1>1, <1>2, <1>3, <1>4, <1>5, <1>6, <1>7, <1>8, <1>9, <1>10 DEF IInv

-----------------------------------------------------------------------------
(* The invariant, and what follows from it.                                *)

LEMMA StepStutters == ASSUME IInv, UNCHANGED unitVars PROVE IInv'
<1> USE DEF unitVars, frameVars, flagVars, lastVars, dataVars
<1>a. Alive' = Alive /\ Reached' = Reached /\ Past' = Past
  BY DEF Alive, Reached, CanAccess, Visible, IsNeutral, Past
<1>1. TypeOK' /\ Lives' /\ Access' /\ Sight' /\ Due'
  BY <1>a DEF IInv, TypeOK, Lives, Access, Sight, Due, Evaded, Visible
<1>2. Telling' /\ Memory' /\ Data'
  BY <1>a DEF IInv, Telling, ToldOf, Memory, Data, DataSayLast, DataSayWorld
<1>3. \A S : ObjectsOf(S)' = ObjectsOf(S)'
  OBVIOUS
<1>4. Membership' /\ Destroyed'
  BY DEF IInv, Membership, Held, Destroyed, Told, Object, ObjectsOf
<1>5. client' = client /\ sets' = sets /\ stage' = stage
  OBVIOUS
<1>6. ClientSets' = ClientSets
  BY DEF ClientSets, Kept, ObjectsOf, Object, Told, Renegades, ToldNeutral, ToldToBe,
     BecomeGeysers, BecomeRefineries
<1>7. Clients'
  BY <1>5, <1>6 DEF IInv, Clients
<1>8. QED
  BY <1>1, <1>2, <1>4, <1>7 DEF IInv

LEMMA StepIInv ==
  ASSUME PlayersAssumption, IInv, [UnitsNext]_unitVars PROVE IInv'
BY StepExistence, StepPrimary, StepExtract, StepSecondary, StepServe, StepFinish, StepStutters
   DEF UnitsNext

LEMMA Invariance == ASSUME PlayersAssumption PROVE UnitsSpec => []IInv
<1>1. UnitsInit => IInv
  BY InitIInv
<1>2. IInv /\ [UnitsNext]_unitVars => IInv'
  BY StepIInv
<1>3. QED
  BY <1>1, <1>2, PTL DEF UnitsSpec

\* The state of the game and of the client has its type: no unit that is not
\* yet born is in a set, and data and memory always name a player (GameImpl).
THEOREM TypeCorrect == ASSUME PlayersAssumption PROVE UnitsSpec => []TypeOK
<1>1. IInv => TypeOK
  BY DEF IInv
<1>2. QED
  BY <1>1, Invariance, PTL

\* What the events have told of a unit is how things are, for any number of
\* units, whatever becomes of them between the frames (computePrimaryUnitSets).
THEOREM EventsTellTheTruth == ASSUME PlayersAssumption PROVE UnitsSpec => []ToldIsTrue
<1>1. IInv => ToldIsTrue
  BY DEF IInv, Telling, ToldOf, Comparing, Access, Sight, ToldIsTrue
<1>2. QED
  BY <1>1, Invariance, PTL

\* An accessible unit is in its owner's set and in no other, however units
\* change hands unseen, and one whose destruction is told is in none
\* (computeSecondaryUnitSets).
THEOREM OwnersHaveTheirUnits == ASSUME PlayersAssumption PROVE UnitsSpec => []InOwnersSet
<1>1. ASSUME IInv, stage \in {"serve", "finish"}
      PROVE  \A s \in accessible : Object(s) \in sets.units[unit[s].owner]
  <2>1. \A s \in accessible : lastOwner[s] = unit[s].owner
    BY <1>1 DEF IInv, Data, Comparing, DataSayLast, DataSayWorld
  <2>2. \A s \in accessible : Object(s) \in sets.units[lastOwner[s]]
    BY <1>1 DEF IInv, Membership, Held, Comparing
  <2>3. QED
    BY <2>1, <2>2
<1>2. IInv => InOwnersSet
  BY <1>1 DEF IInv, Membership, Destroyed, InOwnersSet
<1>3. QED
  BY <1>2, Invariance, PTL

\* The sets that a client makes from the events and the data are those of the
\* game (onMatchFrame of the client).
THEOREM ClientHasTheSameSets == ASSUME PlayersAssumption PROVE UnitsSpec => []ClientAgrees
<1>1. IInv => ClientAgrees
  BY DEF IInv, Clients, ClientAgrees
<1>2. QED
  BY <1>1, Invariance, PTL

-----------------------------------------------------------------------------
(* The sets of minerals and geysers.                                       *)

\* Before the comparison and after it, an accessible mineral or geyser is in its set.
ResourcesHeld ==
  \A s \in Held :
    /\ lastKind[s] # "unknown"
    /\ lastKind[s] = "mineral" => Object(s) \in sets.minerals
    /\ lastKind[s] = "geyser" => Object(s) \in sets.geysers

\* Nothing is remembered of a unit of which nothing was told, and a unit is not said to
\* be dead without the notice of its destruction.
Remembered ==
  /\ \A s \in Slots :
       told[s] = "new" /\ lastKind[s] # "unknown" => stage = "serve" /\ s \in accessible
  /\ stage = "finish" => \A s \in Slots : told[s] = "dead" => s \in Told("destroy")

ResourceInv == ResourcesHeld /\ Remembered

\* getMinerals and getGeysers: an accessible unit is in them exactly if it is a
\* mineral, or a geyser; what they hold besides are units that the AI was told it lost,
\* and nothing that it never saw, or whose destruction it was told.
ResourcesAreThere ==
  stage = "finish" =>
    \A s \in Slots :
      /\ s \in accessible =>
           /\ Object(s) \in sets.minerals <=> unit[s].kind = "mineral"
           /\ Object(s) \in sets.geysers <=> unit[s].kind = "geyser"
      /\ Object(s) \in sets.minerals \cup sets.geysers =>
           s \in accessible \/ told[s] = "lost"

\* What is accessible when the sets have been changed, and of which kind.
LEMMA ResourcesArrive ==
  ASSUME PlayersAssumption, IInv, ResourcesHeld, stage = "secondary", NEW s \in accessible
  PROVE  /\ unit[s].kind # "unknown"
         /\ unit[s].kind = "mineral" => Object(s) \in GameSets.minerals
         /\ unit[s].kind = "geyser" => Object(s) \in GameSets.geysers
<1>1. /\ s \in Slots /\ s \notin evade
      /\ s \in discover \/ s \in wasAccessible
      /\ unit[s].kind \in UnitKinds
      /\ toldOwner[s] = unit[s].owner /\ toldKind[s] = unit[s].kind
      /\ unit[s].kind \in {"mineral", "geyser"} => unit[s].owner = Neutral
      /\ lastKind[s] # "unknown" => (lastKind[s] = "mineral" <=> unit[s].kind = "mineral")
  BY AtSecondary
<1>2. s \in wasAccessible => /\ lastKind[s] # "unknown"
                             /\ lastKind[s] = "mineral" => Object(s) \in sets.minerals
                             /\ lastKind[s] = "geyser" => Object(s) \in sets.geysers
  BY DEF ResourcesHeld, Held, Comparing
<1>3. ASSUME NEW k PROVE s \notin ToldToBe(evade, k)
  BY <1>1 DEF ToldToBe, ToldNeutral
<1>4. ASSUME NEW k \in {"mineral", "geyser"}, unit[s].kind = k, s \in discover
      PROVE  s \in ToldToBe(discover, k)
  BY <1>1, <1>4 DEF ToldToBe, ToldNeutral
<1>5. ASSUME unit[s].kind = "mineral" PROVE Object(s) \in GameSets.minerals
  <2>1. Object(s) \in sets.minerals \/ s \in ToldToBe(discover, "mineral")
    BY <1>1, <1>2, <1>4, <1>5
  <2> QED
    BY <1>3, <2>1, ObjectIn DEF GameSets, Kept
<1>6. ASSUME unit[s].kind = "geyser" PROVE Object(s) \in GameSets.geysers
  <2>1. \/ s \in ToGeyser
        \/ Object(s) \in sets.geysers \/ s \in ToldToBe(discover, "geyser")
    <3>1. CASE s \in wasAccessible
      <4>1. s \in ToGeyser \/ lastKind[s] = "geyser"
        BY <1>2, <1>6, <3>1 DEF ToGeyser, Morphed
      <4> QED
        BY <1>2, <3>1, <4>1
    <3> QED
      BY <1>1, <1>4, <1>6, <3>1
  <2>2. s \notin FromGeyser
    BY <1>6 DEF FromGeyser, Morphed
  <2> QED
    BY <1>3, <2>1, <2>2, ObjectIn DEF GameSets, Kept
<1> QED
  BY <1>1, <1>5, <1>6 DEF UnitKinds

LEMMA StepResources ==
  ASSUME PlayersAssumption, IInv, IInv', ResourceInv, [UnitsNext]_unitVars
  PROVE  ResourceInv'
<1>1. CASE ComputeUnitExistence
  <2>1. /\ stage = "existence" /\ stage' = "primary" /\ wasAccessible' = Evaded
        /\ UNCHANGED <<sets, lastKind, number, told>>
    BY <1>1 DEF ComputeUnitExistence, lastVars
  <2>2. Held' = Held
    BY <2>1 DEF Held, Comparing, IInv, Access
  <2> QED
    BY <2>1, <2>2 DEF ResourceInv, ResourcesHeld, Remembered, Object
<1>2. CASE ComputePrimaryUnitSets \/ ExtractUnitData
  <2>1. /\ stage \in {"primary", "extract"} /\ stage' \in {"extract", "secondary"}
        /\ UNCHANGED <<sets, lastKind, number, told, wasAccessible>>
    BY <1>2 DEF ComputePrimaryUnitSets, ExtractUnitData, lastVars, flagVars
  <2>2. Held' = Held
    BY <2>1 DEF Held, Comparing
  <2> QED
    BY <2>1, <2>2 DEF ResourceInv, ResourcesHeld, Remembered, Object
<1>3. CASE ComputeSecondaryUnitSets
  <2>1. /\ stage = "secondary" /\ stage' = "serve" /\ sets' = GameSets
        /\ lastKind' = [s \in Slots |-> IF s \in accessible THEN unit[s].kind ELSE lastKind[s]]
        /\ UNCHANGED <<number, told, accessible>>
    BY <1>3 DEF ComputeSecondaryUnitSets, frameVars
  <2>2. accessible \subseteq Slots
    BY DEF IInv, TypeOK
  <2>3. ASSUME NEW s \in Held'
        PROVE  /\ lastKind'[s] # "unknown"
               /\ lastKind'[s] = "mineral" => Object(s)' \in sets'.minerals
               /\ lastKind'[s] = "geyser" => Object(s)' \in sets'.geysers
    <3>1. s \in accessible
      BY <2>1 DEF Held, Comparing
    <3>2. lastKind'[s] = unit[s].kind /\ Object(s)' = Object(s)
      BY <2>1, <2>2, <3>1 DEF Object
    <3> QED
      BY <2>1, <3>1, <3>2, ResourcesArrive DEF ResourceInv
  <2>4. Remembered'
    BY <2>1 DEF ResourceInv, Remembered
  <2> QED
    BY <2>3, <2>4 DEF ResourceInv, ResourcesHeld
<1>4. CASE Serve
  <2>1. /\ stage = "serve" /\ stage' = "finish"
        /\ told' = [s \in Slots |-> Learned(s)]
        /\ UNCHANGED <<sets, lastKind, number, accessible, events>>
    BY <1>4 DEF Serve, frameVars, lastVars
  <2>2. Held' = Held
    BY <2>1 DEF Held, Comparing
  <2>3. ASSUME NEW s \in Slots, told'[s] = "new" PROVE lastKind'[s] = "unknown"
    <3>1. Learned(s) = "new" /\ s \notin accessible
      BY <2>1, <2>3, LearnedIs
    <3>2. told[s] = "new"
      BY <3>1 DEF Learned
    <3> QED
      BY <2>1, <3>1, <3>2 DEF ResourceInv, Remembered
  <2>4. ASSUME NEW s \in Slots, told'[s] = "dead" PROVE s \in Told("destroy")'
    <3>1. Learned(s) = "dead" /\ told[s] # "dead"
      BY <2>1, <2>4 DEF IInv, Telling
    <3>2. "destroy" \in events[s]
      BY <3>1 DEF Learned
    <3> QED
      BY <2>1, <3>2 DEF Told
  <2> QED
    BY <2>1, <2>2, <2>3, <2>4 DEF ResourceInv, ResourcesHeld, Remembered, Object
<1>5. CASE Finish
  <2>1. /\ stage = "finish" /\ stage' = "existence"
        /\ number' = [s \in Slots |-> IF s \in dying THEN number[s] + 1 ELSE number[s]]
        /\ lastKind' = [s \in Slots |-> IF s \in dying THEN "unknown" ELSE lastKind[s]]
        /\ told' = [s \in Slots |-> IF s \in dying THEN "new" ELSE told[s]]
        /\ UNCHANGED <<sets, accessible>>
    BY <1>5 DEF Finish, frameVars
  <2>2. Held' = accessible /\ Held = accessible
    BY <2>1 DEF Held, Comparing
  <2>3. ASSUME NEW s \in accessible PROVE s \in Slots /\ s \notin dying
    BY <2>1 DEF IInv, TypeOK, Access, Lives
  <2>4. \A s \in accessible : lastKind'[s] = lastKind[s] /\ Object(s)' = Object(s)
    BY <2>1, <2>3 DEF Object
  <2>5. ResourcesHeld'
    BY <2>1, <2>2, <2>4 DEF ResourceInv, ResourcesHeld
  <2>6. Remembered'
    BY <2>1 DEF ResourceInv, Remembered
  <2> QED
    BY <2>5, <2>6 DEF ResourceInv
<1>6. CASE UNCHANGED unitVars
  BY <1>6 DEF unitVars, frameVars, flagVars, lastVars, ResourceInv, ResourcesHeld, Held,
     Remembered, Object, Told
<1> QED
  BY <1>1, <1>2, <1>3, <1>4, <1>5, <1>6 DEF UnitsNext

\* No mineral and no geyser that the AI can access is missing from getMinerals and
\* getGeysers, nor is anything else that it can access among them, however units come
\* into sight, vanish, morph and die; the only ones there that it cannot access are some
\* that it lost sight of (computeSecondaryUnitSets).
THEOREM ResourcesAreComplete ==
  ASSUME PlayersAssumption PROVE UnitsSpec => []ResourcesAreThere
<1>1. UnitsInit => ResourceInv
  BY DEF UnitsInit, ResourceInv, ResourcesHeld, Held, Remembered
<1>2. ASSUME IInv, ResourceInv, stage = "finish", NEW s \in Slots
      PROVE  /\ s \in accessible =>
                  /\ Object(s) \in sets.minerals <=> unit[s].kind = "mineral"
                  /\ Object(s) \in sets.geysers <=> unit[s].kind = "geyser"
             /\ Object(s) \in sets.minerals \cup sets.geysers =>
                  s \in accessible \/ told[s] = "lost"
  <2>1. /\ Object(s) \in sets.minerals => lastKind[s] = "mineral"
        /\ Object(s) \in sets.geysers => lastKind[s] = "geyser"
    BY <1>2 DEF IInv, Membership
  <2>2. CASE s \in accessible
    <3>1. lastKind[s] = unit[s].kind
      BY <1>2, <2>2 DEF IInv, Data, Comparing, DataSayLast, DataSayWorld
    <3>2. /\ lastKind[s] = "mineral" => Object(s) \in sets.minerals
          /\ lastKind[s] = "geyser" => Object(s) \in sets.geysers
      BY <1>2, <2>2 DEF ResourceInv, ResourcesHeld, Held, Comparing
    <3> QED
      BY <2>1, <2>2, <3>1, <3>2
  <2>3. CASE s \notin accessible
    <3>1. told[s] \in {"new", "lost", "dead"}
      BY <1>2, <2>3 DEF IInv, TypeOK, Telling, ToldOf, Comparing
    <3>2. told[s] = "new" => lastKind[s] = "unknown"
      BY <1>2 DEF ResourceInv, Remembered
    <3>3. told[s] = "dead" => Object(s) \notin sets.minerals \cup sets.geysers
      BY <1>2 DEF ResourceInv, Remembered, IInv, Destroyed
    <3> QED
      BY <2>1, <2>3, <3>1, <3>2, <3>3
  <2> QED
    BY <2>2, <2>3
<1>3. IInv /\ ResourceInv => ResourcesAreThere
  BY <1>2, Zenon DEF ResourcesAreThere
<1>4. IInv /\ IInv' /\ ResourceInv /\ [UnitsNext]_unitVars => ResourceInv'
  BY StepResources
<1> QED
  BY <1>1, <1>3, <1>4, Invariance, PTL DEF UnitsSpec

-----------------------------------------------------------------------------
(* Every step is a step of UnitStory.                                      *)

\* What a notice makes of the story of a unit.
LEMMA AfterIs ==
  /\ Story!After("new", "create") = "found"
  /\ \A now \in {"new", "lost", "found"} : Story!After(now, "complete") = "found"
  /\ \A now \in {"hidden", "shown"} : Story!After(now, "complete") = now
  /\ \A now \in {"new", "lost", "found"} : Story!After(now, "discover") = "hidden"
  /\ Story!After("hidden", "show") = "shown"
  /\ Story!After("shown", "hide") = "hidden"
  /\ Story!After("hidden", "evade") = "gone"
  /\ Story!After("gone", "destroy") = "dead"
  /\ \A now \in {"hidden", "shown"} : Story!After(now, "morph") = now
  /\ \A now \in {"hidden", "shown"} : Story!After(now, "renegade") = now
<1>1. Story!After("new", "create") = "found"
  BY DEF Story!After
<1>2. \A now \in {"new", "lost", "found"} : Story!After(now, "complete") = "found"
  BY DEF Story!After
<1>3. \A now \in {"hidden", "shown"} : Story!After(now, "complete") = now
  BY DEF Story!After
<1>4. \A now \in {"new", "lost", "found"} : Story!After(now, "discover") = "hidden"
  BY DEF Story!After
<1>5. /\ Story!After("hidden", "show") = "shown" /\ Story!After("shown", "hide") = "hidden"
  BY DEF Story!After
<1>6. /\ Story!After("hidden", "evade") = "gone" /\ Story!After("gone", "destroy") = "dead"
  BY DEF Story!After
<1>7. \A now \in {"hidden", "shown"} : Story!After(now, "morph") = now
  BY DEF Story!After
<1>8. \A now \in {"hidden", "shown"} : Story!After(now, "renegade") = now
  BY DEF Story!After
<1>9. QED
  BY <1>1, <1>2, <1>3, <1>4, <1>5, <1>6, <1>7, <1>8

\* The events that a frame tells of a unit make sense, one after the other, and
\* the story ends as the AI has learned it.
LEMMA EventsMakeSense ==
  ASSUME IInv, stage = "serve", NEW s \in Slots
  PROVE  /\ Story!Ending(s) = Learned(s)
         /\ Story!Ending(s) \notin {"found", "nonsense"}
<1>1. /\ "create" \in events[s] <=> s \in accessible \ wasAlive
      /\ "complete" \in events[s] => s \in accessible
      /\ "discover" \in events[s] <=> s \in discover
      /\ "show" \in events[s] <=> s \in wasVisible /\ told[s] # "shown"
      /\ "hide" \in events[s] <=> s \notin wasVisible /\ told[s] = "shown"
      /\ "evade" \in events[s] <=> s \in evade
      /\ "destroy" \in events[s] <=> s \in evade \cap dying
      /\ "morph" \in events[s] => s \in accessible
      /\ "renegade" \in events[s] => s \in accessible
  BY DEF IInv, Due
<1>2. /\ told[s] \in {"new", "hidden", "shown", "lost", "dead"}
      /\ told[s] \in {"hidden", "shown"} <=> s \in wasAccessible
      /\ told[s] # "dead"
      /\ s \notin wasAlive => told[s] = "new"
  BY DEF IInv, TypeOK, Telling, ToldOf
<1>3. /\ evade = wasAccessible \ accessible /\ discover = accessible \ wasAccessible
      /\ wasVisible \subseteq accessible /\ wasAccessible \subseteq wasAlive
  BY DEF IInv, Access, Sight, Compared
<1> DEFINE created    == Story!Hears(told[s], "create", s)
           completed  == Story!Hears(created, "complete", s)
           discovered == Story!Hears(completed, "discover", s)
           seen       == Story!Hears(discovered, "show", s)
           hidden     == Story!Hears(seen, "hide", s)
           evaded     == Story!Hears(hidden, "evade", s)
           destroyed  == Story!Hears(evaded, "destroy", s)
           morphed    == Story!Hears(destroyed, "morph", s)
           end        == Story!Hears(morphed, "renegade", s)
<1>4. Story!Ending(s) = IF end = "gone" THEN "lost" ELSE end
  BY DEF Story!Ending
<1> HIDE DEF created, completed, discovered, seen, hidden, evaded, destroyed, morphed, end
<1>5. created = IF s \in accessible \ wasAlive THEN "found" ELSE told[s]
  BY <1>1, <1>2, AfterIs DEF created, Story!Hears
<1>6. CASE s \in accessible
  <2>1. /\ s \in discover => created \in {"new", "lost", "found"}
        /\ s \notin discover => created = told[s] /\ told[s] \in {"hidden", "shown"}
    BY <1>2, <1>3, <1>5, <1>6
  <2>2. /\ s \in discover => completed \in {"new", "lost", "found"}
        /\ s \notin discover => completed = told[s]
    BY <2>1, AfterIs DEF completed, Story!Hears
  <2>3. discovered = IF s \in discover THEN "hidden" ELSE told[s]
    BY <1>1, <2>2, AfterIs DEF discovered, Story!Hears
  <2>4. s \in discover => told[s] \notin {"hidden", "shown"}
    BY <1>2, <1>3
  <2>5. discovered \in {"hidden", "shown"} /\ (discovered = "shown" <=> told[s] = "shown")
    BY <2>1, <2>3, <2>4
  <2>6. seen = IF s \in wasVisible THEN "shown" ELSE discovered
    BY <1>1, <2>5, AfterIs DEF seen, Story!Hears
  <2>7. hidden = IF s \in wasVisible THEN "shown" ELSE "hidden"
    BY <1>1, <2>5, <2>6, AfterIs DEF hidden, Story!Hears
  <2>8. evaded = hidden /\ destroyed = hidden
    BY <1>1, <1>3, <1>6 DEF evaded, destroyed, Story!Hears
  <2>9. morphed = hidden /\ end = hidden
    BY <2>7, <2>8, AfterIs DEF morphed, end, Story!Hears
  <2>10. Learned(s) = IF s \in wasVisible THEN "shown" ELSE "hidden"
    BY <1>6, LearnedIs
  <2>11. QED
    BY <1>4, <2>7, <2>9, <2>10
<1>7. CASE s \notin accessible
  <2>1. created = told[s] /\ completed = told[s] /\ discovered = told[s] /\ seen = told[s]
    BY <1>1, <1>3, <1>5, <1>7 DEF completed, discovered, seen, Story!Hears
  <2>2. CASE s \in wasAccessible
    <3>1. hidden = "hidden"
      BY <1>1, <1>2, <1>3, <1>7, <2>1, <2>2, AfterIs DEF hidden, Story!Hears
    <3>2. evaded = "gone"
      BY <1>1, <1>3, <1>7, <2>2, <3>1, AfterIs DEF evaded, Story!Hears
    <3>3. destroyed = IF s \in dying THEN "dead" ELSE "gone"
      BY <1>1, <1>3, <1>7, <2>2, <3>2, AfterIs DEF destroyed, Story!Hears
    <3>4. end = destroyed
      BY <1>1, <1>7 DEF end, morphed, Story!Hears
    <3>5. Learned(s) = IF s \in dying THEN "dead" ELSE "lost"
      BY <1>1, <1>3, <1>7, <2>2 DEF Learned
    <3>6. QED
      BY <1>4, <3>3, <3>4, <3>5
  <2>3. CASE s \notin wasAccessible
    <3>1. told[s] \notin {"hidden", "shown"} /\ s \notin evade /\ s \notin discover
      BY <1>2, <1>3, <1>7, <2>3
    <3>2. hidden = told[s] /\ evaded = told[s] /\ destroyed = told[s]
      BY <1>1, <2>1, <3>1 DEF hidden, evaded, destroyed, Story!Hears
    <3>3. end = told[s]
      BY <1>1, <1>7, <3>2 DEF end, morphed, Story!Hears
    <3>4. Learned(s) = told[s]
      BY <1>1, <1>3, <1>7, <3>1 DEF Learned
    <3>5. QED
      BY <1>2, <1>4, <3>3, <3>4
  <2>4. QED
    BY <2>2, <2>3
<1>8. QED
  BY <1>6, <1>7

LEMMA StoryStarts == UnitsInit => Story!Init
BY DEF UnitsInit, Story!Init

LEMMA StoryGoesOn ==
  ASSUME PlayersAssumption, IInv, [UnitsNext]_unitVars
  PROVE  [Story!Gather \/ Story!Tell \/ Story!Forget]_(Story!vars)
<1>0. TypeOK /\ TypeOK'
  BY StepIInv DEF IInv
<1>1. ASSUME \/ ComputeUnitExistence \/ ComputePrimaryUnitSets
             \/ ExtractUnitData \/ ComputeSecondaryUnitSets
      PROVE  Story!Gather
  <2>1. stage # "serve" /\ told' = told
    BY <1>1 DEF ComputeUnitExistence, ComputePrimaryUnitSets, ExtractUnitData,
       ComputeSecondaryUnitSets
  <2>2. events' \in [Slots -> SUBSET Story!Notices]
    BY <1>0 DEF TypeOK, Notices, Story!Notices
  <2>3. QED
    BY <2>1, <2>2 DEF Story!Gather
<1>2. ASSUME Serve PROVE Story!Tell
  <2>1. stage = "serve" /\ stage' = "finish" /\ events' = events
    BY <1>2 DEF Serve
  <2>2. told' = [s \in Slots |-> Story!Ending(s)]
    BY <1>2, <2>1, EventsMakeSense DEF Serve
  <2>3. QED
    BY <2>1, <2>2, EventsMakeSense DEF Story!Tell
<1>3. ASSUME Finish PROVE Story!Forget
  <2>1. stage = "finish" /\ stage' = "existence" /\ events' = [s \in Slots |-> {}]
    BY <1>3 DEF Finish
  <2>2. told' \in [Slots -> {"new", "hidden", "shown", "lost", "dead"}]
    BY <1>0 DEF TypeOK
  <2>3. \A s \in Slots : told'[s] = IF s \in dying THEN "new" ELSE told[s]
    BY <1>3 DEF Finish
  <2>4. ASSUME NEW s \in dying PROVE told[s] \in {"new", "lost", "dead"}
    <3>1. s \in Slots /\ s \notin accessible
      BY <1>0, <2>1 DEF IInv, TypeOK, Lives, Access
    <3>2. told[s] \notin {"hidden", "shown"}
      BY <2>1, <3>1 DEF IInv, Telling, ToldOf, Comparing
    <3>3. QED
      BY <1>0, <3>1, <3>2 DEF TypeOK
  <2>5. \A s \in Slots : told'[s] = "new" => told[s] \in {"new", "lost", "dead"}
    BY <2>3, <2>4
  <2>6. QED
    BY <2>1, <2>2, <2>3, <2>5 DEF Story!Forget
<1>4. ASSUME UNCHANGED unitVars PROVE UNCHANGED Story!vars
  BY <1>4 DEF unitVars, Story!vars
<1>5. QED
  BY <1>1, <1>2, <1>3, <1>4 DEF UnitsNext

\* What the AI is told of a unit is a story that makes sense, from frame to
\* frame and from one unit of a slot to the next (the callbacks of AIModule).
THEOREM Refinement == ASSUME PlayersAssumption PROVE UnitsSpec => ImplementsUnitStory
<1>1. UnitsInit => Story!Init
  BY StoryStarts
<1>2. IInv /\ [UnitsNext]_unitVars => [Story!Gather \/ Story!Tell \/ Story!Forget]_(Story!vars)
  BY StoryGoesOn
<1>3. QED
  BY <1>1, <1>2, Invariance, PTL DEF UnitsSpec, ImplementsUnitStory, Story!Spec

-----------------------------------------------------------------------------
(* Searches.  A rectangle narrower than the widest unit may lie inside a   *)
(* unit, none of whose edges is then within it: the search has to look     *)
(* farther and to sort out what it finds.  In a wider one every unit has   *)
(* an edge.                                                                *)

\* The units have a place.
Placed ==
  /\ world \in [MapUnits -> [box : Box, seen : BOOLEAN]]
  /\ \A u \in MapUnits : world[u].box \in Boxes[u]
  /\ far \in {0, 1}

\* The client's copies are the entries of the accessible units.
Copied ==
  /\ xSearch = Accessibles(UnitOrderingX(world, far), world)
  /\ ySearch = Accessibles(UnitOrderingY(world, far), world)

SearchInv == Placed /\ Copied /\ SearchIsExact

-----------------------------------------------------------------------------
\* Brood War's distance is never less than the larger of its two parts
\* (Point::getApproxDistance).
LEMMA DistanceIsNoLess ==
  ASSUME NEW dx \in Nat, NEW dy \in Nat
  PROVE  /\ ApproxDistance(dx, dy) \in Int
         /\ dx <= ApproxDistance(dx, dy) /\ dy <= ApproxDistance(dx, dy)
<1> DEFINE low  == IF dx < dy THEN dx ELSE dy
           high == IF dx < dy THEN dy ELSE dx
           q    == high \div 16
           calc == (3 * low) \div 8
<1>1. low \in Nat /\ high \in Nat /\ dx <= high /\ dy <= high /\ low <= high
  OBVIOUS
<1> HIDE DEF low, high
<1>2. CASE low <= high \div 4
  <2>1. ApproxDistance(dx, dy) = high
    BY <1>2 DEF ApproxDistance, low, high
  <2> QED  BY <2>1, <1>1
<1>3. CASE ~(low <= high \div 4)
  <2>1. ApproxDistance(dx, dy) = calc \div 32 + calc + high - high \div 16 - high \div 64
    BY <1>3 DEF ApproxDistance, low, high
  <2>2. low >= 4 * q + 1
    BY <1>1, <1>3
  <2>3. calc >= q + high \div 64
    BY <1>1, <2>2
  <2>4. calc \div 32 \in Nat /\ calc \in Nat
    BY <1>1
  <2> HIDE DEF calc
  <2>5. ApproxDistance(dx, dy) >= high
    BY <1>1, <2>1, <2>3, <2>4
  <2> QED  BY <1>1, <2>1, <2>4, <2>5
<1> QED  BY <1>2, <1>3

\* A search in a rectangle in tables that hold the edges of the accessible
\* units, and perhaps of others, finds the units that touch it and none that is
\* more than a pixel away.
LEMMA FinderIsExact ==
  ASSUME SearchAssumption, Placed,
         NEW tableX, NEW tableY,
         Accessibles(UnitOrderingX(world, far), world) \subseteq tableX,
         Accessibles(UnitOrderingY(world, far), world) \subseteq tableY,
         tableX \subseteq UnitOrderingX(world, far), tableY \subseteq UnitOrderingY(world, far),
         NEW r \in Box, r.left <= r.right, r.top <= r.bottom
  PROVE  /\ Touching(r) \subseteq Finder(tableX, tableY, r)
         /\ Finder(tableX, tableY, r) \subseteq Touching(Grown(r))
<1> DEFINE right  == r.right + (IF WidthExtended(r) THEN MaxUnitWidth ELSE 0)
           bottom == r.bottom + (IF HeightExtended(r) THEN MaxUnitHeight ELSE 0)
<1>0. /\ MaxUnitWidth \in Nat /\ MaxUnitHeight \in Nat \ {0, 1} /\ far \in {0, 1}
      /\ r.left \in Int /\ r.right \in Int /\ r.top \in Int /\ r.bottom \in Int
  BY DEF SearchAssumption, Placed, Box
<1>1. ASSUME NEW u \in MapUnits
      PROVE  /\ Left(u) \in Int /\ Right(u) \in Int /\ Top(u) \in Int /\ Bottom(u) \in Int
             /\ Left(u) <= Right(u) /\ Right(u) - Left(u) + 1 <= MaxUnitWidth
             /\ Top(u) <= Bottom(u) /\ Bottom(u) - Top(u) + 1 <= MaxUnitHeight
  BY <1>1 DEF SearchAssumption, Placed, Box, Left, Right, Top, Bottom
<1>2. ASSUME NEW u, u \in Touching(r)
      PROVE  u \in Finder(tableX, tableY, r)
  <2>1. u \in MapUnits /\ Accessible(u)
    BY <1>2 DEF Touching
  <2>2. /\ Left(u) <= r.right /\ Right(u) >= r.left
        /\ Top(u) <= r.bottom /\ Bottom(u) >= r.top
    BY <1>2 DEF Touching
  <2>3. /\ [unit |-> u, value |-> Left(u)] \in tableX
        /\ [unit |-> u, value |-> Right(u) + far] \in tableX
        /\ [unit |-> u, value |-> Top(u)] \in tableY
        /\ [unit |-> u, value |-> Bottom(u) + far] \in tableY
    BY <2>1 DEF Accessibles, UnitOrderingX, UnitOrderingY, Accessible, Left, Right, Top, Bottom
  <2>4. Left(u) \in r.left .. right + 1 \/ Right(u) + far \in r.left .. right + 1
    BY <1>0, <1>1, <2>1, <2>2 DEF WidthExtended
  <2>5. u \in Between(tableX, r.left, right)
    BY <2>3, <2>4 DEF Between
  <2>6. Top(u) \in r.top .. bottom + 1 \/ Bottom(u) + far \in r.top .. bottom + 1
    BY <1>0, <1>1, <2>1, <2>2 DEF HeightExtended
  <2>7. u \in Between(tableY, r.top, bottom)
    BY <2>3, <2>6 DEF Between
  <2> QED  BY <2>1, <2>2, <2>5, <2>7 DEF Finder
<1>3. ASSUME NEW u, u \in Finder(tableX, tableY, r)
      PROVE  u \in Touching(Grown(r))
  <2>1. /\ u \in Between(tableX, r.left, right) /\ u \in Between(tableY, r.top, bottom)
        /\ Accessible(u)
        /\ WidthExtended(r) => Left(u) <= r.right
        /\ HeightExtended(r) => Top(u) <= r.bottom
    BY <1>3 DEF Finder
  <2>2. PICK e \in tableX : e.unit = u /\ e.value \in r.left .. right + 1
    BY <2>1 DEF Between
  <2>3. PICK f \in tableY : f.unit = u /\ f.value \in r.top .. bottom + 1
    BY <2>1 DEF Between
  <2>4. u \in MapUnits /\ e.value \in {Left(u), Right(u) + far}
    <3>1. PICK w \in MapUnits : e \in {[unit |-> w, value |-> world[w].box.left],
                                   [unit |-> w, value |-> world[w].box.right + far]}
      BY ZenonT(30) DEF UnitOrderingX
    <3> QED  BY <2>2, <3>1 DEF Left, Right
  <2>5. f.value \in {Top(u), Bottom(u) + far}
    <3>1. PICK w \in MapUnits : f \in {[unit |-> w, value |-> world[w].box.top],
                                   [unit |-> w, value |-> world[w].box.bottom + far]}
      BY ZenonT(30) DEF UnitOrderingY
    <3> QED  BY <2>3, <3>1 DEF Top, Bottom
  <2>6. Left(u) <= r.right + 1 /\ Right(u) >= r.left - 1
    BY <1>0, <1>1, <2>1, <2>2, <2>4
  <2>7. Top(u) <= r.bottom /\ Bottom(u) >= r.top - 1
    BY <1>0, <1>1, <2>1, <2>3, <2>4, <2>5 DEF HeightExtended
  <2> QED  BY <1>0, <2>1, <2>4, <2>6, <2>7 DEF Touching, Grown
<1> QED  BY <1>2, <1>3

\* In the tables of the game and of the client alike.
LEMMA RectangleIsExact ==
  ASSUME SearchAssumption, Placed, Copied, NEW by,
         NEW r \in Box, r.left <= r.right, r.top <= r.bottom
  PROVE  /\ Touching(r) \subseteq GetUnitsInRectangle(by, r)
         /\ GetUnitsInRectangle(by, r) \subseteq Touching(Grown(r))
<1>1. /\ Accessibles(UnitOrderingX(world, far), world) \subseteq UnitOrderingX(world, far)
      /\ Accessibles(UnitOrderingY(world, far), world) \subseteq UnitOrderingY(world, far)
  BY DEF Accessibles
<1>2. CASE by = "client"
  <2>1. GetUnitsInRectangle(by, r) = Finder(xSearch, ySearch, r)
    BY <1>2 DEF GetUnitsInRectangle
  <2> QED  BY <1>1, <2>1, FinderIsExact DEF Copied
<1>3. CASE by # "client"
  <2>1. GetUnitsInRectangle(by, r) = Finder(UnitOrderingX(world, far), UnitOrderingY(world, far), r)
    BY <1>3 DEF GetUnitsInRectangle
  <2> QED  BY <1>1, <2>1, FinderIsExact
<1> QED  BY <1>2, <1>3

\* Around a unit: whoever is nearer than the radius touches the rectangle.
LEMMA RadiusIsExact ==
  ASSUME SearchAssumption, Placed, Copied, NEW by,
         NEW u \in MapUnits, NEW radius \in Radii
  PROVE  LET others == {v \in MapUnits \ {u} : Accessible(v)} IN
         /\ {v \in others : Distance(u, v) < radius} \subseteq GetUnitsInRadius(by, u, radius)
         /\ GetUnitsInRadius(by, u, radius) \subseteq {v \in others : Distance(u, v) <= radius}
<1> DEFINE r == Around(u, radius)
           others == {v \in MapUnits \ {u} : Accessible(v)}
<1>1. ASSUME NEW v \in MapUnits
      PROVE  /\ Left(v) \in Int /\ Right(v) \in Int /\ Top(v) \in Int /\ Bottom(v) \in Int
             /\ Left(v) <= Right(v) /\ Top(v) <= Bottom(v)
  BY <1>1 DEF SearchAssumption, Placed, Box, Left, Right, Top, Bottom
<1>2. radius \in Nat
  BY DEF SearchAssumption
<1>3. r \in Box /\ r.left <= r.right /\ r.top <= r.bottom
  BY <1>1, <1>2 DEF Around, Box
<1>4. /\ Touching(r) \subseteq GetUnitsInRectangle(by, r)
      /\ GetUnitsInRectangle(by, r) \subseteq Touching(Grown(r))
  BY <1>3, RectangleIsExact
<1>5. ASSUME NEW v \in others, Distance(u, v) < radius
      PROVE  v \in GetUnitsInRadius(by, u, radius)
  <2> DEFINE dx == Gap(Left(u), Right(u), Left(v), Right(v))
             dy == Gap(Top(u), Bottom(u), Top(v), Bottom(v))
  <2>1. dx \in Nat /\ dy \in Nat
    BY <1>1 DEF Gap
  <2>2. /\ Distance(u, v) \in Int
        /\ dx <= Distance(u, v) /\ dy <= Distance(u, v)
    BY <2>1, DistanceIsNoLess DEF Distance
  <2>3. dx < radius /\ dy < radius
    BY <1>2, <1>5, <2>1, <2>2
  <2>4. /\ Left(v) <= Right(u) + radius /\ Right(v) >= Left(u) - radius
        /\ Top(v) <= Bottom(u) + radius /\ Bottom(v) >= Top(u) - radius
    BY <1>1, <1>2, <2>3 DEF Gap
  <2>5. v \in Touching(r)
    BY <2>4 DEF Touching, Around
  <2>6. Distance(u, v) <= radius
    BY <1>2, <1>5, <2>2
  <2> QED  BY <1>4, <2>5, <2>6 DEF GetUnitsInRadius
<1>6. GetUnitsInRadius(by, u, radius) \subseteq {v \in others : Distance(u, v) <= radius}
  BY <1>4 DEF GetUnitsInRadius, Touching
<1> QED  BY <1>5, <1>6

-----------------------------------------------------------------------------
LEMMA SearchStarts == ASSUME SearchAssumption, SearchInit PROVE SearchInv
<1>1. Placed
  <2>1. ASSUME NEW u \in MapUnits  PROVE world[u].box \in Boxes[u] /\ world[u].box \in Box
    BY DEF SearchInit, SearchAssumption
  <2>2. world \in [MapUnits -> [box : Box, seen : BOOLEAN]]
    <3> DEFINE some == UNION {Boxes[u] : u \in MapUnits}
    <3>1. some \subseteq Box
      BY DEF SearchAssumption
    <3>2. world \in [MapUnits -> [box : some, seen : {TRUE}]]
      BY DEF SearchInit
    <3> QED  BY <3>1, <3>2
  <2> QED  BY <2>1, <2>2 DEF SearchInit, Placed
<1>2. Copied
  BY DEF SearchInit, Copied
<1>3. SearchIsExact
  BY DEF SearchInit, SearchIsExact, NotAsked
<1> QED  BY <1>1, <1>2, <1>3 DEF SearchInv

\* A question changes nothing but the answer.
LEMMA AskKeeps ==
  ASSUME Placed, Copied, NEW question, Ask(question)
  PROVE  Placed' /\ Copied'
<1>1. UNCHANGED <<world, far, xSearch, ySearch>>
  BY DEF Ask
<1>2. Placed'
  BY <1>1 DEF Placed
<1>3. Copied'
  BY <1>1 DEF Copied, Accessibles, UnitOrderingX, UnitOrderingY
<1> QED  BY <1>2, <1>3

LEMMA SearchStep == ASSUME SearchAssumption, SearchInv, [SearchNext]_searchVars PROVE SearchInv'
<1> USE DEF SearchInv
<1>1. ASSUME NEW u \in MapUnits, Frame(u)
      PROVE  SearchInv'
  <2>1. PICK dx \in -1 .. 1, dy \in -1 .. 1, s \in BOOLEAN :
          /\ Moved(world[u].box, dx, dy) \in Boxes[u]
          /\ world' = [world EXCEPT ![u] = [box |-> Moved(@.box, dx, dy), seen |-> s]]
    BY <1>1 DEF Frame
  <2>2. Moved(world[u].box, dx, dy) \in Box
    BY <2>1 DEF SearchAssumption
  <2>3. Placed'
    BY <1>1, <2>1, <2>2 DEF Placed, Frame
  <2>4. Copied'
    BY <1>1 DEF Frame, Copied, Accessibles, UnitOrderingX, UnitOrderingY
  <2>5. SearchIsExact'
    BY <1>1 DEF Frame, SearchIsExact, NotAsked
  <2> QED  BY <2>3, <2>4, <2>5
<1>2. ASSUME NEW by \in {"module", "client"}, NEW r \in Rectangles, AskRectangle(by, r)
      PROVE  SearchInv'
  <2>1. Placed' /\ Copied'
    BY <1>2, AskKeeps DEF AskRectangle
  <2>2. /\ Touching(r) \subseteq GetUnitsInRectangle(by, r)
        /\ GetUnitsInRectangle(by, r) \subseteq Touching(Grown(r))
    BY RectangleIsExact DEF SearchAssumption
  <2>3. Touching(r)' = Touching(r) /\ Touching(Grown(r))' = Touching(Grown(r))
    BY <1>2 DEF AskRectangle, Ask, Touching, Grown, Accessible, Left, Right, Top, Bottom
  <2>4. asked' = [by |-> by, what |-> "rectangle", where |-> r,
                  units |-> GetUnitsInRectangle(by, r)]
    BY <1>2 DEF AskRectangle, Ask
  <2>5. SearchIsExact'
    BY <2>2, <2>3, <2>4 DEF SearchIsExact
  <2> QED  BY <2>1, <2>5
<1>3. ASSUME NEW by \in {"module", "client"}, NEW u \in MapUnits, NEW radius \in Radii,
             AskRadius(by, u, radius)
      PROVE  SearchInv'
  <2> DEFINE others == {v \in MapUnits \ {u} : Accessible(v)}
  <2>1. Placed' /\ Copied'
    BY <1>3, AskKeeps DEF AskRadius
  <2>2. /\ {v \in others : Distance(u, v) < radius} \subseteq GetUnitsInRadius(by, u, radius)
        /\ GetUnitsInRadius(by, u, radius) \subseteq {v \in others : Distance(u, v) <= radius}
    BY RadiusIsExact
  <2>3. UNCHANGED world
    BY <1>3 DEF AskRadius, Ask
  <2>4. asked' = [by |-> by, what |-> "radius", of |-> u, radius |-> radius,
                  units |-> GetUnitsInRadius(by, u, radius)]
    BY <1>3 DEF AskRadius, Ask
  <2>5. \A v : Accessible(v)' = Accessible(v) /\ Distance(u, v)' = Distance(u, v)
    BY <2>3 DEF Accessible, Distance, Gap, Left, Right, Top, Bottom
  <2>6. SearchIsExact'
    BY <2>2, <2>4, <2>5 DEF SearchIsExact
  <2> QED  BY <2>1, <2>6
<1>4. ASSUME NEW by \in {"module", "client"}, NEW u \in MapUnits, NEW weapon \in Weapons,
             NEW filter \in {NoFilter} \cup Filters, AskWeapon(by, u, weapon, filter)
      PROVE  SearchInv'
  <2>1. Placed' /\ Copied'
    BY <1>4, AskKeeps DEF AskWeapon
  <2>2. asked'.what = "weapon"
    BY <1>4 DEF AskWeapon, Ask
  <2>3. SearchIsExact'
    BY <2>2 DEF SearchIsExact
  <2> QED  BY <2>1, <2>3
<1>5. CASE UNCHANGED searchVars
  <2>1. Placed' /\ Copied'
    BY <1>5 DEF searchVars, Placed, Copied
  <2>2. SearchIsExact'
    BY <1>5 DEF searchVars, SearchIsExact, Touching, Grown, Accessible, Distance, Gap,
                Left, Right, Top, Bottom
  <2> QED  BY <2>1, <2>2
<1> QED  BY <1>1, <1>2, <1>3, <1>4, <1>5 DEF SearchNext

\* Whatever the units and the map, a search in a rectangle returns every
\* accessible unit that has a part in it and none that is more than a pixel away,
\* and one around a unit all that are nearer than the radius and none that is
\* farther (iterateUnitFinder, getUnitsInRadius).
THEOREM SearchesAreExact == ASSUME SearchAssumption PROVE SearchSpec => []SearchIsExact
<1>1. SearchInit => SearchInv
  BY SearchStarts
<1>2. SearchInv /\ [SearchNext]_searchVars => SearchInv'
  BY SearchStep
<1>3. SearchInv => SearchIsExact
  BY DEF SearchInv
<1> QED  BY <1>1, <1>2, <1>3, PTL DEF SearchSpec
=============================================================================
