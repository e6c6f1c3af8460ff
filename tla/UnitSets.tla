------------------------------ MODULE UnitSets ------------------------------
(***************************************************************************)
(* What the AI is told of the units of a match.  Every frame the game      *)
(* compares Brood War's unit lists with what it held before, queues the    *)
(* events (create, discover, show, hide, evade, destroy, morph, ...) and   *)
(* keeps the sets that getMinerals, getUnits and the like return           *)
(* (GameImpl::updateUnits).  A client rebuilds these sets for itself from  *)
(* the events (GameImpl::onMatchFrame of the client).                      *)
(*                                                                         *)
(* One frame of GameImpl::update is a row of steps, one for each of the    *)
(* functions it calls; nothing else touches their state in between.  The   *)
(* flags of the units (wasAlive, ...) are kept as the sets of units that   *)
(* have them.  Replays are left out.                                       *)
(***************************************************************************)
EXTENDS Naturals

CONSTANTS
  Slots,       \* indices of Brood War's unit table
  Players,
  Self,        \* the player of the AI, one of the Players ...
  Neutral,     \* ... and another of them: player 11
  NoPlayer,    \* no player: nullptr
  MaxUnits     \* bound: units that live in one slot, one after another

PlayersAssumption ==
  Neutral \in Players /\ NoPlayer \notin Players /\ MaxUnits \in Nat

VARIABLES
  stage,           \* the function to be called next
  unit,            \* Brood War's units, or Absent
  first,           \* getFrameCount() is 0
  mapInfo,         \* Flag::CompleteMapInformation
  number,          \* which UnitImpl unitArray holds for each slot
  dying, accessible, discover, evade,                      \* unit sets of a frame
  wasAlive, wasAccessible, wasVisible, wasCompleted,       \* flags of UnitImpl
  lastOwner, lastKind,                                     \* lastPlayer, lastType
  toldOwner, toldKind,                                     \* self->player, self->type
  events,          \* the events queued, by unit
  sets,            \* the unit sets of the game ...
  client,          \* ... and of the client
  told             \* history: what the events have said of each unit

frameVars == <<dying, accessible, discover, evade>>
flagVars  == <<wasAlive, wasAccessible, wasVisible, wasCompleted>>
lastVars  == <<lastOwner, lastKind>>
dataVars  == <<toldOwner, toldKind>>
unitVars == <<stage, unit, first, mapInfo, number, frameVars, flagVars, lastVars,
              dataVars, events, sets, client, told>>

-----------------------------------------------------------------------------
(* Units as Brood War has them.  The kinds are those that get sets of      *)
(* their own; a geyser becomes a refinery and back.                        *)

Absent == [kind |-> "absent"]

Minerals   == [kind : {"mineral"}, owner : {Neutral}, seen : BOOLEAN, completed : {TRUE}]
Geysers    == [kind : {"geyser"}, owner : {Neutral}, seen : BOOLEAN, completed : {TRUE}]
Refineries == [kind : {"refinery"}, owner : Players, seen : BOOLEAN, completed : BOOLEAN]
Things     == Minerals \cup Geysers \cup Refineries

UnitKinds == {"mineral", "geyser", "refinery"}

Alive == {s \in Slots : unit[s] # Absent}

\* A unit object: the slot, and how many there were before in that slot.
Object(s) == <<s, number[s]>>
ObjectsOf(S) == {Object(s) : s \in S}
Objects == Slots \X (0 .. MaxUnits)

\* What one unit can become in a frame.
Becomes(old, new) ==
  \/ old = Absent \/ new = Absent
  \/ old.kind = "mineral" <=> new.kind = "mineral"

\* UnitImpl::isVisible, after updateInternalData.
Visible(s) == unit[s].owner = Self \/ unit[s].seen

IsNeutral(s) == unit[s].owner = Neutral

CanAccess(s) == s \in Alive /\ (Visible(s) \/ mapInfo \/ (first /\ IsNeutral(s)))

NoSets == [accessible |-> {}, units |-> [p \in Players |-> {}],
           neutral |-> {}, minerals |-> {}, geysers |-> {}]

\* The events of one unit in one frame; they are queued in this order.
Notices == {"create", "complete", "discover", "show", "hide", "evade", "destroy",
            "morph", "renegade"}

UnitsInit ==
  /\ stage = "existence"
  /\ unit = [s \in Slots |-> Absent]
  /\ first = TRUE /\ mapInfo = FALSE
  /\ number = [s \in Slots |-> 0]
  /\ dying = {} /\ accessible = {} /\ discover = {} /\ evade = {}
  /\ wasAlive = {} /\ wasAccessible = {} /\ wasVisible = {} /\ wasCompleted = {}
  /\ lastOwner = [s \in Slots |-> NoPlayer] /\ lastKind = [s \in Slots |-> "unknown"]
  /\ toldOwner = [s \in Slots |-> Neutral] /\ toldKind = [s \in Slots |-> "unknown"]
  /\ events = [s \in Slots |-> {}]
  /\ sets = NoSets /\ client = NoSets
  /\ told = [s \in Slots |-> "new"]

-----------------------------------------------------------------------------
(* The match goes on, and computeUnitExistence looks at it.                *)

\* Mutant: the units that evaded are not marked.
Evaded_Unmarked == wasAccessible \cup accessible

Evaded == (wasAccessible \cup accessible) \ evade

ComputeUnitExistence ==
  /\ stage = "existence"
  /\ unit' \in [Slots -> Things \cup {Absent}]
  /\ \A s \in Slots : /\ Becomes(unit[s], unit'[s])
                      /\ unit'[s] # Absent => s \in Alive \/ number[s] < MaxUnits
  /\ wasAlive' = wasAlive \cup Alive
  /\ wasAccessible' = Evaded
  /\ dying' = {s \in Alive : unit'[s] = Absent}
  /\ stage' = "primary"
  /\ UNCHANGED <<first, mapInfo, number, accessible, discover, evade, wasVisible,
                 wasCompleted, lastVars, dataVars, events, sets, client, told>>

-----------------------------------------------------------------------------
(* computePrimaryUnitSets.                                                 *)

\* The units that were accessible and no longer are, dead or alive.
Leaving == {s \in Alive \cup dying : ~CanAccess(s) /\ s \in wasAccessible}

Arriving == {s \in Alive : CanAccess(s) /\ s \notin wasAccessible}

Completing == {s \in Alive : CanAccess(s) /\ unit[s].completed /\ s \notin wasCompleted}

Showing == {s \in Alive : CanAccess(s) /\ Visible(s) /\ s \notin wasVisible}

\* Mutant: a unit that leaves is not hidden first.
Hiding_Stay == {s \in wasVisible : CanAccess(s) /\ ~Visible(s)}

Hiding == {s \in wasVisible : IF CanAccess(s) THEN ~Visible(s) ELSE s \in Leaving}

PrimaryEvents(s) ==
  {n \in Notices :
     \/ n = "create"   /\ CanAccess(s) /\ s \notin wasAlive
     \/ n = "complete" /\ s \in Completing
     \/ n = "discover" /\ s \in Arriving
     \/ n = "show"     /\ s \in Showing
     \/ n = "hide"     /\ s \in Hiding
     \/ n = "evade"    /\ s \in Leaving
     \/ n = "destroy"  /\ s \in Leaving \cap dying}

Reached == {s \in Alive : CanAccess(s)}

ComputePrimaryUnitSets ==
  /\ stage = "primary"
  /\ accessible' = Reached
  /\ discover' = Arriving
  /\ evade' = Leaving
  /\ wasCompleted' = wasCompleted \cup Completing
  /\ wasVisible' = (wasVisible \cup Showing) \ Hiding
  /\ events' = [s \in Slots |-> PrimaryEvents(s)]
  /\ stage' = "extract"
  /\ UNCHANGED <<unit, first, mapInfo, number, dying, wasAlive, wasAccessible,
                 lastVars, dataVars, sets, client, told>>

-----------------------------------------------------------------------------
\* UnitImpl::updateData: a unit that cannot be accessed is of no kind, and
\* neutral.
DataOwner(s) == IF CanAccess(s) THEN unit[s].owner ELSE Neutral
DataKind(s)  == IF CanAccess(s) THEN unit[s].kind ELSE "unknown"

UpdateData(S) ==
  /\ toldOwner' = [s \in Slots |-> IF s \in S THEN DataOwner(s) ELSE toldOwner[s]]
  /\ toldKind'  = [s \in Slots |-> IF s \in S THEN DataKind(s) ELSE toldKind[s]]

Extracted == Alive

ExtractUnitData ==
  /\ stage = "extract"
  /\ UpdateData(Extracted)
  /\ stage' = "secondary"
  /\ UNCHANGED <<unit, first, mapInfo, number, frameVars, flagVars, lastVars,
                 events, sets, client, told>>

-----------------------------------------------------------------------------
(* computeSecondaryUnitSets.                                               *)

Morphed == {s \in accessible : lastKind[s] \notin {"unknown", unit[s].kind}}
Changed == {s \in accessible : lastOwner[s] \notin {NoPlayer, unit[s].owner}}

\* The units of S that the data say are neutral, and those of a kind.
ToldNeutral(S) == {s \in S : toldOwner[s] = Neutral}
ToldToBe(S, k) == {s \in ToldNeutral(S) : toldKind[s] = k}

\* A set after units were discovered, have evaded, and have become or ceased
\* to be geysers.
Kept(old, in, out) == (old \cup ObjectsOf(in)) \ ObjectsOf(out)

FromGeyser == {s \in Morphed : lastKind[s] = "geyser"}
ToGeyser   == {s \in Morphed : unit[s].kind = "geyser"}

UnitsAfter(p) ==
  LET seen == Kept(sets.units[p], {s \in discover : toldOwner[s] = p},
                                  {s \in evade : toldOwner[s] = p})
  IN  (seen \ ObjectsOf({s \in Changed : lastOwner[s] = p}))
        \cup ObjectsOf({s \in Changed : unit[s].owner = p})

GameSets ==
  [accessible |-> ObjectsOf(accessible),
   units      |-> [p \in Players |-> UnitsAfter(p)],
   neutral    |-> (Kept(sets.neutral, ToldNeutral(discover), ToldNeutral(evade))
                     \ ObjectsOf(FromGeyser)) \cup ObjectsOf(ToGeyser),
   minerals   |-> Kept(sets.minerals, ToldToBe(discover, "mineral"),
                                      ToldToBe(evade, "mineral")),
   geysers    |-> (Kept(sets.geysers, ToldToBe(discover, "geyser"),
                                      ToldToBe(evade, "geyser"))
                     \ ObjectsOf(FromGeyser)) \cup ObjectsOf(ToGeyser)]

\* Mutant: only an owner that was not known before is recorded.
OwnerSeen_Once(s) == IF lastOwner[s] = NoPlayer THEN unit[s].owner ELSE lastOwner[s]

OwnerSeen(s) == unit[s].owner

ComputeSecondaryUnitSets ==
  /\ stage = "secondary"
  /\ sets' = GameSets
  /\ events' = [s \in Slots |->
                  events[s] \cup (IF s \in Morphed THEN {"morph"} ELSE {})
                            \cup (IF s \in Changed THEN {"renegade"} ELSE {})]
  /\ wasCompleted' = wasCompleted \ Morphed
  /\ lastOwner' = [s \in Slots |-> IF s \in accessible THEN OwnerSeen(s) ELSE lastOwner[s]]
  /\ lastKind'  = [s \in Slots |-> IF s \in accessible THEN unit[s].kind ELSE lastKind[s]]
  /\ stage' = "serve"
  /\ UNCHANGED <<unit, first, mapInfo, number, frameVars, wasAlive, wasAccessible,
                 wasVisible, dataVars, client, told>>

-----------------------------------------------------------------------------
(* server.update: the client is given the events and the data.             *)

Told(n) == {s \in Slots : n \in events[s]}

\* Mutant: a unit that changes hands is not taken from its old owner.
Renegades_Added(p, units) ==
  units \cup ObjectsOf({s \in Told("renegade") : toldOwner[s] = p})

Renegades(p, units) ==
  (units \ ObjectsOf(Told("renegade")))
    \cup ObjectsOf({s \in Told("renegade") : toldOwner[s] = p})

BecomeGeysers   == {s \in Told("morph") : toldKind[s] = "geyser"}
BecomeRefineries == {s \in Told("morph") : toldKind[s] = "refinery"}

\* The client's onMatchFrame.
ClientSets ==
  LET in == Told("discover")  out == Told("evade")
  IN  [accessible |-> Kept(client.accessible, in, out),
       units      |-> [p \in Players |->
                         Renegades(p, Kept(client.units[p],
                                           {s \in in : toldOwner[s] = p},
                                           {s \in out : toldOwner[s] = p}))],
       neutral    |-> Kept(Kept(client.neutral, ToldNeutral(in), ToldNeutral(out)),
                           BecomeGeysers, BecomeRefineries),
       minerals   |-> Kept(client.minerals, ToldToBe(in, "mineral"),
                                            ToldToBe(out, "mineral")),
       geysers    |-> Kept(Kept(client.geysers, ToldToBe(in, "geyser"),
                                                ToldToBe(out, "geyser")),
                           BecomeGeysers, BecomeRefineries)]

\* What the AI knows of a unit after the events of the frame.
Learned(s) ==
  IF "evade" \in events[s] THEN IF "destroy" \in events[s] THEN "dead" ELSE "lost"
  ELSE IF "show" \in events[s] THEN "shown"
  ELSE IF {"hide", "discover"} \cap events[s] # {} THEN "hidden"
  ELSE told[s]

\* The AI may ask for complete map information in onStart.
Serve ==
  /\ stage = "serve"
  /\ client' = ClientSets
  /\ told' = [s \in Slots |-> Learned(s)]
  /\ mapInfo' \in IF first THEN {mapInfo, TRUE} ELSE {mapInfo}
  /\ stage' = "finish"
  /\ UNCHANGED <<unit, first, number, frameVars, flagVars, lastVars, dataVars,
                 events, sets>>

\* The end of GameImpl::update: the dying are replaced by new objects; the
\* frame count goes up unless the game is paused.
Finish ==
  /\ stage = "finish"
  /\ number' = [s \in Slots |-> IF s \in dying THEN number[s] + 1 ELSE number[s]]
  /\ wasAlive' = wasAlive \ dying
  /\ wasAccessible' = wasAccessible \ dying
  /\ wasVisible' = wasVisible \ dying
  /\ wasCompleted' = wasCompleted \ dying
  /\ lastOwner' = [s \in Slots |-> IF s \in dying THEN NoPlayer ELSE lastOwner[s]]
  /\ lastKind'  = [s \in Slots |-> IF s \in dying THEN "unknown" ELSE lastKind[s]]
  /\ UpdateData(evade \cup dying)
  /\ told' = [s \in Slots |-> IF s \in dying THEN "new" ELSE told[s]]
  /\ first' \in {FALSE, first}
  /\ events' = [s \in Slots |-> {}]
  /\ stage' = "existence"
  /\ UNCHANGED <<unit, mapInfo, frameVars, sets, client>>

UnitsNext ==
  \/ ComputeUnitExistence \/ ComputePrimaryUnitSets \/ ExtractUnitData
  \/ ComputeSecondaryUnitSets \/ Serve \/ Finish

UnitsSpec == UnitsInit /\ [][UnitsNext]_unitVars

-----------------------------------------------------------------------------
\* The notices about a unit follow on one another over the frames: a unit is
\* created once and before all else, is discovered when it is not accessible,
\* shown when it is hidden, hidden when it is shown, evades only when it is
\* accessible and no longer shown, is destroyed only as it evades, and morphs
\* or changes hands only while it is accessible; and a slot is given to a new
\* unit only when the AI has lost sight of the old one (the callbacks of
\* AIModule; the flags of computePrimaryUnitSets and computeUnitExistence).
Story == INSTANCE UnitStory WITH story <- told, notices <- events, due <- stage = "serve"

ImplementsUnitStory == Story!Spec

\* What the events have told of a unit is how things are: exactly the
\* accessible units were discovered and have not evaded, and those shown and
\* not hidden since are the visible ones.
ToldIsTrue ==
  stage = "finish" =>
    \A s \in Slots :
      /\ told[s] \in {"hidden", "shown"} <=> s \in accessible
      /\ told[s] = "shown" => Visible(s)
      /\ s \in accessible /\ Visible(s) => told[s] = "shown"

\* An accessible unit is in the set of its owner; no unit is ever in the sets
\* of two players, whatever became of it while it could not be seen; and once its
\* destruction is told a unit is in no set at all, though its data are kept until
\* computeSecondaryUnitSets has used them (Player::getUnits, getMinerals).
InOwnersSet ==
  stage \in {"serve", "finish"} =>
    /\ \A s \in accessible : Object(s) \in sets.units[unit[s].owner]
    /\ \A p, q \in Players : p # q => sets.units[p] \cap sets.units[q] = {}
    /\ \A s \in Told("destroy") :
         /\ \A p \in Players : Object(s) \notin sets.units[p]
         /\ Object(s) \notin sets.minerals \cup sets.geysers \cup sets.accessible

\* After a frame the sets that a client has made from the events are those of
\* the game (onMatchFrame of the client, computeSecondaryUnitSets).
ClientAgrees == stage = "finish" => client = sets

\* "Retrieves the set of all accessible @minerals in the game" (getMinerals,
\* include/BWAPI/Game.h).  Violated: the data of a unit that is alive but can
\* no longer be accessed are cleared before computeSecondaryUnitSets looks in
\* them for the sets that the unit is to leave.
MineralsAreAccessible ==
  stage \in {"serve", "finish"} => sets.minerals \subseteq sets.accessible
=============================================================================
