-------------------------- MODULE CommandLegality --------------------------
(***************************************************************************)
(* Which commands a unit may be given.  Before a command is sent, the      *)
(* library asks whether the unit can carry it out (canIssueCommand), or,   *)
(* for a set of units, whether it can do so as one of a group              *)
(* (canIssueCommandGrouped).  The two are written separately, and others   *)
(* rely on the answers: the choice of a larva for a hatchery               *)
(* (prepareIssueCommand) and the rewriting of commands                     *)
(* (CommandOptimizer::add).                                                *)
(*                                                                         *)
(* A unit is its type and the set of facts that the code asks about it.    *)
(* Which error is reported is left out.  The player's minerals, techs and  *)
(* the map are facts of their own (means).                                 *)
(***************************************************************************)
EXTENDS Integers, FiniteSets

CONSTANTS
  Sorts,       \* the unit types
  Traits,      \* [Sorts -> set of what is true of a type]
  Usual,       \* [Sorts -> the facts of a unit of the type that does nothing]
  MayBe,       \* [Sorts -> the facts that may change]
  ActorTypes,  \* the types of the unit that is given commands
  Goals,       \* the units that may be its target: [id, sort, side, is]
  GoalMayBe,   \* what may change about the target
  Products,    \* what may be built, trained or morphed into: [name, by, is]
  Techs,       \* [name, uses, is]
  MaxOdd       \* how many facts may be unusual at the same time

VARIABLES
  actor,       \* the unit that is given commands
  larvae,      \* the larvae of the actor
  goal,        \* the other unit
  means,       \* what the player and the map allow
  odd          \* how many facts have changed

legalVars == <<actor, larvae, goal, means, odd>>

Is(u, fact) == fact \in u.is
Trait(u, trait) == trait \in Traits[u.sort]

Allowed == {"available", "affordable", "requirements", "researched", "room", "walkable", "sacs"}

\* What holds of the types of Brood War.  A queen is not armed; workers move; what
\* lays larvae is a building.  And of its techs: burrowing, sieging and cloaking are
\* not the same.
SortAssumption ==
  /\ ActorTypes \subseteq Sorts /\ "Larva" \in Sorts
  /\ \A s \in Sorts :
       /\ ~({"worker", "resource"} \subseteq Traits[s])
       /\ "worker" \in Traits[s] => "canMove" \in Traits[s] /\ "building" \notin Traits[s]
       /\ "producesLarva" \in Traits[s] => "building" \in Traits[s]
  /\ Traits["Larva"] \cap {"producesLarva", "worker", "resource"} = {}
  /\ "Queen" \in Sorts => Traits["Queen"] \cap {"ground", "air", "fighters"} = {}
  /\ \A g \in Goals :
       /\ g.id # "actor" /\ g.sort \in Sorts
       /\ "resource" \in Traits[g.sort] /\ "refinery" \notin Traits[g.sort] => g.side # "foe"
  /\ \A tech \in Techs :
       "cloaking" \in tech.is => tech.name \notin {"Burrowing", "Tank_Siege_Mode"}

-----------------------------------------------------------------------------
(* Any command at all.                                                     *)

Mine(u) == u.side = "mine" /\ Is(u, "exists")

Disabled(u) ==
  \E f \in {"lockedDown", "maelstrommed", "stasised", "unpowered", "ZergBirth", "loaded"} :
    Is(u, f)

\* Pylons, minerals and the like do nothing once they are there.
Obeys(u) ==
  /\ ~Trait(u, "helper")
  /\ Is(u, "completed") => ~Trait(u, "passive")
  /\ Is(u, "completed") \/ Trait(u, "building") \/ Is(u, "morphing")

LarvaObeys(l) == Mine(l) /\ ~Disabled(l) /\ Obeys(l)

CanCommand(u) ==
  /\ Mine(u)
  /\ IF Disabled(u) THEN Trait(u, "producesLarva") /\ \E l \in larvae : LarvaObeys(l)
                    ELSE Obeys(u)

CanCommandGrouped(u) == ~Trait(u, "building") /\ ~Trait(u, "critter")

CanTarget(t) ==
  /\ Is(t, "exists")
  /\ Is(t, "visible")
  /\ Is(t, "completed") \/ Trait(t, "building") \/ Is(t, "morphing") \/ Trait(t, "archon")
  /\ ~Trait(t, "spell")

Free(u) == Trait(u, "building") \/ Is(u, "interruptible")
Constructing(u) == Is(u, "ConstructingBuilding")

-----------------------------------------------------------------------------
(* Moving, following, rallying.                                            *)

CanMove(u) ==
  /\ Is(u, "completed")
  /\ IF Trait(u, "building")
     THEN Trait(u, "flyingBuilding") /\ Is(u, "lifted")
     ELSE /\ Is(u, "interruptible") /\ Trait(u, "canMove")
          /\ ~Is(u, "burrowed") /\ ~Constructing(u) /\ u.sort # "Larva"

CanMoveGrouped(u) == Trait(u, "canMove") /\ (Is(u, "completed") \/ Is(u, "morphing"))

CanPatrol(u) == CanMove(u)
CanPatrolGrouped(u) == CanMoveGrouped(u)

CanFollow(u) == CanMove(u)
CanFollowTarget(u, t) == CanTarget(t) /\ t.id # u.id

CanHoldPosition(u) ==
  /\ Is(u, "completed")
  /\ IF Trait(u, "building")
     THEN Trait(u, "flyingBuilding") /\ Is(u, "lifted")
     ELSE /\ Trait(u, "canMove") /\ ~Constructing(u) /\ u.sort # "Larva"
          /\ Is(u, "burrowed") => u.sort = "Lurker"

CanStop(u) ==
  /\ Is(u, "completed")
  /\ Is(u, "burrowed") => u.sort = "Lurker"
  /\ Trait(u, "building") => Is(u, "lifted") \/ Trait(u, "turret")

CanSetRallyPosition(u) == Trait(u, "canProduce") /\ Trait(u, "building") /\ ~Is(u, "lifted")
CanSetRallyUnit(u) == Trait(u, "canProduce") /\ Trait(u, "building") /\ ~Is(u, "lifted")
CanSetRallyTarget(u, t) == CanTarget(t)

-----------------------------------------------------------------------------
(* Attacking.                                                              *)

Armed(u) ==
  \/ Trait(u, "ground") \/ Trait(u, "air")
  \/ Trait(u, "fighters") /\ Is(u, "hasFighters")

CanAttackUnit(u) ==
  /\ Free(u) /\ Armed(u)
  /\ Is(u, "burrowed") <=> u.sort = "Lurker"
  /\ Is(u, "completed") /\ ~Constructing(u)

Reaches(u, t) ==
  \/ Trait(u, IF Is(t, "flying") THEN "air" ELSE "ground")
  \/ Trait(u, "fighters")

CanAttackTarget(u, t) ==
  /\ CanTarget(t) /\ ~Is(t, "invincible") /\ Reaches(u, t)
  /\ ~Trait(u, "canMove") \/ u.sort = "Lurker" => Is(t, "inRange")
  /\ t.id # u.id

CanAttackMove(u) == (u.sort = "Medic" \/ CanAttackUnit(u)) /\ CanMove(u)

CanAttackMoveGrouped(u) == Trait(u, "canMove") \/ u.sort \in {"Sieged_Tank", "Cocoon", "Lurker_Egg"}

CanAttackUnitGrouped_NoSiege(u) ==
  /\ Is(u, "interruptible") /\ Trait(u, "canMove")
  /\ Is(u, "completed") /\ ~Constructing(u)
  /\ Is(u, "burrowed") <=> u.sort = "Lurker"
CanAttackUnitGrouped(u) ==
  /\ Is(u, "interruptible")
  /\ Trait(u, "canMove") \/ u.sort = "Sieged_Tank"
  /\ Is(u, "completed") /\ ~Constructing(u)
  /\ Is(u, "burrowed") <=> u.sort = "Lurker"

CanAttackTargetGrouped(u, t) ==
  /\ CanTarget(t) /\ ~Is(t, "invincible")
  /\ u.sort = "Lurker" => Is(t, "inRange")
  /\ u.sort = "Queen" => t.sort = "Command_Center" /\ Is(t, "infestable")
  /\ t.id # u.id

-----------------------------------------------------------------------------
(* Building, training, morphing, research.                                 *)

AtRest(u) ==
  ~Is(u, "constructing") /\ Is(u, "completed") /\ (Trait(u, "building") => Is(u, "idle"))

\* Templates::canMake, for a builder.  A nydus canal makes its own exit.
CanMake(u, p) ==
  /\ "available" \in means
  /\ u.side = "mine"
  /\ IF p.name = "Nydus_Canal" /\ u.sort = "Nydus_Canal"
     THEN Is(u, "completed") /\ ~Is(u, "nydusExit")
     ELSE /\ IF p.by = "Larva" /\ Trait(u, "producesLarva") THEN larvae # {} ELSE u.sort = p.by
          /\ Trait(u, "fighters") => Is(u, "hangarSpace")
          /\ {"affordable", "requirements"} \subseteq means

CanBuild(u) == Free(u) /\ AtRest(u) /\ ~Is(u, "hallucination")
CanBuildWhere(u, p) == CanMake(u, p) /\ "building" \in p.is /\ ~Is(u, "addon") /\ "room" \in means

CanBuildAddon(u) ==
  /\ AtRest(u) /\ ~Is(u, "lifted") /\ ~Is(u, "addon")
  /\ Trait(u, "buildsAddons")
CanBuildAddonKind(u, p) == CanMake(u, p) /\ "addon" \in p.is /\ "room" \in means

Ready(l) == ~Is(l, "constructing") /\ Is(l, "completed") /\ CanCommand(l)

Produces(u) ==
  \/ Trait(u, "canProduce")
  \/ u.sort \in {"Nuclear_Silo", "Hydralisk", "Mutalisk", "Creep_Colony", "Spire", "Larva"}

CanTrain(u) ==
  IF Trait(u, "producesLarva")
  THEN \/ ~Is(u, "constructing") /\ Is(u, "completed")
       \/ \E l \in larvae : Ready(l)
  ELSE /\ ~Is(u, "constructing") /\ Is(u, "completed") /\ ~Is(u, "lifted")
       /\ Produces(u) /\ ~Is(u, "hallucination")

\* A hatchery's command to something that is made of a larva goes to a larva.
LarvaToTrain_Any(p) == larvae
LarvaToTrain(p) == {l \in larvae : CanCommand(l) /\ CanTrain(l)}

CanTrainKind(u, p) ==
  /\ IF Trait(u, "producesLarva") /\ p.by = "Larva"
     THEN \E l \in LarvaToTrain(p) : CanMake(l, p)
     ELSE /\ Trait(u, "producesLarva") => ~Is(u, "constructing") /\ Is(u, "completed")
          /\ CanMake(u, p)
          /\ "building" \in p.is => Trait(u, "building")
  /\ p.is \cap {"addon", "egg"} = {}
  /\ p.by = "Larva" => "building" \notin p.is

Morphs(u) ==
  u.sort \in {"Hydralisk", "Mutalisk", "Creep_Colony", "Spire", "Hatchery", "Lair", "Hive", "Larva"}

CanMorph(u) ==
  IF Trait(u, "producesLarva")
  THEN AtRest(u) \/ \E l \in larvae : Ready(l)
  ELSE AtRest(u) /\ Morphs(u) /\ ~Is(u, "hallucination")

LarvaToMorph(p) == {l \in larvae : CanCommand(l) /\ CanMorph(l)}

CanMorphInto(u, p) ==
  /\ IF Trait(u, "producesLarva") /\ p.by = "Larva"
     THEN \E l \in LarvaToMorph(p) : CanMake(l, p)
     ELSE (Trait(u, "producesLarva") => AtRest(u)) /\ CanMake(u, p)
  /\ "egg" \notin p.is

CanResearch(u) == ~Is(u, "lifted") /\ Is(u, "idle") /\ Is(u, "completed")
CanResearchTech(u) ==
  /\ u.side = "mine" /\ Trait(u, "researches")
  /\ "researched" \notin means
  /\ {"available", "affordable", "requirements"} \subseteq means

CanUpgrade(u) == ~Is(u, "lifted") /\ Is(u, "idle") /\ Is(u, "completed")
CanUpgradeKind(u) ==
  /\ u.side = "mine" /\ Trait(u, "researches")
  /\ "researched" \notin means
  /\ {"affordable", "requirements"} \subseteq means

-----------------------------------------------------------------------------
(* Workers.                                                                *)

CanGather_Busy(u) ==
  /\ Trait(u, "worker") /\ ~Is(u, "powerUp")
  /\ ~Is(u, "hallucination") /\ ~Is(u, "burrowed") /\ Is(u, "completed") /\ ~Constructing(u)
CanGather(u) ==
  /\ Free(u) /\ Trait(u, "worker") /\ ~Is(u, "powerUp")
  /\ ~Is(u, "hallucination") /\ ~Is(u, "burrowed") /\ Is(u, "completed") /\ ~Constructing(u)

CanGatherTarget(u, t) ==
  /\ CanTarget(t) /\ Trait(t, "resource") /\ t.sort # "Geyser"
  /\ Is(t, "completed") /\ Is(t, "reachable")
  /\ Trait(t, "refinery") => t.side = "mine"

CanReturnCargo(u) ==
  Free(u) /\ Trait(u, "worker") /\ Is(u, "carrying") /\ ~Is(u, "burrowed") /\ ~Constructing(u)

CanRepair(u) ==
  /\ Is(u, "interruptible") /\ u.sort = "SCV"
  /\ Is(u, "completed") /\ ~Is(u, "hallucination") /\ ~Constructing(u)

CanRepairTarget(u, t) ==
  /\ CanTarget(t) /\ Trait(t, "terran") /\ Trait(t, "mechanical")
  /\ ~Is(t, "fullHealth") /\ Is(t, "completed") /\ t.id # u.id

-----------------------------------------------------------------------------
(* Techs and what is switched on and off.                                  *)

CanUseTechWithOrWithoutTarget(u) == Free(u) /\ Is(u, "completed") /\ ~Is(u, "hallucination")

Sieging(u) == Is(u, "Sieging") \/ Is(u, "Unsieging")

TechPossible(u, tech) ==
  /\ tech.name = "Spider_Mines" => Is(u, "hasMines")
  /\ tech.name = "Tank_Siege_Mode" => ~Is(u, "sieged") /\ ~Sieging(u)
  /\ "cloaking" \in tech.is => ~Is(u, "cloakOrder")
  /\ tech.name = "Burrowing" =>
       /\ Trait(u, "burrowable")
       /\ ~Is(u, "burrowed") /\ ~Is(u, "Burrowing") /\ ~Is(u, "Unburrowing")
  /\ tech.name = "Nuclear_Strike" => "missile" \in means

TechUsable(u, tech) ==
  /\ Trait(u, "hero") \/ "researched" \in means \/ u.sort = "Lurker"
  /\ Is(u, "energy")
  /\ tech.name = "Burrowing" \/ u.sort \in tech.uses
  /\ TechPossible(u, tech)

CanUseTechWithoutTarget(u, tech) ==
  /\ TechUsable(u, tech)
  /\ tech.is \cap {"targetsUnit", "targetsPosition"} = {} /\ tech.name # "Lurker_Aspect"

CanUseTechUnit(u, tech) == TechUsable(u, tech) /\ "targetsUnit" \in tech.is

\* What a tech asks of its target.
TechSuits(tech, t) ==
  /\ tech.name \in {"Archon_Warp", "Dark_Archon_Meld"} =>
       /\ t.sort = (IF tech.name = "Archon_Warp" THEN "High_Templar" ELSE "Dark_Templar")
       /\ t.side = "mine" /\ Is(t, "reachable")
       /\ ~Is(t, "hallucination") /\ ~Is(t, "maelstrommed")
  /\ tech.name = "Consume" => t.side = "mine" /\ Trait(t, "zerg") /\ t.sort # "Larva"
  /\ tech.name = "Spawn_Broodlings" =>
       /\ Trait(t, "organic") \/ Trait(t, "mechanical")
       /\ ~Trait(t, "robotic") /\ ~Trait(t, "flyer")
  /\ tech.name = "Lockdown" => Trait(t, "mechanical")
  /\ tech.name = "Healing" =>
       ~Is(t, "fullHealth") /\ Trait(t, "organic") /\ ~Trait(t, "flyer") /\ t.side # "foe"
  /\ tech.name = "Mind_Control" =>
       /\ t.side # "mine"
       /\ t.sort \notin {"Interceptor", "Spider_Mine", "Lurker_Egg", "Cocoon", "Larva", "Egg"}
  /\ tech.name = "Feedback" => Trait(t, "spellcaster")
  /\ tech.name = "Infestation" => t.sort = "Command_Center" /\ Is(t, "infestable")

OnUnitsOnly ==
  {"Parasite", "Irradiate", "Optical_Flare", "Spawn_Broodlings", "Lockdown",
   "Defensive_Matrix", "Hallucination", "Healing", "Restoration", "Mind_Control"}
NotOnFrozen ==
  OnUnitsOnly \cup {"Archon_Warp", "Dark_Archon_Meld", "Consume", "Feedback", "Yamato_Gun"}

CanUseTechTarget(u, tech, t) ==
  /\ CanUseTechUnit(u, tech) /\ CanTarget(t) /\ TechSuits(tech, t)
  /\ tech.name \in NotOnFrozen => ~Is(t, "stasised")
  /\ tech.name \in OnUnitsOnly \cup {"Yamato_Gun"} => ~Is(t, "invincible")
  /\ tech.name \in OnUnitsOnly \cup {"Consume", "Feedback"} => ~Trait(t, "building")
  /\ t.id # u.id

CanUseTechPosition(u, tech) ==
  /\ TechUsable(u, tech) /\ "targetsPosition" \in tech.is
  /\ tech.name = "Spider_Mines" => "path" \in means

CanUseItsTech(u, tech) == CanUseTechWithOrWithoutTarget(u) /\ CanUseTechWithoutTarget(u, tech)

CanBurrow(u) == \E tech \in Techs : tech.name = "Burrowing" /\ CanUseItsTech(u, tech)
CanUnburrow(u) == Trait(u, "burrowable") /\ Is(u, "burrowed") /\ ~Is(u, "Unburrowing")

CanCloak(u) ==
  \E tech \in Techs : "cloaking" \in tech.is /\ u.sort \in tech.uses /\ CanUseItsTech(u, tech)
CanDecloak(u) == Trait(u, "cloaks") /\ Is(u, "cloakOrder")

CanSiege(u) == \E tech \in Techs : tech.name = "Tank_Siege_Mode" /\ CanUseItsTech(u, tech)
CanUnsiege(u) == Is(u, "sieged") /\ ~Sieging(u) /\ ~Is(u, "hallucination")

-----------------------------------------------------------------------------
(* Buildings that fly, transports.                                         *)

CanLift(u) == Trait(u, "flyingBuilding") /\ ~Is(u, "lifted") /\ Is(u, "completed") /\ Is(u, "idle")
CanLand(u) == Trait(u, "flyingBuilding") /\ Is(u, "lifted")

\* Overlords carry nobody before the upgrade.
Carries(u) == u.sort = "Overlord" => "sacs" \in means

CanLoad(u) ==
  /\ Free(u) /\ Is(u, "completed") /\ Carries(u)
  /\ ~Is(u, "burrowed") /\ ~Constructing(u) /\ u.sort # "Larva"

Loads(y, x, t) ==
  /\ Trait(x, "canMove") /\ ~Trait(x, "flyer") /\ Trait(x, "small")
  /\ Is(x, "completed") /\ ~Is(x, "burrowed")
  /\ ~Is(y, "hallucination") /\ Is(y, "spaceLeft")
  /\ y.sort = "Bunker" => Trait(x, "organic") /\ Trait(x, "terran") /\ Is(t, "reachable")

CanLoadTarget(u, t) ==
  /\ CanTarget(t) /\ t.side = "mine"
  /\ ~Is(t, "loaded") /\ Is(t, "completed") /\ Carries(t)
  /\ IF Trait(u, "transport") THEN Loads(u, t, t) ELSE Trait(t, "transport") /\ Loads(t, u, t)

CanUnloadWithOrWithoutTarget(u) ==
  Free(u) /\ Is(u, "passengers") /\ Carries(u) /\ Trait(u, "transport")

CanUnloadAtPosition(u) == u.sort # "Bunker" => "walkable" \in means
CanUnload(u) == CanUnloadWithOrWithoutTarget(u) /\ CanUnloadAtPosition(u)
CanUnloadTarget(u, t) == CanTarget(t) /\ Is(t, "loaded") /\ Is(t, "inside")
CanUnloadAllPosition(u) == CanUnloadWithOrWithoutTarget(u) /\ u.sort # "Bunker"

-----------------------------------------------------------------------------
(* The right click.                                                        *)

CanRightClickPosition(u) == Free(u) /\ (CanMove(u) \/ CanSetRallyPosition(u))
CanRightClickPositionGrouped(u) == Is(u, "interruptible") /\ CanMoveGrouped(u)

CanRightClickUnit(u) ==
  Free(u) /\ (CanFollow(u) \/ CanAttackUnit(u) \/ CanLoad(u) \/ CanSetRallyUnit(u))

CanRightClickTarget(u, t) ==
  /\ CanTarget(t)
  /\ t.side = "foe" => CanAttackUnit(u) /\ CanAttackTarget(u, t)
  /\ \/ CanFollow(u) /\ CanFollowTarget(u, t)
     \/ CanLoad(u) /\ CanLoadTarget(u, t)
     \/ CanSetRallyUnit(u)

CanRightClickUnitGrouped(u) ==
  Is(u, "interruptible") /\ (CanFollow(u) \/ CanAttackUnitGrouped(u) \/ CanLoad(u))

CanRightClickTargetGrouped(u, t) ==
  /\ CanTarget(t)
  /\ t.side = "foe" => CanAttackUnitGrouped(u) /\ CanAttackTargetGrouped(u, t)
  /\ \/ CanFollow(u) /\ CanFollowTarget(u, t)
     \/ CanLoad(u) /\ CanLoadTarget(u, t)

-----------------------------------------------------------------------------
(* Cancelling.                                                             *)

CanHaltConstruction(u) == Constructing(u)

NydusWithExit(u) == u.sort = "Nydus_Canal" /\ Is(u, "nydusExit")

CanCancelConstruction(u) == Trait(u, "building") /\ ~Is(u, "completed") /\ ~NydusWithExit(u)
CanCancelAddon(u) == Is(u, "addon") /\ Is(u, "addonUnfinished")
CanCancelTrain(u) == Is(u, "training")
CanCancelTrainSlot(u) == Is(u, "training") /\ Is(u, "slotFilled")
CanCancelMorph(u) ==
  /\ Is(u, "morphing") /\ ~Is(u, "hallucination")
  /\ Is(u, "completed") \/ ~NydusWithExit(u)
CanCancelResearch(u) == Is(u, "ResearchTech")
CanCancelUpgrade(u) == Is(u, "Upgrade")
CanPlaceCOP(u) == Trait(u, "flagBeacon") /\ Is(u, "CTFCOPInit")

-----------------------------------------------------------------------------
(* The questions that precede every command: c has a type and, where the   *)
(* type calls for it, a target, a product or a tech.                       *)

CanIssueCommandType(u, ct) ==
  /\ ct = "Attack_Move" => CanAttackMove(u)
  /\ ct = "Attack_Unit" => CanAttackUnit(u)
  /\ ct = "Build" => CanBuild(u)
  /\ ct = "Build_Addon" => CanBuildAddon(u)
  /\ ct = "Train" => CanTrain(u)
  /\ ct = "Morph" => CanMorph(u)
  /\ ct = "Research" => CanResearch(u)
  /\ ct = "Upgrade" => CanUpgrade(u)
  /\ ct = "Set_Rally_Position" => CanSetRallyPosition(u)
  /\ ct = "Set_Rally_Unit" => CanSetRallyUnit(u)
  /\ ct = "Move" => CanMove(u)
  /\ ct = "Patrol" => CanPatrol(u)
  /\ ct = "Hold_Position" => CanHoldPosition(u)
  /\ ct = "Stop" => CanStop(u)
  /\ ct = "Follow" => CanFollow(u)
  /\ ct = "Gather" => CanGather(u)
  /\ ct = "Return_Cargo" => CanReturnCargo(u)
  /\ ct = "Repair" => CanRepair(u)
  /\ ct = "Burrow" => CanBurrow(u)
  /\ ct = "Unburrow" => CanUnburrow(u)
  /\ ct = "Cloak" => CanCloak(u)
  /\ ct = "Decloak" => CanDecloak(u)
  /\ ct = "Siege" => CanSiege(u)
  /\ ct = "Unsiege" => CanUnsiege(u)
  /\ ct = "Lift" => CanLift(u)
  /\ ct = "Land" => CanLand(u)
  /\ ct = "Load" => CanLoad(u)
  /\ ct \in {"Unload", "Unload_All"} => CanUnload(u)
  /\ ct = "Unload_All_Position" => CanUnloadAllPosition(u)
  /\ ct = "Right_Click_Position" => CanRightClickPosition(u)
  /\ ct = "Right_Click_Unit" => CanRightClickUnit(u)
  /\ ct = "Halt_Construction" => CanHaltConstruction(u)
  /\ ct = "Cancel_Construction" => CanCancelConstruction(u)
  /\ ct = "Cancel_Addon" => CanCancelAddon(u)
  /\ ct \in {"Cancel_Train", "Cancel_Train_Slot"} => CanCancelTrain(u)
  /\ ct = "Cancel_Morph" => CanCancelMorph(u)
  /\ ct = "Cancel_Research" => CanCancelResearch(u)
  /\ ct = "Cancel_Upgrade" => CanCancelUpgrade(u)
  /\ ct \in {"Use_Tech", "Use_Tech_Unit", "Use_Tech_Position"} =>
       CanUseTechWithOrWithoutTarget(u)
  /\ ct = "Place_COP" => CanPlaceCOP(u)

\* These are not for groups.
AloneOnly ==
  {"Build", "Build_Addon", "Research", "Upgrade", "Set_Rally_Position", "Set_Rally_Unit",
   "Lift", "Land", "Unload", "Unload_All", "Cancel_Construction", "Cancel_Addon",
   "Cancel_Train", "Cancel_Train_Slot", "Cancel_Research", "Cancel_Upgrade", "Place_COP"}

\* These are asked about in another way.
GroupedTypes ==
  {"Attack_Move", "Attack_Unit", "Move", "Patrol", "Right_Click_Position", "Right_Click_Unit"}

CanIssueCommandTypeGrouped(u, ct) ==
  /\ ct \notin AloneOnly
  /\ ct = "Attack_Move" => CanAttackMoveGrouped(u)
  /\ ct = "Attack_Unit" => CanAttackUnitGrouped(u)
  /\ ct = "Move" => CanMoveGrouped(u)
  /\ ct = "Patrol" => CanPatrolGrouped(u)
  /\ ct = "Right_Click_Position" => CanRightClickPositionGrouped(u)
  /\ ct = "Right_Click_Unit" => CanRightClickUnitGrouped(u)
  /\ ct \notin GroupedTypes => CanIssueCommandType(u, ct)

\* The rest of a command that has one: the same for a group, but for those two.
Rest(u, c) ==
  /\ c.type = "Train" => CanTrainKind(u, c.product)
  /\ c.type = "Morph" => CanMorphInto(u, c.product)
  /\ c.type = "Follow" => CanFollowTarget(u, c.target)
  /\ c.type = "Gather" => CanGatherTarget(u, c.target)
  /\ c.type = "Repair" => CanRepairTarget(u, c.target)
  /\ c.type = "Load" => CanLoadTarget(u, c.target)
  /\ c.type = "Unload_All_Position" => CanUnloadAtPosition(u)
  /\ c.type = "Use_Tech" => CanUseTechWithoutTarget(u, c.tech)
  /\ c.type = "Use_Tech_Unit" => CanUseTechTarget(u, c.tech, c.target)
  /\ c.type = "Use_Tech_Position" => CanUseTechPosition(u, c.tech)

CanIssueCommand(u, c) ==
  /\ CanCommand(u)
  /\ CanIssueCommandType(u, c.type)
  /\ c.type = "Attack_Unit" => CanAttackTarget(u, c.target)
  /\ c.type = "Right_Click_Unit" => CanRightClickTarget(u, c.target)
  /\ c.type = "Build" => CanBuildWhere(u, c.product)
  /\ c.type = "Build_Addon" => CanBuildAddonKind(u, c.product)
  /\ c.type = "Research" => CanResearchTech(u)
  /\ c.type = "Upgrade" => CanUpgradeKind(u)
  /\ c.type = "Set_Rally_Unit" => CanSetRallyTarget(u, c.target)
  /\ c.type \in {"Land", "Place_COP"} => "room" \in means
  /\ c.type = "Unload" => CanUnloadTarget(u, c.target)
  /\ c.type = "Cancel_Train_Slot" => CanCancelTrainSlot(u)
  /\ Rest(u, c)

CanIssueCommandGrouped(u, c) ==
  /\ CanCommand(u) /\ CanCommandGrouped(u)
  /\ CanIssueCommandTypeGrouped(u, c.type)
  /\ c.type = "Attack_Unit" => CanAttackTargetGrouped(u, c.target)
  /\ c.type = "Right_Click_Unit" => CanRightClickTargetGrouped(u, c.target)
  /\ Rest(u, c)

-----------------------------------------------------------------------------
(* What becomes of a command that a unit may be given.                     *)

\* UnitImpl::prepareIssueCommand: the larvae it looks for.
LarvaForIt == {l \in larvae : Ready(l)}

Interceptor == [name |-> "Interceptor", by |-> "Carrier", is |-> {}]

RightClickUnit(t) == [type |-> "Right_Click_Unit", target |-> t]
RightClickPosition == [type |-> "Right_Click_Position"]

\* CommandOptimizer::add: the command that goes into a list instead.
Instead(u, c) ==
  LET rally == Trait(u, "canProduce") /\ ~Trait(u, "fighters")
      switch(fact, off, on) == [type |-> IF Is(u, fact) THEN off ELSE on]
  IN CASE c.type = "Attack_Unit" /\ Trait(u, "canAttack") /\ c.target.side = "foe" ->
            RightClickUnit(c.target)
       [] c.type = "Move" -> RightClickPosition
       [] c.type = "Gather" /\ Trait(c.target, "resource") -> RightClickUnit(c.target)
       [] c.type = "Set_Rally_Position" /\ rally -> RightClickPosition
       [] c.type = "Set_Rally_Unit" /\ rally -> RightClickUnit(c.target)
       [] /\ c.type = "Use_Tech_Unit" /\ c.tech.name = "Infestation" /\ u.sort = "Queen"
          /\ c.target.sort = "Command_Center" -> RightClickUnit(c.target)
       [] c.type = "Train" /\ Trait(u, "fighters") -> [type |-> "Train", product |-> Interceptor]
       [] c.type = "Use_Tech" /\ c.tech.name = "Tank_Siege_Mode" ->
            switch("sieged", "Unsiege", "Siege")
       [] c.type = "Use_Tech" /\ "cloaking" \in c.tech.is ->
            switch("cloaked", "Decloak", "Cloak")
       [] c.type = "Use_Tech" /\ c.tech.name = "Burrowing" ->
            switch("burrowed", "Unburrow", "Burrow")
       [] OTHER -> c

-----------------------------------------------------------------------------
(* The facts change, a few at a time, and become usual again.              *)

UsualActor(sort) == [id |-> "actor", sort |-> sort, side |-> "mine", is |-> Usual[sort]]

FirstLarvae(sort) ==
  IF "producesLarva" \in Traits[sort]
  THEN {[id |-> "larva", sort |-> "Larva", side |-> "mine", is |-> Usual["Larva"]]}
  ELSE {}

LegalInit ==
  /\ \E s \in ActorTypes :
       /\ actor = UsualActor(s)
       /\ larvae = FirstLarvae(s)
  /\ goal \in Goals
  /\ means = Allowed
  /\ odd = 0

Toggle(set, fact) == IF fact \in set THEN set \ {fact} ELSE set \cup {fact}
Flip(u, fact) == [id |-> u.id, sort |-> u.sort, side |-> u.side, is |-> Toggle(u.is, fact)]

ActorChanges ==
  /\ \E fact \in MayBe[actor.sort] : actor' = Flip(actor, fact)
  /\ UNCHANGED <<larvae, goal, means>>

GoalChanges ==
  /\ \E fact \in GoalMayBe : goal' = Flip(goal, fact)
  /\ UNCHANGED <<actor, larvae, means>>

\* A larva dies or changes.
LarvaChanges ==
  /\ \E l \in larvae :
       \/ larvae' = larvae \ {l}
       \/ \E fact \in MayBe["Larva"] : larvae' = (larvae \ {l}) \cup {Flip(l, fact)}
  /\ UNCHANGED <<actor, goal, means>>

MeansChange ==
  /\ \E fact \in Allowed : means' = Toggle(means, fact)
  /\ UNCHANGED <<actor, larvae, goal>>

\* All is as it was at first, but for the target.
Settle ==
  /\ odd = MaxOdd /\ odd' = 0
  /\ actor' = UsualActor(actor.sort)
  /\ larvae' = FirstLarvae(actor.sort)
  /\ goal' \in Goals
  /\ means' = Allowed

\* What is unusual about the target or the means is one fact.
LegalNext ==
  \/ /\ odd < MaxOdd /\ odd' = odd + 1
     /\ ActorChanges \/ LarvaChanges \/ (odd = 0 /\ (GoalChanges \/ MeansChange))
  \/ Settle

LegalSpec == LegalInit /\ [][LegalNext]_legalVars

-----------------------------------------------------------------------------
(* Properties.                                                             *)

TargetTypes ==
  {"Attack_Unit", "Set_Rally_Unit", "Follow", "Gather", "Repair", "Load", "Unload",
   "Right_Click_Unit"}
ProductTypes == {"Build", "Build_Addon", "Train", "Morph"}
TechKinds == {"Use_Tech", "Use_Tech_Position"}
PlainTypes ==
  {"Attack_Move", "Research", "Upgrade", "Set_Rally_Position", "Move", "Patrol",
   "Hold_Position", "Stop", "Return_Cargo", "Burrow", "Unburrow", "Cloak", "Decloak",
   "Siege", "Unsiege", "Lift", "Land", "Unload_All", "Unload_All_Position",
   "Right_Click_Position", "Halt_Construction", "Cancel_Construction", "Cancel_Addon",
   "Cancel_Train", "Cancel_Train_Slot", "Cancel_Morph", "Cancel_Research",
   "Cancel_Upgrade", "Place_COP"}

Targets == {goal, actor}

AllCommands ==
  [type : PlainTypes] \cup [type : TargetTypes, target : Targets]
    \cup [type : ProductTypes, product : Products] \cup [type : TechKinds, tech : Techs]
    \cup [type : {"Use_Tech_Unit"}, tech : Techs, target : Targets]

\* The armed units that neither move nor are buildings, but for the siege tank: the
\* siege tank of Edmund Duke, the traps in the floors and walls of installations.
\* canAttackUnit does not ask whether they move; canAttackUnitGrouped does
\* (Templates.h:720), and spares the siege tank only.
Emplaced(u) == ~Trait(u, "canMove") /\ ~Trait(u, "building") /\ u.sort # "Sieged_Tank"

\* What a unit may be told alone, it may be told in a group, if the command and
\* the unit are of a kind that is grouped at all: GameImpl::issueCommand does not
\* send a unit away from its group that could have stayed.  There is one exception:
\* the attack of a unit that is emplaced.
GroupTakesWhatUnitsTake ==
  CanCommand(actor) /\ CanCommandGrouped(actor) =>
    \A c \in AllCommands :
      /\ c.type \notin AloneOnly /\ CanIssueCommand(actor, c)
      /\ ~(c.type = "Attack_Unit" /\ Emplaced(actor))
      => CanIssueCommandGrouped(actor, c)

\* "assuming canIssueCommand ensures that there is a larva" (UnitImpl.cpp:54): a
\* hatchery that may train or morph what is made of a larva has one that obeys.
LarvaIsThere ==
  Trait(actor, "producesLarva") =>
    \A c \in AllCommands :
      c.type \in {"Train", "Morph"} /\ CanIssueCommand(actor, c) /\ c.product.by = "Larva" =>
        LarvaForIt # {}

\* The commands whose substitute is not allowed to the same unit: an attack by a
\* unit that stays in its place, a rally or an infestation aimed at an enemy (the
\* right click is only let through for what follows, is loaded, or attacks), a
\* cloaking device in the field of an arbiter, a fighter of the other kind.
Misjudged(c) ==
  \/ c.type = "Attack_Unit" /\ ~CanFollow(actor)
  \/ c.type = "Set_Rally_Unit" /\ c.target.side = "foe"
  \/ c.type = "Use_Tech_Unit" /\ c.tech.name = "Infestation"
  \/ c.type = "Use_Tech" /\ "cloaking" \in c.tech.is /\ Is(actor, "cloaked")
  \/ c.type = "Train" /\ Trait(actor, "fighters")

\* The command that the optimizer puts in the place of another (CommandOptimizer::add)
\* may be given to the same unit, those apart.
RewritingStaysLegal ==
  CanCommand(actor) =>
    \A c \in AllCommands :
      Instead(actor, c) # c /\ ~Misjudged(c) /\ CanIssueCommand(actor, c) =>
        CanIssueCommand(actor, Instead(actor, c))
=============================================================================
