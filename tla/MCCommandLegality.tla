------------------------- MODULE MCCommandLegality -------------------------
(* Unit types of every kind that the questions tell apart, as actors and   *)
(* as targets, with the facts of each that change in a match.              *)
EXTENDS CommandLegality, TLC

TraitsOf ==
     "SCV" :> {"worker", "canMove", "ground", "canAttack", "mechanical", "organic", "terran", "small"}
  @@ "Drone" :> {"worker", "canMove", "ground", "canAttack", "organic", "zerg", "small", "burrowable"}
  @@ "Marine" :> {"canMove", "ground", "air", "canAttack", "organic", "terran", "small"}
  @@ "Medic" :> {"canMove", "organic", "terran", "small", "spellcaster"}
  @@ "Tank" :> {"canMove", "ground", "canAttack", "mechanical", "terran", "small"}
  @@ "Sieged_Tank" :> {"ground", "canAttack", "mechanical", "terran"}
  @@ "Duke_Siege_Mode" :> {"ground", "canAttack", "mechanical", "terran", "hero"}
  @@ "Lurker" :> {"canMove", "ground", "canAttack", "organic", "zerg", "small", "burrowable"}
  @@ "Carrier" :> {"canMove", "fighters", "canAttack", "canProduce", "flyer", "mechanical"}
  @@ "Reaver" :> {"canMove", "fighters", "canAttack", "canProduce", "mechanical", "robotic", "small"}
  @@ "High_Templar" :> {"canMove", "organic", "spellcaster", "small"}
  @@ "Wraith" :> {"canMove", "ground", "air", "canAttack", "flyer", "mechanical", "terran",
                  "cloaks", "spellcaster"}
  @@ "Queen" :> {"canMove", "flyer", "organic", "zerg", "spellcaster"}
  @@ "Dropship" :> {"canMove", "flyer", "mechanical", "terran", "transport"}
  @@ "Bunker" :> {"building", "mechanical", "terran", "transport"}
  @@ "Turret" :> {"building", "air", "canAttack", "mechanical", "terran", "turret"}
  @@ "Command_Center" :> {"building", "flyingBuilding", "canProduce", "buildsAddons",
                          "mechanical", "terran"}
  @@ "Academy" :> {"building", "researches", "mechanical", "terran"}
  @@ "Hatchery" :> {"building", "producesLarva", "canProduce", "organic", "zerg"}
  @@ "Larva" :> {"canMove", "organic", "zerg", "small"}
  @@ "Flag_Beacon" :> {"building", "flagBeacon"}
  @@ "Minerals" :> {"resource", "passive"}
  @@ "Refinery" :> {"building", "resource", "refinery", "mechanical", "terran", "passive"}

SortsOf == DOMAIN TraitsOf

Buildable == {"Bunker", "Turret", "Command_Center", "Academy", "Hatchery", "Refinery"}

\* A unit that stands about in good health.
UsualOf ==
  [s \in DOMAIN TraitsOf |->
     {"exists", "visible", "completed", "interruptible", "idle", "energy", "fullHealth",
      "hasFighters", "hangarSpace", "spaceLeft", "reachable", "inRange"}
       \cup (CASE s = "Lurker" -> {"burrowed"}
               [] s \in {"Sieged_Tank", "Duke_Siege_Mode"} -> {"sieged"}
               [] s \in {"Carrier", "Wraith", "Queen", "Dropship"} -> {"flying"}
               [] s = "Bunker" -> {"passengers"}
               [] s = "Flag_Beacon" -> {"CTFCOPInit"}
               [] OTHER -> {})]

MayBeOf ==
  [s \in DOMAIN TraitsOf |->
     {"exists", "completed", "interruptible", "stasised", "hallucination"}
       \cup (IF s \in Buildable THEN {"idle", "constructing"} ELSE {"loaded"})
       \cup (CASE s = "SCV" -> {"ConstructingBuilding", "carrying", "powerUp", "constructing"}
               [] s = "Drone" -> {"burrowed", "Burrowing", "carrying"}
               [] s \in {"Tank", "Sieged_Tank", "Duke_Siege_Mode"} -> {"Sieging", "Unsieging"}
               [] s = "Lurker" -> {"burrowed", "Unburrowing"}
               [] s \in {"Carrier", "Reaver"} -> {"hasFighters", "hangarSpace", "training", "slotFilled"}
               [] s = "Wraith" -> {"cloaked", "cloakOrder", "energy"}
               [] s \in {"High_Templar", "Queen", "Medic"} -> {"energy"}
               [] s \in {"Dropship", "Bunker"} -> {"passengers", "spaceLeft"}
               [] s = "Command_Center" -> {"lifted", "addon", "addonUnfinished", "training", "slotFilled"}
               [] s = "Flag_Beacon" -> {"CTFCOPInit"}
               [] s = "Academy" -> {"ResearchTech", "Upgrade"}
               [] s = "Hatchery" -> {"morphing"}
               [] OTHER -> {})]

Goal(sort, side) == [id |-> "goal", sort |-> sort, side |-> side, is |-> UsualOf[sort]]

GoalsOf ==
  {Goal("Marine", "foe"), Goal("Marine", "mine"), Goal("Minerals", "neutral"),
   Goal("Bunker", "mine"), Goal("Command_Center", "foe"), Goal("High_Templar", "mine")}

FactsOfGoals ==
  {"visible", "completed", "invincible", "inRange", "stasised", "infestable", "fullHealth",
   "loaded", "inside"}

MadeOf(name, by, is) == [name |-> name, by |-> by, is |-> is]
ProductsOf ==
  {MadeOf("SCV", "Command_Center", {}), MadeOf("Comsat", "Command_Center", {"building", "addon"}),
   MadeOf("Depot", "SCV", {"building"}), MadeOf("Drone", "Larva", {}),
   MadeOf("Lair", "Hatchery", {"building"}), MadeOf("Scarab", "Reaver", {}), Interceptor}

Tech(name, uses, is) == [name |-> name, uses |-> uses, is |-> is]
TechsOf ==
  {Tech("Tank_Siege_Mode", {"Tank", "Sieged_Tank", "Duke_Siege_Mode"}, {}), Tech("Burrowing", {}, {}),
   Tech("Cloaking_Field", {"Wraith"}, {"cloaking"}),
   Tech("Psionic_Storm", {"High_Templar"}, {"targetsUnit", "targetsPosition"}),
   Tech("Archon_Warp", {"High_Templar"}, {"targetsUnit"}),
   Tech("Healing", {"Medic"}, {"targetsUnit", "targetsPosition"}),
   Tech("Infestation", {"Queen"}, {"targetsUnit"})}

ActorSorts ==
  DOMAIN TraitsOf \ {"Marine", "Minerals", "Refinery", "Turret"}

ASSUME SortsAreSound == SortAssumption
=============================================================================
