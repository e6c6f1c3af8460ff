-------------------------- MODULE CommandOptimizer --------------------------
(***************************************************************************)
(* From the commands an AI gives to the orders the game gets.  A command   *)
(* for a unit is executed at once (the unit is selected, then the order is *)
(* sent) or, at optimization levels 1 to 4, rewritten and put into a list  *)
(* for its type; after the AI's turn CommandOptimizer::flush empties the   *)
(* lists, and units with equal commands share one selection of up to 12.   *)
(*                                                                         *)
(* The flush runs as the code does, one step for each turn of its inner    *)
(* loop, and so does the loop over a set of units in GameImpl::issueCommand.*)
(* Left out: which commands are legal (Requests), the counting of actions, *)
(* the record of a unit's last command, latency compensation.  An order    *)
(* without a selection (Unload, which names the passenger) goes to the     *)
(* unit that would have been selected.                                     *)
(***************************************************************************)
EXTENDS Integers, Sequences, FiniteSets, SequencesExt

CONSTANTS
  Units,          \* the units that an AI may have
  Kind,           \* the type of each of them
  Armies,         \* the sets of units that it may have in a match
  Larvae,         \* the larvae of each of them
  Nobody,         \* nullptr
  Enemies,        \* targets that belong to an enemy ...
  Containers,     \* ... and those that hold resources
  TargetKind,     \* the type of each target
  TargetPos,      \* where each target stands
  NoPos,          \* Positions::None
  Cell,           \* the 32 pixels to which level 4 aligns a position
  GroupMax,       \* the 12 units of a group, and of a selection
  Levels,         \* the levels that the AI sets
  Requests,       \* the unit and the command in each legal request
  MaxGiven        \* bound: commands given in a frame

ASSUME UnitsAssumption == Nobody \notin Units /\ Larvae \in [Units -> SUBSET Units]
ASSUME LarvaeAssumption == \A u \in Units : \A a \in Larvae[u] : Kind[a] = "Larva"
ASSUME ArmiesAssumption == Armies \subseteq SUBSET Units /\ Armies # {}
ASSUME LevelsAssumption == Levels \subseteq 0 .. 4
ASSUME CellAssumption == Cell \in Nat \ {0}
ASSUME GroupMaxAssumption == GroupMax \in Nat /\ GroupMax > 1
ASSUME MaxGivenAssumption == MaxGiven \in Nat

VARIABLES
  phase,     \* "ai", "set" (in a call for a set of units), "flush", "sent"
  level,     \* CommandOptimizer::level
  queue,     \* optimizerQueue: a list of [unit, cmd] for each type of command
  cursor,    \* cmd, the iterator of flush
  group,     \* groupOf12
  leader,    \* the first command of the group, for which e, t, pos and o stand
  batch,     \* a call for a set: its command, units to visit, units to select
  army,      \* the units of this match
  mode,      \* the units that are sieged, cloaked or burrowed
  given,     \* history: the commands of this frame, for each unit
  received   \* history: the orders each unit got for them

flushVars == <<cursor, group, leader>>
vars == <<phase, level, queue, flushVars, batch, army, mode, given, received>>

-----------------------------------------------------------------------------
(* Commands: what UnitCommand holds beside the unit.  extra is "queued" for *)
(* a command that is to follow the others, "none" for 0.                   *)

TypeOrder ==
  <<"Attack_Move", "Attack_Unit", "Build", "Build_Addon", "Train", "Morph",
    "Research", "Upgrade", "Set_Rally_Position", "Set_Rally_Unit", "Move", "Patrol",
    "Hold_Position", "Stop", "Follow", "Gather", "Return_Cargo", "Repair", "Burrow",
    "Unburrow", "Cloak", "Decloak", "Siege", "Unsiege", "Lift", "Land", "Load",
    "Unload", "Unload_All", "Unload_All_Position", "Right_Click_Position",
    "Right_Click_Unit", "Halt_Construction", "Cancel_Construction", "Cancel_Addon",
    "Cancel_Train", "Cancel_Train_Slot", "Cancel_Morph", "Cancel_Research",
    "Cancel_Upgrade", "Use_Tech", "Use_Tech_Position", "Use_Tech_Unit", "Place_COP">>
Types == Range(TypeOrder)

Bare(type) == [type |-> type, target |-> Nobody, pos |-> NoPos, extra |-> "none"]
RightClickAt(pos) == [Bare("Right_Click_Position") EXCEPT !.pos = pos]
RightClickOn(target) == [Bare("Right_Click_Unit") EXCEPT !.target = target]

IsQueued(c) == c.extra = "queued"

\* Unit types, as far as the code asks about them.
Buildings  == {"Hatchery", "Barracks", "Turret", "Bunker", "Creep_Colony"}
Attackers  == {"Marine", "Tank", "Carrier", "Reaver", "Turret"}
Producers  == {"Hatchery", "Barracks", "Carrier", "Reaver"}
Carriers   == {"Carrier"}
Reavers    == {"Reaver"}
Transports == {"Dropship"}
FromLarva  == {"Zergling", "Drone"}
Merges     == {"Archon_Warp", "Dark_Archon_Meld"}
AreaTechs  == {"Psionic_Storm"}

KindOf(u) == IF u = Nobody THEN "None" ELSE Kind[u]

-----------------------------------------------------------------------------
(* CommandOptimizer::add.                                                  *)

Excluded(c) ==
  \/ level = 0
  \/ IsQueued(c)
  \/ c.type \in {"Build_Addon", "Land", "Build", "Place_COP", "Research", "Upgrade"}
  \/ level < 4 /\ c.type = "Use_Tech_Unit" /\ c.extra \in Merges

\* A building that rallies by a right click.
Rallies(u) == Kind[u] \in Producers \ (Carriers \cup Reavers)

Toggled(u, on, off) == Bare(IF u \in mode THEN off ELSE on)

Simplified(u, c) ==
  CASE c.type = "Attack_Unit" /\ Kind[u] \in Attackers /\ c.target \in Enemies ->
         [c EXCEPT !.type = "Right_Click_Unit"]
    [] c.type = "Move" -> RightClickAt(c.pos)
    [] c.type = "Gather" /\ c.target \in Containers -> RightClickOn(c.target)
    [] c.type = "Set_Rally_Position" /\ Rallies(u) -> RightClickAt(c.pos)
    [] c.type = "Set_Rally_Unit" /\ Rallies(u) -> RightClickOn(c.target)
    [] /\ c.type = "Use_Tech_Unit" /\ c.extra = "Infestation"
       /\ Kind[u] = "Queen" /\ TargetKind[c.target] = "Command_Center" ->
         RightClickOn(c.target)
    [] c.type = "Train" /\ Kind[u] \in Carriers \cup Reavers ->
         [Bare("Train") EXCEPT !.extra = "Interceptor"]
    [] c.type = "Use_Tech" /\ c.extra = "Tank_Siege_Mode" -> Toggled(u, "Siege", "Unsiege")
    [] c.type = "Use_Tech" /\ c.extra = "Cloaking_Field" -> Toggled(u, "Cloak", "Decloak")
    [] c.type = "Use_Tech" /\ c.extra = "Burrowing" -> Toggled(u, "Burrow", "Unburrow")
    [] OTHER -> c

PositionTypes ==
  {"Attack_Move", "Move", "Patrol", "Right_Click_Position", "Set_Rally_Position",
   "Unload_All_Position", "Use_Tech_Position"}

\* These two look at the type the command was given with.
TooEarly(u, c) == \/ level <= 1 /\ Kind[u] \in Buildings
                  \/ level <= 2 /\ c.type \in PositionTypes

Aligned(c, d) ==
  LET spot == IF c.type = "Use_Tech_Unit" /\ d.extra \in AreaTechs /\ c.target # Nobody
              THEN [d EXCEPT !.type = "Use_Tech_Position", !.target = Nobody,
                             !.pos = TargetPos[c.target]]
              ELSE d
  IN IF c.type \in PositionTypes
     THEN [spot EXCEPT !.type = c.type, !.target = c.target,
                       !.pos = spot.pos - (spot.pos % Cell)]
     ELSE IF c.type = "Use_Tech_Unit" /\ spot.extra \in Merges
          THEN [spot EXCEPT !.target = Nobody, !.pos = NoPos]
          ELSE spot

Taken(u, c) == ~Excluded(c) /\ ~TooEarly(u, c)

Rewritten(u, c) ==
  IF level >= 4 THEN Aligned(c, Simplified(u, c)) ELSE Simplified(u, c)

-----------------------------------------------------------------------------
(* GameImpl::executeCommand: the order that is sent for a command.  u is   *)
(* the unit the command names, or Nobody.                                  *)

ByTrainer(u) ==
  CASE KindOf(u) \in {"Larva", "Mutalisk", "Hydralisk"} -> "UnitMorph"
    [] KindOf(u) \in {"Hatchery", "Creep_Colony"}       -> "BuildingMorph"
    [] KindOf(u) \in Carriers \cup Reavers              -> "TrainFighter"
    [] OTHER                                            -> "TrainUnit"

\* The target is loaded into a building or a transport, or is one.
ByLoader(u) ==
  CASE KindOf(u) = "Bunker"     -> "PickupBunker"
    [] KindOf(u) \in Transports -> "PickupTransport"
    [] OTHER                    -> "RightClick"

ToggleTechs == {"Tank_Siege_Mode", "Cloaking_Field", "Burrowing"}

ByTech(u, tech) ==
  CASE tech = "Stim_Packs"      -> "UseStimPack"
    [] tech = "Tank_Siege_Mode" -> IF u \in mode THEN "Unsiege" ELSE "Siege"
    [] tech = "Cloaking_Field"  -> IF u \in mode THEN "Decloak" ELSE "Cloak"
    [] tech = "Burrowing"       -> IF u \in mode THEN "Unburrow" ELSE "Burrow"

OrderName(u, c) ==
  CASE c.type = "Attack_Move" ->
         IF KindOf(u) = "Infested_Terran" THEN "Attack1" ELSE "AttackMove"
    [] c.type = "Attack_Unit" ->
         (CASE KindOf(u) \in Carriers  -> "CarrierAttack"
            [] KindOf(u) \in Reavers   -> "ReaverAttack"
            [] KindOf(u) \in Buildings -> "TowerAttack"
            [] OTHER                   -> "Attack1")
    [] c.type = "Train" -> ByTrainer(u)
    [] c.type = "Morph" -> IF c.extra \in Buildings THEN "BuildingMorph" ELSE "UnitMorph"
    [] c.type = "Stop" ->
         (CASE KindOf(u) \in Reavers  -> "ReaverStop"
            [] KindOf(u) \in Carriers -> "CarrierStop"
            [] OTHER                  -> "Stop")
    [] c.type = "Load" -> ByLoader(u)
    [] c.type = "Unload_All" -> IF KindOf(u) = "Bunker" THEN "UnloadAll" ELSE "MoveUnload"
    [] c.type = "Unload_All_Position" -> "MoveUnload"
    [] c.type = "Cancel_Morph" ->
         IF KindOf(u) \in Buildings THEN "CancelConstruction" ELSE "CancelUnitMorph"
    [] c.type = "Use_Tech" -> ByTech(u, c.extra)
    [] c.type \in {"Right_Click_Position", "Right_Click_Unit"} -> "RightClick"
    [] c.type = "Halt_Construction" -> "Stop"
    [] c.type = "Cancel_Train_Slot" -> "Cancel_Train"
    [] OTHER -> c.type

\* A transport unloads where the unit that the command names stands.
Order(u, c) ==
  [name |-> OrderName(u, c), pos |-> c.pos, extra |-> c.extra,
   target |-> IF OrderName(u, c) = "MoveUnload" /\ c.type = "Unload_All"
              THEN u ELSE c.target]

-----------------------------------------------------------------------------
(* How a command reaches its unit: "alone" by UnitImpl::issueCommand, in a *)
(* "set" of units that were commanded together, or from a "list".          *)

Ways == {"alone", "set", "list"}

\* Select keeps the first GroupMax of its units.
Selected(us) == {us[i] : i \in 1 .. (IF Len(us) < GroupMax THEN Len(us) ELSE GroupMax)}

\* The units are selected and get the order for c, in which the unit is front.
Got(us, front, c, way) ==
  [u \in Units |-> IF u \in Selected(us)
                   THEN Append(received[u], [cmd |-> c, order |-> Order(front, c), way |-> way])
                   ELSE received[u]]

Given(us, u, c, way) ==
  [v \in Units |-> IF v \in us
                   THEN Append(given[v], [cmd |-> c, order |-> Order(u, c), way |-> way])
                   ELSE given[v]]

HowMany == FoldFunctionOnSet(LAMBDA s, n : Len(s) + n, 0, given, army)

NoLeader == [cmd |-> Bare("Stop"), odd |-> FALSE]
NoBatch == [cmd |-> Bare("Stop"), left |-> {}, units |-> <<>>]

\* The units that may carry out c: the larvae when a hatchery is told to train.
Doers(u, c) ==
  IF c.type \in {"Train", "Morph"} /\ Kind[u] = "Hatchery" /\ c.extra \in FromLarva
  THEN Larvae[u] ELSE {u}

\* A larva that has a command is an egg already, by latency compensation.
Actors(u, c) == {a \in Doers(u, c) : Kind[a] = "Larva" => given[a] = <<>>}

\* What is legal, of a single command (Templates::canTrain, canUseTechUnit,
\* canUnloadAll): templars merge with one another; only fighters' carriers train
\* interceptors; of buildings, only bunkers unload.
ASSUME RequestsAssumption ==
  \A r \in Requests :
    LET c == r.cmd IN
    /\ r.unit \in Units /\ c.type \in Types
    /\ c = [type |-> c.type, target |-> c.target, pos |-> c.pos, extra |-> c.extra]
    /\ c.type = "Use_Tech_Unit" /\ c.extra \in Merges =>
         c.target \in Units /\ Kind[r.unit] \notin Buildings
    /\ c.type = "Train" /\ c.extra = "Interceptor" => Kind[r.unit] \in Carriers \cup Reavers
    /\ c.type = "Unload_All" /\ Kind[r.unit] \in Buildings => Kind[r.unit] = "Bunker"
    /\ c.type = "Use_Tech" => c.extra \in ToggleTechs \cup {"Stim_Packs"}

\* What is legal, of two: a type of unit is trained in one way only
\* (UnitType::whatBuilds), and a target that one unit loads into itself is
\* not one that another boards (Templates::canLoad).
ASSUME AlikeAssumption ==
  \A r, q \in Requests :
    \A a \in Doers(r.unit, r.cmd), b \in Doers(q.unit, q.cmd) :
      r.cmd.type = q.cmd.type =>
        /\ r.cmd.type = "Train" /\ r.cmd.extra = q.cmd.extra => ByTrainer(a) = ByTrainer(b)
        /\ /\ r.cmd.type = "Load" /\ r.cmd.target = q.cmd.target
           /\ Kind[a] \in Buildings <=> Kind[b] \in Buildings
           => ByLoader(a) = ByLoader(b)

\* canIssueCommand.
Legal(u, c) ==
  u \in army /\ [unit |-> u, cmd |-> c] \in Requests /\ Actors(u, c) # {}

Queued(u, c) == [queue EXCEPT ![c.type] = <<[unit |-> u, cmd |-> c]>> \o @]

\* prepareIssueCommand, when the optimizer takes the command.
Take(u, c) ==
  /\ Taken(u, c)
  /\ queue' = Queued(u, Rewritten(u, c))
  /\ given' = Given({u}, u, Rewritten(u, c), "list")
  /\ UNCHANGED received

\* When it does not.  Templars that merge are selected together.
Execute(u, c) ==
  /\ ~Taken(u, c)
  /\ LET us == IF c.type = "Use_Tech_Unit" /\ c.extra \in Merges
              THEN <<u, c.target>> ELSE <<u>>
     IN /\ given' = Given(Range(us), u, c, "alone")
        /\ received' = Got(us, u, c, "alone")
  /\ UNCHANGED queue

\* UnitImpl::issueCommand, of a command that is legal.
IssueTo(u, c) == \E a \in Actors(u, c) : Take(a, c) \/ Execute(a, c)

Issue(u, c) ==
  /\ phase = "ai" /\ Legal(u, c) /\ HowMany < MaxGiven
  /\ IssueTo(u, c)
  /\ UNCHANGED <<phase, level, flushVars, batch, army, mode>>

-----------------------------------------------------------------------------
(* GameImpl::issueCommand, for a set of units.                             *)

NeverGrouped ==
  {"Build", "Build_Addon", "Research", "Upgrade", "Set_Rally_Position", "Set_Rally_Unit",
   "Lift", "Land", "Unload", "Unload_All", "Cancel_Construction", "Cancel_Addon",
   "Cancel_Train", "Cancel_Train_Slot", "Cancel_Research", "Cancel_Upgrade", "Place_COP"}

CanGroup(u, c) ==
  Legal(u, c) /\ Kind[u] \notin Buildings /\ c.type \notin NeverGrouped

\* Bound: at most one unit of the set cannot do as told (it is passed over).
IssueToSet(c) ==
  /\ phase = "ai" /\ HowMany < MaxGiven
  /\ LET able == {u \in army : Legal(u, c)}
         room == MaxGiven - HowMany
     IN \E us \in SUBSET army :
          /\ us \cap able # {} /\ Cardinality(us \ able) <= 1
          /\ Cardinality(us) <= room
          /\ batch' = [cmd |-> c, left |-> us, units |-> <<>>]
  /\ phase' = "set"
  /\ UNCHANGED <<level, queue, flushVars, army, mode, given, received>>

\* The set is visited in any order.
VisitUnit(u) ==
  /\ phase = "set" /\ u \in batch.left
  /\ LET c == batch.cmd
         next == [batch EXCEPT !.left = @ \ {u}]
     IN \/ /\ CanGroup(u, c) /\ ~Taken(u, c)
           /\ given' = Given({u}, u, c, "set")
           /\ batch' = [next EXCEPT !.units = Append(@, u)]
           /\ UNCHANGED <<queue, received>>
        \/ CanGroup(u, c) /\ Take(u, c) /\ batch' = next
        \/ ~CanGroup(u, c) /\ Legal(u, c) /\ IssueTo(u, c) /\ batch' = next
        \/ ~Legal(u, c) /\ batch' = next /\ UNCHANGED <<queue, given, received>>
  /\ UNCHANGED <<phase, level, flushVars, army, mode>>

\* All units visited: the next group of 12, if any.
SendGroup ==
  /\ phase = "set" /\ batch.left = {} /\ batch.units # <<>>
  /\ LET n == IF Len(batch.units) < GroupMax THEN Len(batch.units) ELSE GroupMax
         us == SubSeq(batch.units, 1, n)
     IN /\ received' = Got(us, Head(us), batch.cmd, "set")
        /\ batch' = [batch EXCEPT !.units = SubSeq(@, n + 1, Len(@))]
  /\ UNCHANGED <<phase, level, queue, flushVars, army, mode, given>>

SetIsDone ==
  /\ phase = "set" /\ batch.left = {} /\ batch.units = <<>>
  /\ phase' = "ai" /\ batch' = NoBatch
  /\ UNCHANGED <<level, queue, flushVars, army, mode, given, received>>

-----------------------------------------------------------------------------
(* CommandOptimizer::flush, after the AI's turn.                           *)

TurnEnds ==
  /\ phase = "ai"
  /\ phase' = "flush"
  /\ UNCHANGED <<level, queue, flushVars, batch, army, mode, given, received>>

Pending == {i \in DOMAIN TypeOrder : queue[TypeOrder[i]] # <<>>}

\* The type whose list is being read; that of the group's commands.
Current == IF group # <<>> THEN leader.cmd.type ELSE TypeOrder[Min(Pending)]

Working == phase = "flush" /\ (group # <<>> \/ Pending # {})

\* o: the state of the unit that makes some orders differ.
Oddity(u, type) ==
  CASE type \in {"Attack_Unit", "Unload_All", "Load", "Cancel_Morph"} -> Kind[u] \in Buildings
    [] type = "Use_Tech" -> u \in mode
    [] OTHER -> FALSE

Leads(x, type) == [cmd |-> x.cmd, odd |-> Oddity(x.unit, type)]

\* Mutant: the kind of the unit is not looked at.
Alike_AnyUnit(x, type) ==
  /\ x.cmd.extra = leader.cmd.extra /\ x.cmd.target = leader.cmd.target
  /\ x.cmd.pos = leader.cmd.pos

Alike(x, type) ==
  /\ x.cmd.extra = leader.cmd.extra /\ x.cmd.target = leader.cmd.target
  /\ x.cmd.pos = leader.cmd.pos
  /\ Oddity(x.unit, type) = leader.odd

NamesFront(type) ==
  type \in {"Load", "Attack_Unit", "Train", "Unload_All", "Cancel_Morph", "Use_Tech"}

SendTo(us, c) == Got(us, IF NamesFront(c.type) THEN Head(us) ELSE Nobody, c, "list")

Full(us) == Len(us) = GroupMax

\* One command joins the group, or begins one; a full group is sent.
Join ==
  /\ Working
  /\ LET type == Current
         list == queue[type]
     IN /\ cursor <= Len(list)
        /\ group = <<>> \/ Alike(list[cursor], type)
        /\ LET us == Append(group, list[cursor].unit)
               lead == IF group = <<>> THEN Leads(list[cursor], type) ELSE leader
           IN /\ queue' = [queue EXCEPT ![type] = RemoveAt(@, cursor)]
              /\ leader' = lead
              /\ IF Full(us)
                 THEN group' = <<>> /\ received' = SendTo(us, lead.cmd)
                 ELSE group' = us /\ UNCHANGED received
  /\ UNCHANGED <<phase, level, cursor, batch, army, mode, given>>

\* A command that differs waits for the next pass.
Pass ==
  /\ Working
  /\ LET type == Current
         list == queue[type]
     IN /\ cursor <= Len(list)
        /\ group # <<>> /\ ~Alike(list[cursor], type)
  /\ cursor' = cursor + 1
  /\ UNCHANGED <<phase, level, queue, group, leader, batch, army, mode, given, received>>

\* Mutant: what is left of the group is dropped.
ListEnds_Dropped ==
  /\ Working
  /\ cursor > Len(queue[Current])
  /\ group' = <<>> /\ cursor' = 1
  /\ UNCHANGED <<phase, level, queue, leader, batch, army, mode, given, received>>

\* The end of the list: what is left of the group is sent.
ListEnds ==
  /\ Working
  /\ cursor > Len(queue[Current])
  /\ IF group # <<>> THEN received' = SendTo(group, leader.cmd) ELSE UNCHANGED received
  /\ group' = <<>> /\ cursor' = 1
  /\ UNCHANGED <<phase, level, queue, leader, batch, army, mode, given>>

FlushEnds ==
  /\ phase = "flush" /\ group = <<>> /\ Pending = {}
  /\ phase' = "sent"
  /\ leader' = NoLeader
  /\ UNCHANGED <<level, queue, cursor, group, batch, army, mode, given, received>>

-----------------------------------------------------------------------------
Nothing == [u \in Units |-> <<>>]
EmptyQueue == [type \in Types |-> <<>>]

Init ==
  /\ phase = "ai" /\ level = 0
  /\ queue = EmptyQueue
  /\ cursor = 1 /\ group = <<>> /\ leader = NoLeader
  /\ batch = NoBatch
  /\ army \in Armies /\ mode = {}
  /\ given = Nothing /\ received = Nothing

SetLevel(l) ==
  /\ phase = "ai"
  /\ level' = l
  /\ UNCHANGED <<phase, queue, flushVars, batch, army, mode, given, received>>

\* Units that can siege, cloak or burrow may have done so by the next frame.
NextFrame ==
  /\ phase = "sent"
  /\ phase' = "ai"
  /\ mode' \in SUBSET {u \in army : Kind[u] = "Tank"}
  /\ given' = Nothing /\ received' = Nothing
  /\ UNCHANGED <<level, queue, flushVars, batch, army>>

\* initializeData, between matches; the end of a match has a turn of its own.
NewMatch ==
  /\ phase = "ai"
  /\ level' = 0 /\ queue' = EmptyQueue
  /\ army' \in Armies /\ mode' = {} /\ given' = Nothing /\ received' = Nothing
  /\ UNCHANGED <<phase, flushVars, batch>>

Commands == {r.cmd : r \in Requests}

Next ==
  \/ \E r \in Requests : Issue(r.unit, r.cmd)
  \/ \E c \in Commands : IssueToSet(c)
  \/ \E u \in Units : VisitUnit(u)
  \/ SendGroup \/ SetIsDone
  \/ \E l \in Levels : SetLevel(l)
  \/ TurnEnds \/ Join \/ Pass \/ ListEnds \/ FlushEnds
  \/ NextFrame \/ NewMatch

Spec == Init /\ [][Next]_vars

-----------------------------------------------------------------------------
(* Properties.                                                             *)

Times(list, x) == Cardinality({i \in DOMAIN list : list[i].cmd = x.cmd /\ list[i].way = x.way})

\* Some orders depend on the unit that a command names, and for a group that
\* is its first unit or none: there a unit may get the order of another kind.
DependsOnFront(u, g) ==
  /\ g.way # "alone" /\ Kind[u] \notin Buildings
  /\ \/ g.cmd.type \in {"Attack_Unit", "Attack_Move", "Stop", "Unload_All"}
     \/ g.way = "set" /\ g.cmd.type = "Use_Tech"

\* No unit gets an order that was not given to it in this frame, nor gets it
\* more often than it was given: the units that share a selection had the
\* same command, to the target, the position and what else it says.
OrdersWereGiven ==
  \A u \in Units : \A i \in DOMAIN received[u] :
    LET r == received[u][i]
    IN /\ Times(received[u], r) <= Times(given[u], r)
       /\ \E j \in DOMAIN given[u] :
            LET g == given[u][j]
            IN /\ g.cmd = r.cmd /\ g.way = r.way
               /\ DependsOnFront(u, g) \/ g.order = r.order

\* When the frame is over, each command given in it has been sent to its unit:
\* none is left behind in a list, passed over, or cut off by a full selection.
CommandsAreSent ==
  phase = "sent" =>
    \A u \in Units : \A j \in DOMAIN given[u] : Times(received[u], given[u][j]) > 0

\* "Does not alter behaviour" (include/BWAPI/Game.h, of levels 1 and 2): the
\* last order that a unit gets in a frame is the last command it was given.
LastCommandStands ==
  phase = "sent" =>
    \A u \in Units : given[u] # <<>> => Last(received[u]).cmd = Last(given[u]).cmd
=============================================================================
