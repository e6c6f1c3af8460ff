---------------------------- MODULE CommandProofs ----------------------------
(* Two parts of what an AI commands.  First the questions that precede a    *)
(* command, for units and techs of all kinds that satisfy SortAssumption,   *)
(* and whatever may happen to them.  Then what becomes of the commands, at  *)
(* every level, for any units and requests that satisfy the assumptions of  *)
(* CommandOptimizer and for a selection of any size: OptimizerInv accounts  *)
(* for each command of the frame from the call to the order.                *)
EXTENDS CommandLegality, CommandOptimizer, FiniteSetTheorems, SequenceTheorems, TLAPS

\* A unit changes what it does, never what it is.
SameUnits ==
  /\ actor.id = "actor" /\ actor.sort \in ActorTypes /\ actor.side = "mine"
  /\ \E g \in Goals : goal.id = g.id /\ goal.sort = g.sort /\ goal.side = g.side
  /\ \A l \in larvae : l.sort = "Larva"

LEMMA FlippedIsSame ==
  ASSUME NEW u, NEW fact
  PROVE  Flip(u, fact).id = u.id /\ Flip(u, fact).sort = u.sort /\ Flip(u, fact).side = u.side
  BY DEF Flip

LEMMA FirstLarvaeAreLarvae ==
  ASSUME NEW sort
  PROVE  \A l \in FirstLarvae(sort) : l.sort = "Larva"
  BY DEF FirstLarvae

\* No change makes another unit of the actor, the target or a larva.
THEOREM UnitsStaySame == LegalSpec => []SameUnits
<1>1. LegalInit => SameUnits
  BY FirstLarvaeAreLarvae DEF LegalInit, SameUnits, UsualActor
<1>2. SameUnits /\ [LegalNext]_legalVars => SameUnits'
  <2> SUFFICES ASSUME SameUnits, [LegalNext]_legalVars PROVE SameUnits'
    OBVIOUS
  <2>1. CASE ActorChanges
    BY <2>1, FlippedIsSame DEF ActorChanges, SameUnits
  <2>2. CASE GoalChanges
    BY <2>2, FlippedIsSame DEF GoalChanges, SameUnits
  <2>3. CASE LarvaChanges
    BY <2>3, FlippedIsSame DEF LarvaChanges, SameUnits
  <2>4. CASE MeansChange
    BY <2>4 DEF MeansChange, SameUnits
  <2>5. CASE Settle
    BY <2>5, FirstLarvaeAreLarvae DEF Settle, SameUnits, UsualActor
  <2>6. CASE UNCHANGED legalVars
    BY <2>6 DEF legalVars, SameUnits
  <2>7. QED
    BY <2>1, <2>2, <2>3, <2>4, <2>5, <2>6 DEF LegalNext
<1>3. QED
  BY <1>1, <1>2, PTL DEF LegalSpec

-----------------------------------------------------------------------------
(* In a group.                                                              *)

\* A unit that is grouped is no building, so it is free only when it may be
\* interrupted, sets no rally point, and obeys by itself, not through its larvae.
LEMMA GroupedUnitObeys ==
  ASSUME SortAssumption, NEW u, u.sort \in Sorts, CanCommand(u), CanCommandGrouped(u)
  PROVE  /\ ~Trait(u, "building") /\ ~Trait(u, "helper")
         /\ Free(u) => Is(u, "interruptible")
         /\ ~CanSetRallyPosition(u) /\ ~CanSetRallyUnit(u)
<1>1. ~Trait(u, "building")
  BY DEF CanCommandGrouped
<1>2. ~Trait(u, "producesLarva")
  BY <1>1 DEF SortAssumption, Trait
<1>3. Obeys(u)
  BY <1>2 DEF CanCommand
<1>4. QED
  BY <1>1, <1>3 DEF Obeys, Free, CanSetRallyPosition, CanSetRallyUnit

LEMMA GroupedAttack ==
  ASSUME SortAssumption, NEW u, u.sort \in Sorts, CanCommand(u), CanCommandGrouped(u),
         CanAttackUnit(u)
  PROVE  /\ ~Emplaced(u) => CanAttackUnitGrouped(u)
         /\ u.sort # "Queen"
<1>1. ~Trait(u, "building") /\ Is(u, "interruptible")
  BY GroupedUnitObeys DEF CanAttackUnit
<1>2. u.sort # "Queen"
  BY DEF CanAttackUnit, Armed, Trait, SortAssumption
<1>3. ASSUME ~Emplaced(u) PROVE CanAttackUnitGrouped(u)
  BY <1>1, <1>3 DEF Emplaced, CanAttackUnit, CanAttackUnitGrouped
<1>4. QED
  BY <1>2, <1>3

LEMMA GroupedAttackTarget ==
  ASSUME NEW u, NEW t, CanAttackTarget(u, t), u.sort # "Queen"
  PROVE  CanAttackTargetGrouped(u, t)
  BY DEF CanAttackTarget, CanAttackTargetGrouped

LEMMA GroupedMove ==
  ASSUME NEW u, CanMove(u), ~Trait(u, "building")
  PROVE  CanMoveGrouped(u) /\ Trait(u, "canMove") /\ ~Emplaced(u)
  BY DEF CanMove, CanMoveGrouped, Emplaced

\* What a unit that is grouped right-clicks, it follows or is loaded with: an enemy
\* is right-clicked by a unit that moves.
LEMMA GroupedRightClick ==
  ASSUME SortAssumption, NEW u, u.sort \in Sorts, CanCommand(u), CanCommandGrouped(u),
         NEW t, CanRightClickUnit(u), CanRightClickTarget(u, t)
  PROVE  CanRightClickUnitGrouped(u) /\ CanRightClickTargetGrouped(u, t)
<1>1. ~Trait(u, "building") /\ Is(u, "interruptible") /\ ~CanSetRallyUnit(u)
  BY GroupedUnitObeys DEF CanRightClickUnit
<1>2. CanFollow(u) \/ (CanLoad(u) /\ CanLoadTarget(u, t))
  BY <1>1 DEF CanRightClickTarget
<1>3. ASSUME t.side = "foe"
      PROVE  CanAttackUnitGrouped(u) /\ CanAttackTargetGrouped(u, t)
  <2>1. CanAttackUnit(u) /\ CanAttackTarget(u, t)
    BY <1>3 DEF CanRightClickTarget
  <2>2. CanFollow(u)
    BY <1>2, <1>3 DEF CanLoadTarget
  <2>3. ~Emplaced(u)
    BY <1>1, <2>2, GroupedMove DEF CanFollow
  <2>4. QED
    BY <2>1, <2>3, GroupedAttack, GroupedAttackTarget
<1>4. CanRightClickUnitGrouped(u)
  BY <1>1, <1>2 DEF CanRightClickUnitGrouped
<1>5. QED
  BY <1>1, <1>3, <1>4 DEF CanRightClickTarget, CanRightClickTargetGrouped

LEMMA GroupedType ==
  ASSUME SortAssumption, NEW u, u.sort \in Sorts, CanCommand(u), CanCommandGrouped(u),
         NEW ct, ct \notin AloneOnly \cup {"Right_Click_Unit"}, CanIssueCommandType(u, ct),
         ~(ct = "Attack_Unit" /\ Emplaced(u))
  PROVE  CanIssueCommandTypeGrouped(u, ct)
<1>1. ~Trait(u, "building")
  BY GroupedUnitObeys
<1>2. CASE ct \notin GroupedTypes
  BY <1>2 DEF CanIssueCommandTypeGrouped, GroupedTypes
<1>3. CASE ct = "Attack_Move"
  <2>1. CanAttackMove(u)
    BY <1>3 DEF CanIssueCommandType
  <2>2. CanAttackMoveGrouped(u)
    BY <2>1, <1>1, GroupedMove DEF CanAttackMove, CanAttackMoveGrouped
  <2>3. QED
    BY <1>3, <2>2 DEF CanIssueCommandTypeGrouped, GroupedTypes
<1>4. CASE ct = "Attack_Unit"
  <2>1. CanAttackUnitGrouped(u)
    BY <1>4, GroupedAttack DEF CanIssueCommandType
  <2>2. QED
    BY <1>4, <2>1 DEF CanIssueCommandTypeGrouped, GroupedTypes
<1>5. CASE ct = "Move"
  <2>1. CanMoveGrouped(u)
    BY <1>1, <1>5, GroupedMove DEF CanIssueCommandType
  <2>2. QED
    BY <1>5, <2>1 DEF CanIssueCommandTypeGrouped, GroupedTypes
<1>6. CASE ct = "Patrol"
  <2>1. CanPatrolGrouped(u)
    BY <1>1, <1>6, GroupedMove DEF CanIssueCommandType, CanPatrol, CanPatrolGrouped
  <2>2. QED
    BY <1>6, <2>1 DEF CanIssueCommandTypeGrouped, GroupedTypes
<1>7. CASE ct = "Right_Click_Position"
  <2>1. CanRightClickPosition(u)
    BY <1>7 DEF CanIssueCommandType
  <2>2. CanRightClickPositionGrouped(u)
    BY <1>1, <2>1, GroupedUnitObeys, GroupedMove
    DEF CanRightClickPosition, CanRightClickPositionGrouped
  <2>3. QED
    BY <1>7, <2>2 DEF CanIssueCommandTypeGrouped, GroupedTypes
<1>8. QED
  BY <1>2, <1>3, <1>4, <1>5, <1>6, <1>7 DEF GroupedTypes

\* Whatever a unit that can be grouped may be told alone, it may be told in a group,
\* unless the command is never given to groups or is the attack of an emplacement.
THEOREM GroupsTake ==
  ASSUME SortAssumption
  PROVE  LegalSpec => []GroupTakesWhatUnitsTake
<1>1. SameUnits => GroupTakesWhatUnitsTake
  <2> SUFFICES ASSUME SameUnits, CanCommand(actor), CanCommandGrouped(actor),
                      NEW c \in AllCommands, CanIssueCommand(actor, c), c.type \notin AloneOnly,
                      ~(c.type = "Attack_Unit" /\ Emplaced(actor))
               PROVE  CanIssueCommandGrouped(actor, c)
    BY DEF GroupTakesWhatUnitsTake
  <2>1. actor.sort \in Sorts
    BY DEF SameUnits, SortAssumption
  <2>2. CanIssueCommandType(actor, c.type)
    BY DEF CanIssueCommand
  <2>3. ASSUME c.type = "Attack_Unit"
        PROVE  CanAttackTargetGrouped(actor, c.target)
    <3>1. CanAttackUnit(actor) /\ CanAttackTarget(actor, c.target)
      BY <2>3 DEF CanIssueCommand, CanIssueCommandType
    <3>2. QED
      BY <2>1, <3>1, GroupedAttack, GroupedAttackTarget
  <2>4. ASSUME c.type = "Right_Click_Unit"
        PROVE  CanRightClickUnitGrouped(actor) /\ CanRightClickTargetGrouped(actor, c.target)
    <3>1. CanRightClickUnit(actor) /\ CanRightClickTarget(actor, c.target)
      BY <2>2, <2>4 DEF CanIssueCommand, CanIssueCommandType
    <3>2. QED
      BY <2>1, <3>1, GroupedRightClick
  <2>5. CanIssueCommandTypeGrouped(actor, c.type)
    <3>1. CASE c.type = "Right_Click_Unit"
      BY <2>4, <3>1 DEF CanIssueCommandTypeGrouped, GroupedTypes, AloneOnly
    <3>2. CASE c.type # "Right_Click_Unit"
      BY <2>1, <2>2, <3>2, GroupedType
    <3>3. QED
      BY <3>1, <3>2
  <2>6. Rest(actor, c)
    BY DEF CanIssueCommand
  <2>7. QED
    BY <2>3, <2>4, <2>5, <2>6 DEF CanIssueCommandGrouped
<1>2. QED
  BY <1>1, UnitsStaySame, PTL

-----------------------------------------------------------------------------
(* Larvae.                                                                  *)

LEMMA LarvaIsReady ==
  ASSUME SortAssumption, NEW l, l.sort = "Larva", CanCommand(l), CanTrain(l) \/ CanMorph(l)
  PROVE  Ready(l)
<1>1. ~Trait(l, "producesLarva")
  BY DEF SortAssumption, Trait
<1>2. QED
  BY <1>1 DEF CanTrain, CanMorph, AtRest, Ready

\* The larva that was seen when a command to a hatchery was allowed is found when
\* the command is prepared.
THEOREM LarvaIsFound ==
  ASSUME SortAssumption
  PROVE  LegalSpec => []LarvaIsThere
<1>1. SameUnits => LarvaIsThere
  <2> SUFFICES ASSUME SameUnits, Trait(actor, "producesLarva"),
                      NEW c \in AllCommands, c.type \in {"Train", "Morph"},
                      CanIssueCommand(actor, c), c.product.by = "Larva"
               PROVE  LarvaForIt # {}
    BY DEF LarvaIsThere
  <2>1. \E l \in larvae : CanCommand(l) /\ (CanTrain(l) \/ CanMorph(l))
    <3>1. CASE c.type = "Train"
      BY <3>1 DEF CanIssueCommand, Rest, CanTrainKind, LarvaToTrain
    <3>2. CASE c.type = "Morph"
      BY <3>2 DEF CanIssueCommand, Rest, CanMorphInto, LarvaToMorph
    <3>3. QED
      BY <3>1, <3>2
  <2>2. QED
    BY <2>1, LarvaIsReady DEF SameUnits, LarvaForIt
<1>2. QED
  BY <1>1, UnitsStaySame, PTL

-----------------------------------------------------------------------------
(* Rewriting.                                                               *)

LEMMA ShapeOfCommands ==
  ASSUME NEW c \in AllCommands
  PROVE  /\ c.type = "Gather" => c.target \in Targets
         /\ c.type = "Use_Tech" => c.tech \in Techs
  BY DEF AllCommands, PlainTypes, TargetTypes, ProductTypes, TechKinds

\* What remains to be shown of a right click and of a command that switches.
LEMMA RightClickIsIssued ==
  ASSUME NEW u, NEW t, CanCommand(u), CanRightClickUnit(u), CanRightClickTarget(u, t)
  PROVE  CanIssueCommand(u, RightClickUnit(t))
  BY DEF CanIssueCommand, CanIssueCommandType, Rest, RightClickUnit

LEMMA RightClickPositionIsIssued ==
  ASSUME NEW u, CanCommand(u), CanRightClickPosition(u)
  PROVE  CanIssueCommand(u, RightClickPosition)
  BY DEF CanIssueCommand, CanIssueCommandType, Rest, RightClickPosition

LEMMA SwitchIsIssued ==
  ASSUME NEW u, NEW ct, CanCommand(u),
         \/ ct = "Siege" /\ CanSiege(u)
         \/ ct = "Cloak" /\ CanCloak(u)
         \/ ct = "Burrow" /\ CanBurrow(u)
  PROVE  CanIssueCommand(u, [type |-> ct])
  BY DEF CanIssueCommand, CanIssueCommandType, Rest

LEMMA MovingIsFree ==
  ASSUME NEW u, CanMove(u)
  PROVE  Free(u)
  BY DEF CanMove, Free

LEMMA AttackByClick ==
  ASSUME NEW u, NEW t, CanAttackUnit(u), CanAttackTarget(u, t), CanFollow(u)
  PROVE  CanRightClickUnit(u) /\ CanRightClickTarget(u, t)
  BY DEF CanAttackUnit, CanAttackTarget, CanRightClickUnit, CanRightClickTarget, CanFollowTarget

\* A worker goes to what it may gather from, which is never an enemy's.
LEMMA GatherByClick ==
  ASSUME SortAssumption, SameUnits, NEW t \in Targets,
         CanGather(actor), CanGatherTarget(actor, t)
  PROVE  CanRightClickUnit(actor) /\ CanRightClickTarget(actor, t)
<1>1. actor.sort \in Sorts /\ Trait(actor, "worker") /\ actor.sort # "Larva"
  BY DEF SameUnits, SortAssumption, CanGather, Trait
<1>2. Trait(actor, "canMove") /\ ~Trait(actor, "building") /\ ~Trait(actor, "resource")
  BY <1>1 DEF SortAssumption, Trait
<1>3. CanFollow(actor) /\ Free(actor)
  BY <1>1, <1>2 DEF CanGather, CanFollow, CanMove, Free
<1>4. t = goal
  BY <1>2 DEF Targets, CanGatherTarget
<1>5. PICK g \in Goals : goal.id = g.id /\ goal.sort = g.sort /\ goal.side = g.side
  BY DEF SameUnits
<1>6. t.id # actor.id /\ t.side # "foe"
  BY <1>4, <1>5 DEF SortAssumption, SameUnits, CanGatherTarget, Trait
<1>7. QED
  BY <1>3, <1>6 DEF CanGatherTarget, CanRightClickUnit, CanRightClickTarget, CanFollowTarget

LEMMA RallyByClick ==
  ASSUME NEW u, NEW t, CanSetRallyUnit(u), CanSetRallyTarget(u, t), t.side # "foe"
  PROVE  CanRightClickUnit(u) /\ CanRightClickTarget(u, t)
  BY DEF CanSetRallyUnit, CanSetRallyTarget, CanRightClickUnit, CanRightClickTarget, Free

\* A tech that is used is not in use: the switch is turned on.
LEMMA TechBySwitch ==
  ASSUME SortAssumption, NEW u, NEW tech \in Techs, CanUseItsTech(u, tech)
  PROVE  /\ tech.name = "Tank_Siege_Mode" => ~Is(u, "sieged") /\ CanSiege(u)
         /\ "cloaking" \in tech.is => CanCloak(u)
         /\ tech.name = "Burrowing" => ~Is(u, "burrowed") /\ CanBurrow(u)
<1>1. TechUsable(u, tech) /\ TechPossible(u, tech)
  BY DEF CanUseItsTech, CanUseTechWithoutTarget, TechUsable
<1>2. tech.name = "Tank_Siege_Mode" => ~Is(u, "sieged") /\ CanSiege(u)
  BY <1>1 DEF TechPossible, CanSiege
<1>3. "cloaking" \in tech.is => CanCloak(u)
  BY <1>1 DEF SortAssumption, TechUsable, CanCloak
<1>4. tech.name = "Burrowing" => ~Is(u, "burrowed") /\ CanBurrow(u)
  BY <1>1 DEF TechPossible, CanBurrow
<1>5. QED
  BY <1>2, <1>3, <1>4

\* But for the kinds named in Misjudged, a command that a unit may be given is
\* replaced by one that it may be given.
THEOREM RewritingIsLegal ==
  ASSUME SortAssumption
  PROVE  LegalSpec => []RewritingStaysLegal
<1>1. SameUnits => RewritingStaysLegal
  <2> SUFFICES ASSUME SameUnits, CanCommand(actor), NEW c \in AllCommands,
                      CanIssueCommand(actor, c), ~Misjudged(c)
               PROVE  CanIssueCommand(actor, Instead(actor, c))
    BY DEF RewritingStaysLegal
  <2>1. CASE c.type = "Attack_Unit"
    <3>1. Instead(actor, c) \in {c, RightClickUnit(c.target)}
      BY <2>1 DEF Instead
    <3>2. CanAttackUnit(actor) /\ CanAttackTarget(actor, c.target) /\ CanFollow(actor)
      BY <2>1 DEF CanIssueCommand, CanIssueCommandType, Misjudged
    <3>3. QED
      BY <3>1, <3>2, AttackByClick, RightClickIsIssued
  <2>2. CASE c.type = "Move"
    <3>1. Instead(actor, c) = RightClickPosition
      BY <2>2 DEF Instead
    <3>2. CanMove(actor)
      BY <2>2 DEF CanIssueCommand, CanIssueCommandType
    <3>3. QED
      BY <3>1, <3>2, MovingIsFree, RightClickPositionIsIssued DEF CanRightClickPosition
  <2>3. CASE c.type = "Gather"
    <3>1. Instead(actor, c) \in {c, RightClickUnit(c.target)}
      BY <2>3 DEF Instead
    <3>2. CanGather(actor) /\ CanGatherTarget(actor, c.target) /\ c.target \in Targets
      BY <2>3, ShapeOfCommands DEF CanIssueCommand, CanIssueCommandType, Rest
    <3>3. QED
      BY <3>1, <3>2, GatherByClick, RightClickIsIssued
  <2>4. CASE c.type = "Set_Rally_Position"
    <3>1. Instead(actor, c) \in {c, RightClickPosition}
      BY <2>4 DEF Instead
    <3>2. CanSetRallyPosition(actor)
      BY <2>4 DEF CanIssueCommand, CanIssueCommandType
    <3>3. CanRightClickPosition(actor)
      BY <3>2 DEF CanSetRallyPosition, CanRightClickPosition, Free
    <3>4. QED
      BY <3>1, <3>3, RightClickPositionIsIssued
  <2>5. CASE c.type = "Set_Rally_Unit"
    <3>1. Instead(actor, c) \in {c, RightClickUnit(c.target)}
      BY <2>5 DEF Instead
    <3>2. CanSetRallyUnit(actor) /\ CanSetRallyTarget(actor, c.target) /\ c.target.side # "foe"
      BY <2>5 DEF CanIssueCommand, CanIssueCommandType, Misjudged
    <3>3. QED
      BY <3>1, <3>2, RallyByClick, RightClickIsIssued
  <2>6. CASE c.type = "Use_Tech_Unit"
    BY <2>6 DEF Instead, Misjudged
  <2>7. CASE c.type = "Train"
    BY <2>7 DEF Instead, Misjudged
  <2>8. CASE c.type = "Use_Tech"
    <3>1. c.tech \in Techs /\ CanUseItsTech(actor, c.tech)
      BY <2>8, ShapeOfCommands DEF CanIssueCommand, CanIssueCommandType, Rest, CanUseItsTech
    <3>2. /\ c.tech.name = "Tank_Siege_Mode" => ~Is(actor, "sieged") /\ CanSiege(actor)
          /\ "cloaking" \in c.tech.is => ~Is(actor, "cloaked") /\ CanCloak(actor)
          /\ c.tech.name = "Burrowing" => ~Is(actor, "burrowed") /\ CanBurrow(actor)
      BY <2>8, <3>1, TechBySwitch DEF Misjudged
    <3>3. CASE c.tech.name = "Tank_Siege_Mode"
      <4>1. Instead(actor, c) = [type |-> "Siege"]
        BY <2>8, <3>1, <3>2, <3>3 DEF Instead, SortAssumption
      <4>2. QED
        BY <3>2, <3>3, <4>1, SwitchIsIssued
    <3>4. CASE "cloaking" \in c.tech.is
      <4>1. Instead(actor, c) = [type |-> "Cloak"]
        BY <2>8, <3>1, <3>2, <3>4 DEF Instead, SortAssumption
      <4>2. QED
        BY <3>2, <3>4, <4>1, SwitchIsIssued
    <3>5. CASE c.tech.name = "Burrowing"
      <4>1. Instead(actor, c) = [type |-> "Burrow"]
        BY <2>8, <3>1, <3>2, <3>5 DEF Instead, SortAssumption
      <4>2. QED
        BY <3>2, <3>5, <4>1, SwitchIsIssued
    <3>6. CASE c.tech.name \notin {"Tank_Siege_Mode", "Burrowing"} /\ "cloaking" \notin c.tech.is
      BY <2>8, <3>6 DEF Instead
    <3>7. QED
      BY <3>3, <3>4, <3>5, <3>6
  <2>9. CASE c.type \notin {"Attack_Unit", "Move", "Gather", "Set_Rally_Position",
                            "Set_Rally_Unit", "Use_Tech_Unit", "Train", "Use_Tech"}
    BY <2>9 DEF Instead
  <2>10. QED
    BY <2>1, <2>2, <2>3, <2>4, <2>5, <2>6, <2>7, <2>8, <2>9
<1>2. QED
  BY <1>1, UnitsStaySame, PTL

-----------------------------------------------------------------------------
(* From commands to orders: what is known of each step.                     *)

IsSeq(l) == l \in Seq(Range(l))

\* A command is nothing more than its four parts.
IsCommand(c) ==
  c.type \in Types
  /\ c = [type |-> c.type, target |-> c.target, pos |-> c.pos, extra |-> c.extra]

\* What a unit may have been told, of the commands that are carried out in ways
\* that differ: what a rewritten command leaves of RequestsAssumption.
Meant(u, c) ==
  /\ c.type = "Train" =>
       \/ c.extra = "Interceptor" /\ Kind[u] \in Carriers \cup Reavers
       \/ \E r \in Requests :
            r.cmd.type = "Train" /\ r.cmd.extra = c.extra /\ u \in Doers(r.unit, r.cmd)
  /\ c.type = "Load" =>
       \E r \in Requests :
         r.cmd.type = "Load" /\ r.cmd.target = c.target /\ u \in Doers(r.unit, r.cmd)
  /\ c.type = "Unload_All" /\ Kind[u] \in Buildings => Kind[u] = "Bunker"
  /\ c.type = "Use_Tech" => c.extra = "Stim_Packs"

\* The lists, the group and the set are lists, and empty when nobody uses them.
OptimizerShape ==
  /\ phase \in {"ai", "set", "flush", "sent"}
  /\ DOMAIN queue = Types /\ \A t \in Types : IsSeq(queue[t])
  /\ DOMAIN given = Units /\ \A u \in Units : IsSeq(given[u])
  /\ DOMAIN received = Units /\ \A u \in Units : IsSeq(received[u])
  /\ IsSeq(group) /\ Len(group) < GroupMax /\ cursor \in Nat \ {0}
  /\ batch = [cmd |-> batch.cmd, left |-> batch.left, units |-> batch.units]
  /\ IsSeq(batch.units)
  /\ phase # "flush" => group = <<>>
  /\ phase # "set" => batch.units = <<>>
  /\ phase = "sent" => \A t \in Types : queue[t] = <<>>

Listed(x, t) ==
  /\ x = [unit |-> x.unit, cmd |-> x.cmd]
  /\ x.unit \in Units /\ IsCommand(x.cmd) /\ x.cmd.type = t /\ Meant(x.unit, x.cmd)

InGroup(u, c) ==
  /\ u \in Units /\ IsCommand(c) /\ Meant(u, c)
  /\ Oddity(u, c.type) = leader.odd

InSet(u, c) ==
  /\ [unit |-> u, cmd |-> c] \in Requests
  /\ Kind[u] \notin Buildings /\ c.type \notin NeverGrouped

\* Those who wait for an order have been told what is in the list they are in.
WaitingWereTold ==
  /\ \A t \in Types : \A i \in DOMAIN queue[t] : Listed(queue[t][i], t)
  /\ \A i \in DOMAIN group : InGroup(group[i], leader.cmd)
  /\ \A i \in DOMAIN batch.units : InSet(batch.units[i], batch.cmd)

WasTold(u, g) ==
  /\ g.way \in Ways /\ g.cmd.type \in Types
  /\ g.way # "alone" => g.order = Order(u, g.cmd)

Obeyed(u, r) ==
  /\ r.way \in Ways /\ r.cmd.type \in Types
  /\ IF r.way = "alone" THEN \E j \in DOMAIN given[u] : given[u][j] = r
     ELSE DependsOnFront(u, r) \/ r.order = Order(u, r.cmd)

\* An order is the one for the unit's own command, where it does not depend on front.
OrdersAreOwn ==
  \A u \in Units :
    /\ \A j \in DOMAIN given[u] : WasTold(u, given[u][j])
    /\ \A i \in DOMAIN received[u] : Obeyed(u, received[u][i])

\* How often something is in a list, and a command among those of one way.
Places(l, x) == {i \in DOMAIN l : l[i] = x}
Hits(l, c, w) == {i \in DOMAIN l : l[i].cmd = c /\ l[i].way = w}

\* How often a unit waits for an order that it was given in a way.
InLists(u, c) == Cardinality(Places(queue[c.type], [unit |-> u, cmd |-> c]))
InGroups(u, c) == IF leader.cmd = c THEN Cardinality(Places(group, u)) ELSE 0
InSets(u, c) == IF batch.cmd = c THEN Cardinality(Places(batch.units, u)) ELSE 0

Waits(u, c, w) ==
  CASE w = "list" -> InLists(u, c) + InGroups(u, c)
    [] w = "set" -> InSets(u, c)
    [] w = "alone" -> 0

Sent(u, c, w) == Cardinality(Hits(received[u], c, w))
Due(u, c, w) == Cardinality(Hits(given[u], c, w))

\* The account: what was sent or waits was given, no less often, and something
\* was sent or waits if anything was given.
Balanced(u, c, w) ==
  /\ Sent(u, c, w) + Waits(u, c, w) <= Due(u, c, w)
  /\ Due(u, c, w) > 0 => Sent(u, c, w) + Waits(u, c, w) > 0

AccountsBalance ==
  \A u \in Units, w \in Ways : \A c : c.type \in Types => Balanced(u, c, w)

OptimizerInv == OptimizerShape /\ WaitingWereTold /\ OrdersAreOwn /\ AccountsBalance

-----------------------------------------------------------------------------
(* Lists.                                                                   *)

LEMMA LeastIsThere ==
  ASSUME NEW S \in SUBSET Nat, S # {}
  PROVE  Min(S) \in S
<1> DEFINE R == {ss \in Nat \X Nat : ss[1] < ss[2]}
<1>1. IsWellFoundedOn(R, Nat)
  BY NatLessThanWellFounded DEF OpToRel
<1>2. PICK x \in S : \A y \in S : ~(<<y, x>> \in R)
  <2> HIDE DEF R
  <2> QED
    BY <1>1, WFMin, Zenon
<1>3. \A y \in S : x =< y
  <2> SUFFICES ASSUME NEW y \in S PROVE x =< y
    OBVIOUS
  <2>1. x \in Nat /\ y \in Nat /\ ~(y < x)
    BY <1>2
  <2>2. QED
    BY <2>1
<1> QED
  BY <1>3 DEF Min

\* The type whose list is read is one.
LEMMA CurrentIsType ==
  ASSUME group = <<>>, Pending # {}
  PROVE  Current \in Types
<1>1. Pending \in SUBSET Nat
  <2>1. DOMAIN TypeOrder \subseteq Nat
    BY DEF TypeOrder
  <2>2. QED
    BY <2>1 DEF Pending
<1>2. Min(Pending) \in DOMAIN TypeOrder
  BY <1>1, LeastIsThere DEF Pending
<1>3. QED
  BY <1>2 DEF Current, Types, Range

LEMMA SomeTypes ==
  {"Right_Click_Position", "Right_Click_Unit", "Train", "Siege", "Unsiege", "Cloak",
   "Decloak", "Burrow", "Unburrow", "Use_Tech_Position"} \subseteq Types
<1>1. \A i \in 1 .. 44 : TypeOrder[i] \in Types
  BY DEF Types, Range, TypeOrder
<1>2. QED
  BY <1>1 DEF TypeOrder

LEMMA EmptyIsSeq == IsSeq(<<>>)
  BY DEF IsSeq

LEMMA ListIsSeq ==
  ASSUME NEW S, NEW l \in Seq(S)
  PROVE  IsSeq(l)
<1>1. l \in [1 .. Len(l) -> Range(l)]
  BY DEF Range
<1>2. QED
  BY <1>1 DEF IsSeq

LEMMA AppendedIsSeq ==
  ASSUME NEW l, IsSeq(l), NEW e
  PROVE  /\ IsSeq(Append(l, e)) /\ Len(Append(l, e)) = Len(l) + 1
         /\ DOMAIN Append(l, e) = DOMAIN l \cup {Len(l) + 1}
         /\ Append(l, e)[Len(l) + 1] = e
         /\ \A i \in DOMAIN l : Append(l, e)[i] = l[i]
         /\ DOMAIN l = 1 .. Len(l) /\ Len(l) \in Nat
<1> DEFINE S == Range(l) \cup {e}
<1>1. l \in Seq(S) /\ e \in S
  BY DEF IsSeq
<1>2. Append(l, e) \in Seq(S)
  BY <1>1
<1>3. IsSeq(Append(l, e))
  BY <1>2, ListIsSeq
<1>4. /\ Len(Append(l, e)) = Len(l) + 1
      /\ DOMAIN Append(l, e) = DOMAIN l \cup {Len(l) + 1}
      /\ Append(l, e)[Len(l) + 1] = e
      /\ \A i \in DOMAIN l : Append(l, e)[i] = l[i]
      /\ DOMAIN l = 1 .. Len(l) /\ Len(l) \in Nat
  BY <1>1
<1>5. QED
  BY <1>3, <1>4

LEMMA JoinedIsSeq ==
  ASSUME NEW k, IsSeq(k), NEW l, IsSeq(l)
  PROVE  /\ IsSeq(k \o l) /\ Len(k \o l) = Len(k) + Len(l)
         /\ DOMAIN (k \o l) = 1 .. Len(k) + Len(l)
         /\ \A i \in DOMAIN k : (k \o l)[i] = k[i]
         /\ \A i \in DOMAIN l : (k \o l)[Len(k) + i] = l[i]
         /\ \A i \in DOMAIN (k \o l) : i \in DOMAIN k \/ i - Len(k) \in DOMAIN l
         /\ DOMAIN k = 1 .. Len(k) /\ Len(k) \in Nat
         /\ DOMAIN l = 1 .. Len(l) /\ Len(l) \in Nat
<1> DEFINE S == Range(k) \cup Range(l)
<1>1. k \in Seq(S) /\ l \in Seq(S)
  BY DEF IsSeq
<1>2. k \o l \in Seq(S)
  BY <1>1
<1>3. IsSeq(k \o l)
  BY <1>2, ListIsSeq
<1>4. /\ DOMAIN k = 1 .. Len(k) /\ Len(k) \in Nat
      /\ DOMAIN l = 1 .. Len(l) /\ Len(l) \in Nat
      /\ Len(k \o l) = Len(k) + Len(l)
      /\ DOMAIN (k \o l) = 1 .. Len(k) + Len(l)
  BY <1>1
<1>5. \A i \in DOMAIN k : (k \o l)[i] = k[i]
  BY <1>1
<1>6. \A i \in DOMAIN l : (k \o l)[Len(k) + i] = l[i]
  BY <1>1
<1>7. \A i \in DOMAIN (k \o l) : i \in DOMAIN k \/ i - Len(k) \in DOMAIN l
  BY <1>4
<1>8. QED
  BY <1>3, <1>4, <1>5, <1>6, <1>7

LEMMA PartIsSeq ==
  ASSUME NEW l, IsSeq(l), NEW m \in 1 .. Len(l) + 1, NEW n \in 0 .. Len(l)
  PROVE  /\ IsSeq(SubSeq(l, m, n))
         /\ Len(SubSeq(l, m, n)) = (IF m <= n THEN n - m + 1 ELSE 0)
         /\ \A i \in DOMAIN SubSeq(l, m, n) :
              m + i - 1 \in DOMAIN l /\ SubSeq(l, m, n)[i] = l[m + i - 1]
<1>1. l \in Seq(Range(l)) /\ Len(l) \in Nat
  BY DEF IsSeq
<1>2. SubSeq(l, m, n) \in Seq(Range(l))
  BY <1>1
<1>3. IsSeq(SubSeq(l, m, n))
  BY <1>2, ListIsSeq
<1>4. Len(SubSeq(l, m, n)) = IF m <= n THEN n - m + 1 ELSE 0
  BY <1>1
<1>5. \A i \in DOMAIN SubSeq(l, m, n) :
        m + i - 1 \in DOMAIN l /\ SubSeq(l, m, n)[i] = l[m + i - 1]
  BY <1>1
<1>6. QED
  BY <1>3, <1>4, <1>5

LEMMA RestIsSeq ==
  ASSUME NEW l, IsSeq(l), NEW i \in DOMAIN l
  PROVE  /\ IsSeq(RemoveAt(l, i))
         /\ \A j \in DOMAIN RemoveAt(l, i) : \E k \in DOMAIN l : RemoveAt(l, i)[j] = l[k]
<1> DEFINE a == SubSeq(l, 1, i - 1)
           b == SubSeq(l, i + 1, Len(l))
           S == Range(l)
<1>1. l \in Seq(S) /\ i \in 1 .. Len(l) /\ Len(l) \in Nat
  BY DEF IsSeq
<1>2. a \in Seq(S) /\ b \in Seq(S)
  <2> HIDE DEF S
  <2>1. QED
    BY <1>1
<1>3. RemoveAt(l, i) \in Seq(S)
  <2> HIDE DEF a, b, S
  <2>1. a \o b \in Seq(S)
    BY <1>2
  <2>2. QED
    BY <2>1 DEF RemoveAt, a, b
<1>4. \A j \in DOMAIN RemoveAt(l, i) : RemoveAt(l, i)[j] \in S
  <2> HIDE DEF S
  <2>1. QED
    BY <1>3
<1>5. QED
  BY <1>3, <1>4, ListIsSeq DEF Range

\* Counting.
LEMMA PlacesCount ==
  ASSUME NEW l, IsSeq(l), NEW x
  PROVE  /\ IsFiniteSet(Places(l, x)) /\ Cardinality(Places(l, x)) \in Nat
         /\ Cardinality(Places(l, x)) > 0 <=> \E i \in DOMAIN l : l[i] = x
<1>1. DOMAIN l = 1 .. Len(l) /\ Len(l) \in Nat
  BY DEF IsSeq
<1>2. IsFiniteSet(DOMAIN l)
  BY <1>1, FS_Interval
<1>3. IsFiniteSet(Places(l, x))
  BY <1>2, FS_Subset DEF Places
<1>4. Cardinality(Places(l, x)) \in Nat
  BY <1>3, FS_CardinalityType
<1>5. Cardinality(Places(l, x)) = 0 <=> Places(l, x) = {}
  BY <1>3, FS_EmptySet
<1>6. QED
  BY <1>3, <1>4, <1>5 DEF Places

LEMMA HitsCount ==
  ASSUME NEW l, IsSeq(l), NEW c, NEW w
  PROVE  /\ IsFiniteSet(Hits(l, c, w)) /\ Cardinality(Hits(l, c, w)) \in Nat
         /\ Cardinality(Hits(l, c, w)) > 0 <=>
              \E i \in DOMAIN l : l[i].cmd = c /\ l[i].way = w
<1>1. DOMAIN l = 1 .. Len(l) /\ Len(l) \in Nat
  BY DEF IsSeq
<1>2. IsFiniteSet(DOMAIN l)
  BY <1>1, FS_Interval
<1>3. IsFiniteSet(Hits(l, c, w))
  BY <1>2, FS_Subset DEF Hits
<1>4. Cardinality(Hits(l, c, w)) \in Nat
  BY <1>3, FS_CardinalityType
<1>5. Cardinality(Hits(l, c, w)) = 0 <=> Hits(l, c, w) = {}
  BY <1>3, FS_EmptySet
<1>6. QED
  BY <1>3, <1>4, <1>5 DEF Hits

LEMMA HitsAppended ==
  ASSUME NEW l, IsSeq(l), NEW e, NEW c, NEW w
  PROVE  Cardinality(Hits(Append(l, e), c, w)) =
           Cardinality(Hits(l, c, w)) + (IF e.cmd = c /\ e.way = w THEN 1 ELSE 0)
<1>1. /\ DOMAIN Append(l, e) = DOMAIN l \cup {Len(l) + 1} /\ Append(l, e)[Len(l) + 1] = e
      /\ \A i \in DOMAIN l : Append(l, e)[i] = l[i]
      /\ Len(l) + 1 \notin DOMAIN l
  BY AppendedIsSeq
<1>2. IsFiniteSet(Hits(l, c, w)) /\ Cardinality(Hits(l, c, w)) \in Nat
  BY HitsCount
<1>a. Len(l) + 1 \notin Hits(l, c, w)
  BY <1>1 DEF Hits
<1>3. CASE e.cmd = c /\ e.way = w
  <2>1. Hits(Append(l, e), c, w) = Hits(l, c, w) \cup {Len(l) + 1}
    BY <1>1, <1>3 DEF Hits
  <2>2. Cardinality(Hits(l, c, w) \cup {Len(l) + 1}) = Cardinality(Hits(l, c, w)) + 1
    BY <1>2, <1>a, FS_AddElement
  <2>3. QED
    BY <2>1, <2>2, <1>3
<1>4. CASE ~(e.cmd = c /\ e.way = w)
  <2>1. Hits(Append(l, e), c, w) = Hits(l, c, w)
    BY <1>1, <1>4 DEF Hits
  <2>2. QED
    BY <2>1, <1>2, <1>4
<1>5. QED
  BY <1>3, <1>4

LEMMA PlacesAppended ==
  ASSUME NEW l, IsSeq(l), NEW e, NEW x
  PROVE  Cardinality(Places(Append(l, e), x)) =
           Cardinality(Places(l, x)) + (IF e = x THEN 1 ELSE 0)
<1>1. /\ DOMAIN Append(l, e) = DOMAIN l \cup {Len(l) + 1} /\ Append(l, e)[Len(l) + 1] = e
      /\ \A i \in DOMAIN l : Append(l, e)[i] = l[i]
      /\ Len(l) + 1 \notin DOMAIN l
  BY AppendedIsSeq
<1>2. IsFiniteSet(Places(l, x)) /\ Len(l) + 1 \notin Places(l, x)
      /\ Cardinality(Places(l, x)) \in Nat
  BY <1>1, PlacesCount DEF Places
<1>3. CASE e = x
  <2>1. Places(Append(l, e), x) = Places(l, x) \cup {Len(l) + 1}
    BY <1>1, <1>3 DEF Places
  <2>2. Cardinality(Places(l, x) \cup {Len(l) + 1}) = Cardinality(Places(l, x)) + 1
    BY <1>2, FS_AddElement
  <2>3. QED
    BY <2>1, <2>2, <1>3
<1>4. CASE e # x
  <2>1. Places(Append(l, e), x) = Places(l, x)
    BY <1>1, <1>4 DEF Places
  <2>2. QED
    BY <2>1, <1>2, <1>4
<1>5. QED
  BY <1>3, <1>4

LEMMA PlacesJoined ==
  ASSUME NEW k, IsSeq(k), NEW l, IsSeq(l), NEW x
  PROVE  Cardinality(Places(k \o l, x)) = Cardinality(Places(k, x)) + Cardinality(Places(l, x))
<1> DEFINE P == Places(l, x)
           Q == {i \in DOMAIN (k \o l) : i > Len(k) /\ (k \o l)[i] = x}
           f == [i \in P |-> Len(k) + i]
<1>1. /\ DOMAIN (k \o l) = 1 .. Len(k) + Len(l)
      /\ \A i \in DOMAIN k : (k \o l)[i] = k[i]
      /\ \A i \in DOMAIN l : (k \o l)[Len(k) + i] = l[i]
      /\ DOMAIN k = 1 .. Len(k) /\ Len(k) \in Nat
      /\ DOMAIN l = 1 .. Len(l) /\ Len(l) \in Nat
  <2> HIDE DEF P, Q, f
  <2>1. DOMAIN (k \o l) = 1 .. Len(k) + Len(l) /\ DOMAIN k = 1 .. Len(k) /\ Len(k) \in Nat
        /\ DOMAIN l = 1 .. Len(l) /\ Len(l) \in Nat
    BY JoinedIsSeq, Zenon
  <2>2. \A i \in DOMAIN k : (k \o l)[i] = k[i]
    BY JoinedIsSeq, Zenon
  <2>3. \A i \in DOMAIN l : (k \o l)[Len(k) + i] = l[i]
    <3>1. k \in Seq(Range(k) \cup Range(l)) /\ l \in Seq(Range(k) \cup Range(l))
      BY DEF IsSeq
    <3>2. QED
      BY <3>1
  <2>4. QED
    BY <2>1, <2>2, <2>3
<1>2. IsFiniteSet(Places(k, x)) /\ IsFiniteSet(P)
  BY PlacesCount
<1>3. f \in Bijection(P, Q)
  <2>1. f \in [P -> Q]
    BY <1>1 DEF Places
  <2>2. \A i, j \in P : f[i] = f[j] => i = j
    BY <1>1 DEF Places
  <2>3. \A j \in Q : \E i \in P : f[i] = j
    <3> SUFFICES ASSUME NEW j \in Q PROVE j - Len(k) \in P /\ f[j - Len(k)] = j
      BY Zenon
    <3>1. j \in 1 .. Len(k) + Len(l) /\ j > Len(k)
      BY <1>1
    <3>2. j - Len(k) \in DOMAIN l /\ Len(k) + (j - Len(k)) = j
      BY <1>1, <3>1
    <3>3. l[j - Len(k)] = x
      BY <1>1, <3>2
    <3>4. QED
      BY <3>2, <3>3 DEF Places
  <2>4. QED
    BY <2>1, <2>2, <2>3 DEF Bijection, Injection, Surjection, IsInjective
<1>4. IsFiniteSet(Q) /\ Cardinality(Q) = Cardinality(P)
  <2> HIDE DEF P, Q, f
  <2>1. ExistsBijection(P, Q)
    BY <1>3 DEF ExistsBijection
  <2>2. QED
    BY <2>1, <1>2, FS_Bijection
<1>5. Places(k \o l, x) = Places(k, x) \cup Q /\ Places(k, x) \cap Q = {}
  BY <1>1 DEF Places
<1>6. Cardinality(Places(k, x)) \in Nat /\ Cardinality(P) \in Nat
  BY PlacesCount
<1>7. QED
  <2> HIDE DEF P, Q, f
  <2>1. Cardinality(Places(k, x) \cup Q) =
          Cardinality(Places(k, x)) + Cardinality(Q) - Cardinality(Places(k, x) \cap Q)
    BY <1>2, <1>4, FS_Union
  <2>2. Cardinality(Places(k, x) \cap Q) = 0
    BY <1>5, FS_EmptySet
  <2>3. QED
    BY <2>1, <2>2, <1>4, <1>5, <1>6 DEF P

LEMMA PlacesInFront ==
  ASSUME NEW l, IsSeq(l), NEW e, NEW x
  PROVE  /\ IsSeq(<<e>> \o l)
         /\ Cardinality(Places(<<e>> \o l, x)) =
              Cardinality(Places(l, x)) + (IF e = x THEN 1 ELSE 0)
<1>1. IsSeq(<<e>>)
  <2>1. <<e>> \in Seq({e})
    OBVIOUS
  <2>2. QED
    BY <2>1, ListIsSeq
<1>2. Cardinality(Places(<<e>>, x)) = IF e = x THEN 1 ELSE 0
  <2>1. Places(<<e>>, x) = IF e = x THEN {1} ELSE {}
    BY DEF Places
  <2>2. QED
    BY <2>1, FS_EmptySet, FS_Singleton
<1>3. IsSeq(<<e>> \o l)
  BY <1>1, JoinedIsSeq, Zenon
<1>4. Cardinality(Places(<<e>> \o l, x)) =
        Cardinality(Places(<<e>>, x)) + Cardinality(Places(l, x))
  BY <1>1, PlacesJoined, Zenon
<1>5. Cardinality(Places(l, x)) \in Nat
  BY PlacesCount
<1>6. QED
  BY <1>2, <1>3, <1>4, <1>5

LEMMA BehindTheFirst ==
  ASSUME NEW S, NEW k \in Seq(S), NEW l \in Seq(S), NEW j \in 1 .. Len(k) + Len(l), j > Len(k)
  PROVE  (k \o l)[j] = l[j - Len(k)]
  OBVIOUS

LEMMA PlacesRemoved ==
  ASSUME NEW l, IsSeq(l), NEW i \in DOMAIN l, NEW x
  PROVE  Cardinality(Places(RemoveAt(l, i), x)) + (IF l[i] = x THEN 1 ELSE 0)
           = Cardinality(Places(l, x))
<1> DEFINE a == SubSeq(l, 1, i - 1)
           b == SubSeq(l, i + 1, Len(l))
           h == <<l[i]>>
<1>1. l \in Seq(Range(l)) /\ DOMAIN l = 1 .. Len(l) /\ Len(l) \in Nat
  BY DEF IsSeq
<1>2. i - 1 \in 0 .. Len(l) /\ i + 1 \in 1 .. Len(l) + 1
  BY <1>1
<1>3. IsSeq(a) /\ IsSeq(b)
  BY <1>1, <1>2, PartIsSeq
<1>4. l = a \o (h \o b)
  <2>1. h \o b \in Seq(Range(l)) /\ a \in Seq(Range(l)) /\ b \in Seq(Range(l))
    BY <1>1
  <2>2. a \o (h \o b) \in Seq(Range(l))
    BY <2>1
  <2>3. Len(a) = i - 1 /\ Len(b) = Len(l) - i /\ Len(h \o b) = 1 + Len(b)
    BY <1>1
  <2>4. Len(a \o (h \o b)) = Len(l)
    BY <1>1, <2>1, <2>3
  <2>5. ASSUME NEW j \in 1 .. Len(l)
        PROVE  (a \o (h \o b))[j] = l[j]
    <3>1. CASE j < i
      BY <1>1, <2>1, <2>3, <3>1
    <3>2. CASE j = i
      BY <1>1, <2>1, <2>3, <3>2
    <3>3. CASE j > i
      <4>1. (a \o (h \o b))[j] = (h \o b)[j - (i - 1)]
        <5> HIDE DEF a, b, h
        <5>1. j \in 1 .. Len(a) + Len(h \o b) /\ j > Len(a) /\ j - Len(a) = j - (i - 1)
          BY <1>1, <2>3, <3>3
        <5>2. QED
          BY <5>1, <2>1, BehindTheFirst
      <4>2. (h \o b)[j - (i - 1)] = b[j - i]
        <5>1. h \in Seq(Range(l)) /\ Len(h) = 1
          BY <1>1
        <5> HIDE DEF a, b, h
        <5>2. j - (i - 1) \in 1 .. Len(h) + Len(b) /\ j - (i - 1) > Len(h)
              /\ (j - (i - 1)) - Len(h) = j - i
          BY <1>1, <2>3, <3>3, <5>1
        <5> DEFINE k == j - (i - 1)
        <5>3. (h \o b)[k] = b[k - Len(h)]
          <6> HIDE DEF k
          <6> QED
            BY <5>1, <5>2, <2>1, BehindTheFirst DEF k
        <5>4. QED
          BY <5>2, <5>3
      <4>3. b[j - i] = l[j]
        <5>1. j - i \in 1 .. Len(b)
          BY <1>1, <2>3, <3>3
        <5>2. l[(i + 1) + (j - i) - 1] = l[j]
          BY <1>1, <3>3
        <5>3. QED
          BY <1>1, <2>3, <5>1, <5>2, SMTT(30)
      <4>4. QED
        BY <4>1, <4>2, <4>3
    <3>4. QED
      BY <1>1, <3>1, <3>2, <3>3, SMTT(30)
  <2>6. QED
    <3> HIDE DEF a, b
    <3>1. QED
      BY <1>1, <2>2, <2>4, <2>5, SeqEqual, ZenonT(30)
<1>5. RemoveAt(l, i) = a \o b
  BY DEF RemoveAt
<1>6. QED
  <2> HIDE DEF a, b
  <2>1. IsSeq(h \o b) /\ Cardinality(Places(h \o b, x)) =
          Cardinality(Places(b, x)) + (IF l[i] = x THEN 1 ELSE 0)
    BY <1>3, PlacesInFront
  <2>2. Cardinality(Places(a \o (h \o b), x)) =
          Cardinality(Places(a, x)) + Cardinality(Places(h \o b, x))
    BY <1>3, <2>1, PlacesJoined
  <2>3. Cardinality(Places(a \o b, x)) = Cardinality(Places(a, x)) + Cardinality(Places(b, x))
    BY <1>3, PlacesJoined
  <2>4. Cardinality(Places(a, x)) \in Nat /\ Cardinality(Places(b, x)) \in Nat
    BY <1>3, PlacesCount
  <2>5. Cardinality(Places(l, x)) = Cardinality(Places(a, x)) + Cardinality(Places(h \o b, x))
    BY <2>2, <1>4
  <2>6. Cardinality(Places(RemoveAt(l, i), x)) =
          Cardinality(Places(a, x)) + Cardinality(Places(b, x))
    BY <2>3, <1>5
  <2>7. QED
    BY <2>1, <2>4, <2>5, <2>6

-----------------------------------------------------------------------------
(* Rewriting, and the orders for one command.                               *)

LEMMA DoersAreUnits ==
  ASSUME NEW r \in Requests, NEW u \in Doers(r.unit, r.cmd)
  PROVE  u \in Units /\ (Kind[r.unit] # "Hatchery" => u = r.unit)
  BY RequestsAssumption, UnitsAssumption DEF Doers

LEMMA RequestIsCommand ==
  ASSUME NEW r \in Requests
  PROVE  IsCommand(r.cmd)
  BY RequestsAssumption DEF IsCommand

DependentTypes == {"Train", "Load", "Unload_All", "Use_Tech"}

LEMMA OthersAreMeant ==
  ASSUME NEW u, NEW c, c.type \notin DependentTypes
  PROVE  Meant(u, c)
  BY DEF Meant, DependentTypes

\* What a request asks is meant, but for the techs that are switches.
LEMMA RequestIsMeant ==
  ASSUME NEW r \in Requests, NEW u \in Doers(r.unit, r.cmd),
         r.cmd.type = "Use_Tech" => r.cmd.extra = "Stim_Packs"
  PROVE  Meant(u, r.cmd)
<1>1. CASE r.cmd.type = "Train"
  BY <1>1 DEF Meant
<1>2. CASE r.cmd.type = "Load"
  BY <1>2 DEF Meant
<1>3. CASE r.cmd.type = "Unload_All"
  <2>1. u = r.unit
    BY <1>3, DoersAreUnits DEF Doers
  <2>2. QED
    BY <1>3, <2>1, RequestsAssumption DEF Meant
<1>4. CASE r.cmd.type = "Use_Tech"
  BY <1>4 DEF Meant
<1>5. CASE r.cmd.type \notin DependentTypes
  BY <1>5, OthersAreMeant
<1>6. QED
  BY <1>1, <1>2, <1>3, <1>4, <1>5 DEF DependentTypes

LEMMA MadeCommand ==
  ASSUME NEW t \in Types, NEW g, NEW p, NEW e
  PROVE  IsCommand([type |-> t, target |-> g, pos |-> p, extra |-> e])
  BY DEF IsCommand

LEMMA SimplifiedIsMeant ==
  ASSUME NEW r \in Requests, NEW u \in Doers(r.unit, r.cmd)
  PROVE  LET s == Simplified(u, r.cmd)
         IN /\ IsCommand(s) /\ Meant(u, s)
            /\ r.cmd.type = "Use_Tech_Unit" => s.type \in {"Use_Tech_Unit", "Right_Click_Unit"}
<1> DEFINE c == r.cmd
           s == Simplified(u, c)
<1>1. IsCommand(c) /\ c.type \in Types
      /\ c = [type |-> c.type, target |-> c.target, pos |-> c.pos, extra |-> c.extra]
  BY RequestIsCommand DEF IsCommand
<1>2. CASE s = RightClickAt(c.pos)
  <2>1. s = [type |-> "Right_Click_Position", target |-> Nobody, pos |-> c.pos,
             extra |-> "none"]
    BY <1>2 DEF RightClickAt, Bare
  <2>2. IsCommand(s) /\ s.type = "Right_Click_Position"
    BY <2>1, SomeTypes, MadeCommand
  <2>3. c.type # "Use_Tech_Unit"
    BY <2>2, ZenonT(30) DEF Simplified, RightClickOn, Bare, Toggled
  <2>4. QED
    BY <2>2, <2>3, OthersAreMeant DEF DependentTypes
<1>3. CASE s = RightClickOn(c.target)
  <2>1. s = [type |-> "Right_Click_Unit", target |-> c.target, pos |-> NoPos,
             extra |-> "none"]
    BY <1>3 DEF RightClickOn, Bare
  <2>2. IsCommand(s) /\ s.type = "Right_Click_Unit"
    BY <2>1, SomeTypes, MadeCommand
  <2>3. QED
    BY <2>2, OthersAreMeant DEF DependentTypes
<1>4. CASE s = [c EXCEPT !.type = "Right_Click_Unit"]
  <2>1. s = [type |-> "Right_Click_Unit", target |-> c.target, pos |-> c.pos,
             extra |-> c.extra]
    BY <1>1, <1>4
  <2>2. IsCommand(s) /\ s.type = "Right_Click_Unit"
    BY <2>1, SomeTypes, MadeCommand
  <2>3. QED
    BY <2>2, OthersAreMeant DEF DependentTypes
<1>5. CASE s = [Bare("Train") EXCEPT !.extra = "Interceptor"] /\ c.type = "Train"
           /\ Kind[u] \in Carriers \cup Reavers
  <2>1. s = [type |-> "Train", target |-> Nobody, pos |-> NoPos, extra |-> "Interceptor"]
    BY <1>5 DEF Bare
  <2>2. IsCommand(s)
    BY <2>1, SomeTypes, MadeCommand
  <2>3. Meant(u, s)
    BY <1>5, <2>1 DEF Meant
  <2>4. QED
    BY <1>5, <2>2, <2>3
<1>6. CASE c.type = "Use_Tech"
           /\ \E t \in {"Siege", "Unsiege", "Cloak", "Decloak", "Burrow", "Unburrow"} : s = Bare(t)
  <2>1. PICK t \in {"Siege", "Unsiege", "Cloak", "Decloak", "Burrow", "Unburrow"} : s = Bare(t)
    BY <1>6
  <2>2. s = [type |-> t, target |-> Nobody, pos |-> NoPos, extra |-> "none"]
    BY <2>1 DEF Bare
  <2>3. IsCommand(s) /\ s.type = t
    BY <2>2, SomeTypes, MadeCommand
  <2>4. QED
    BY <1>6, <2>3, OthersAreMeant DEF DependentTypes
<1>7. CASE s = c /\ (c.type = "Use_Tech" => c.extra = "Stim_Packs")
  BY <1>1, <1>7, RequestIsMeant
<1>8. c.type = "Use_Tech" => c.extra \in ToggleTechs \cup {"Stim_Packs"}
  BY RequestsAssumption
<1>9. \/ s = RightClickAt(c.pos)
      \/ s = RightClickOn(c.target)
      \/ s = [c EXCEPT !.type = "Right_Click_Unit"]
      \/ s = [Bare("Train") EXCEPT !.extra = "Interceptor"] /\ c.type = "Train"
         /\ Kind[u] \in Carriers \cup Reavers
      \/ c.type = "Use_Tech"
         /\ \E t \in {"Siege", "Unsiege", "Cloak", "Decloak", "Burrow", "Unburrow"} : s = Bare(t)
      \/ s = c /\ (c.type = "Use_Tech" => c.extra = "Stim_Packs")
  <2> HIDE DEF c
  <2>1. CASE c.type = "Use_Tech"
    BY <2>1, <1>8 DEF Simplified, ToggleTechs, Toggled
  <2>2. CASE c.type # "Use_Tech"
    BY <2>2 DEF Simplified
  <2>3. QED
    BY <2>1, <2>2
<1>10. QED
  BY <1>2, <1>3, <1>4, <1>5, <1>6, <1>7, <1>9

LEMMA RewrittenIsMeant ==
  ASSUME NEW r \in Requests, NEW u \in Doers(r.unit, r.cmd)
  PROVE  IsCommand(Rewritten(u, r.cmd)) /\ Meant(u, Rewritten(u, r.cmd))
<1> DEFINE c == r.cmd
           s == Simplified(u, c)
           a == Aligned(c, s)
<1>1. /\ IsCommand(s) /\ Meant(u, s) /\ s.type \in Types
      /\ s = [type |-> s.type, target |-> s.target, pos |-> s.pos, extra |-> s.extra]
      /\ c.type = "Use_Tech_Unit" => s.type \in {"Use_Tech_Unit", "Right_Click_Unit"}
  BY SimplifiedIsMeant DEF IsCommand
<1>2. c.type \in Types
  BY RequestIsCommand DEF IsCommand
<1>3. IsCommand(a) /\ Meant(u, a)
  <2> HIDE DEF s, c
  <2> DEFINE spot == IF c.type = "Use_Tech_Unit" /\ s.extra \in AreaTechs /\ c.target # Nobody
                     THEN [s EXCEPT !.type = "Use_Tech_Position", !.target = Nobody,
                                    !.pos = TargetPos[c.target]]
                     ELSE s
  <2>1. a = IF c.type \in PositionTypes
            THEN [spot EXCEPT !.type = c.type, !.target = c.target,
                              !.pos = spot.pos - (spot.pos % Cell)]
            ELSE IF c.type = "Use_Tech_Unit" /\ spot.extra \in Merges
                 THEN [spot EXCEPT !.target = Nobody, !.pos = NoPos]
                 ELSE spot
    BY DEF Aligned
  <2>2. /\ spot = [type |-> spot.type, target |-> spot.target, pos |-> spot.pos,
                   extra |-> spot.extra]
        /\ spot.type \in Types
        /\ spot = s \/ spot.type = "Use_Tech_Position"
        /\ c.type = "Use_Tech_Unit" => spot.type \notin DependentTypes
    BY <1>1, SomeTypes DEF DependentTypes
  <2> HIDE DEF spot, a
  <2>3. CASE c.type \in PositionTypes
    <3>1. a = [type |-> c.type, target |-> c.target, pos |-> spot.pos - (spot.pos % Cell),
               extra |-> spot.extra]
      BY <2>1, <2>2, <2>3
    <3>2. IsCommand(a) /\ a.type = c.type
      BY <3>1, <1>2, MadeCommand
    <3>3. QED
      BY <3>2, <2>3, OthersAreMeant DEF PositionTypes, DependentTypes
  <2>4. CASE c.type = "Use_Tech_Unit" /\ spot.extra \in Merges
    <3>1. a = [type |-> spot.type, target |-> Nobody, pos |-> NoPos, extra |-> spot.extra]
      BY <2>1, <2>2, <2>4 DEF PositionTypes
    <3>2. IsCommand(a) /\ a.type = spot.type
      BY <3>1, <2>2, MadeCommand
    <3>3. QED
      BY <3>2, <2>2, <2>4, OthersAreMeant
  <2>5. CASE c.type \notin PositionTypes /\ ~(c.type = "Use_Tech_Unit" /\ spot.extra \in Merges)
    <3>1. a = spot
      BY <2>1, <2>5
    <3>2. CASE spot = s
      BY <3>1, <3>2, <1>1
    <3>3. CASE spot.type = "Use_Tech_Position"
      BY <3>1, <3>3, <2>2, OthersAreMeant DEF IsCommand, DependentTypes
    <3>4. QED
      BY <3>2, <3>3, <2>2
  <2>6. QED
    BY <2>3, <2>4, <2>5
<1>4. QED
  BY <1>1, <1>3 DEF Rewritten

\* Fighters are trained by carriers and reavers, other kinds in one way.
LEMMA SameTrainer ==
  ASSUME NEW u \in Units, NEW v \in Units, NEW c, c.type = "Train", Meant(u, c), Meant(v, c)
  PROVE  ByTrainer(u) = ByTrainer(v)
<1>1. ASSUME NEW w \in Units, Meant(w, c), c.extra = "Interceptor"
      PROVE  ByTrainer(w) = "TrainFighter"
  <2>1. Kind[w] \in Carriers \cup Reavers
    <3>1. CASE \E r \in Requests :
                 r.cmd.type = "Train" /\ r.cmd.extra = c.extra /\ w \in Doers(r.unit, r.cmd)
      <4>1. PICK r \in Requests :
                 r.cmd.type = "Train" /\ r.cmd.extra = c.extra /\ w \in Doers(r.unit, r.cmd)
        BY <3>1
      <4>2. Kind[r.unit] \in Carriers \cup Reavers
        BY <4>1, <1>1, RequestsAssumption
      <4>3. QED
        BY <4>1, <4>2, DoersAreUnits DEF Carriers, Reavers
    <3>2. QED
      BY <1>1, <3>1 DEF Meant
  <2>2. w # Nobody
    BY UnitsAssumption
  <2>3. QED
    BY <2>1, <2>2 DEF ByTrainer, KindOf, Carriers, Reavers
<1>2. CASE c.extra = "Interceptor"
  BY <1>1, <1>2
<1>3. CASE c.extra # "Interceptor"
  <2>1. PICK r \in Requests :
          r.cmd.type = "Train" /\ r.cmd.extra = c.extra /\ u \in Doers(r.unit, r.cmd)
    BY <1>3 DEF Meant
  <2>2. PICK q \in Requests :
          q.cmd.type = "Train" /\ q.cmd.extra = c.extra /\ v \in Doers(q.unit, q.cmd)
    BY <1>3 DEF Meant
  <2>3. QED
    BY <2>1, <2>2, AlikeAssumption
<1>4. QED
  BY <1>2, <1>3

LEMMA SameLoader ==
  ASSUME NEW u \in Units, NEW v \in Units, NEW c, c.type = "Load", Meant(u, c), Meant(v, c),
         Kind[u] \in Buildings <=> Kind[v] \in Buildings
  PROVE  ByLoader(u) = ByLoader(v)
<1>1. PICK r \in Requests :
        r.cmd.type = "Load" /\ r.cmd.target = c.target /\ u \in Doers(r.unit, r.cmd)
  BY DEF Meant
<1>2. PICK q \in Requests :
        q.cmd.type = "Load" /\ q.cmd.target = c.target /\ v \in Doers(q.unit, q.cmd)
  BY DEF Meant
<1>3. QED
  BY <1>1, <1>2, AlikeAssumption

SentByName == {"Attack_Unit", "Attack_Move", "Stop", "Unload_All"}

\* A unit gets its own order from a list: the units of its group are of its kind
\* where the order depends on that, and the front is named where it matters.
LEMMA SameOrderInList ==
  ASSUME NEW u \in Units, NEW v \in Units, NEW c, Meant(u, c), Meant(v, c),
         Oddity(u, c.type) = Oddity(v, c.type),
         Kind[u] \in Buildings \/ c.type \notin SentByName
  PROVE  Order(IF NamesFront(c.type) THEN v ELSE Nobody, c) = Order(u, c)
<1>1. u # Nobody /\ v # Nobody /\ KindOf(u) = Kind[u] /\ KindOf(v) = Kind[v]
      /\ KindOf(Nobody) = "None"
  BY UnitsAssumption DEF KindOf
<1>2. CASE c.type = "Attack_Unit"
  <2>1. Kind[u] \in Buildings /\ Kind[v] \in Buildings
    BY <1>2 DEF SentByName, Oddity
  <2>2. OrderName(u, c) = "TowerAttack" /\ OrderName(v, c) = "TowerAttack"
    BY <1>1, <1>2, <2>1 DEF OrderName, Buildings, Carriers, Reavers
  <2>3. QED
    BY <1>2, <2>2 DEF Order, NamesFront
<1>3. CASE c.type = "Attack_Move"
  <2>1. Kind[u] \in Buildings
    BY <1>3 DEF SentByName
  <2>2. OrderName(u, c) = "AttackMove" /\ OrderName(Nobody, c) = "AttackMove"
    BY <1>1, <1>3, <2>1 DEF OrderName, Buildings
  <2>3. QED
    BY <1>3, <2>2 DEF Order, NamesFront
<1>4. CASE c.type = "Stop"
  <2>1. Kind[u] \in Buildings
    BY <1>4 DEF SentByName
  <2>2. OrderName(u, c) = "Stop" /\ OrderName(Nobody, c) = "Stop"
    BY <1>1, <1>4, <2>1 DEF OrderName, Buildings, Carriers, Reavers
  <2>3. QED
    BY <1>4, <2>2 DEF Order, NamesFront
<1>5. CASE c.type = "Unload_All"
  <2>1. Kind[u] = "Bunker" /\ Kind[v] = "Bunker"
    BY <1>5 DEF SentByName, Oddity, Meant
  <2>2. OrderName(u, c) = "UnloadAll" /\ OrderName(v, c) = "UnloadAll"
    BY <1>1, <1>5, <2>1 DEF OrderName
  <2>3. QED
    BY <1>5, <2>2 DEF Order, NamesFront
<1>6. CASE c.type = "Train"
  <2>1. OrderName(u, c) = OrderName(v, c)
    BY <1>6, SameTrainer DEF OrderName
  <2>2. QED
    BY <1>6, <2>1 DEF Order, NamesFront
<1>7. CASE c.type = "Load"
  <2>1. Kind[u] \in Buildings <=> Kind[v] \in Buildings
    BY <1>7 DEF Oddity
  <2>2. OrderName(u, c) = OrderName(v, c)
    BY <1>7, <2>1, SameLoader DEF OrderName
  <2>3. QED
    BY <1>7, <2>2 DEF Order, NamesFront
<1>8. CASE c.type = "Cancel_Morph"
  <2>1. OrderName(u, c) = OrderName(v, c)
    BY <1>1, <1>8 DEF OrderName, Oddity
  <2>2. QED
    BY <1>8, <2>1 DEF Order, NamesFront
<1>9. CASE c.type = "Use_Tech"
  <2>1. c.extra = "Stim_Packs"
    BY <1>9 DEF Meant
  <2>2. OrderName(u, c) = OrderName(v, c)
    BY <1>9, <2>1 DEF OrderName, ByTech
  <2>3. QED
    BY <1>9, <2>2 DEF Order, NamesFront
<1>10. CASE c.type \notin SentByName \cup DependentTypes \cup {"Cancel_Morph"}
  <2>1. OrderName(u, c) = OrderName(Nobody, c)
    BY <1>10 DEF OrderName, SentByName, DependentTypes
  <2>2. QED
    BY <1>10, <2>1 DEF Order, NamesFront, SentByName, DependentTypes
<1>11. QED
  BY <1>2, <1>3, <1>4, <1>5, <1>6, <1>7, <1>8, <1>9, <1>10 DEF SentByName, DependentTypes

LEMMA InSetIsMeant ==
  ASSUME NEW u, NEW c, InSet(u, c)
  PROVE  /\ u \in Units /\ IsCommand(c) /\ c.type \notin NeverGrouped
         /\ Kind[u] \notin Buildings
         /\ c.type # "Use_Tech" => Meant(u, c)
<1> DEFINE r == [unit |-> u, cmd |-> c]
<1>1. r \in Requests /\ r.unit = u /\ r.cmd = c
  BY DEF InSet
<1>2. u \in Doers(u, c)
  BY DEF InSet, Doers, Buildings
<1>3. QED
  BY <1>1, <1>2, RequestIsCommand, RequestIsMeant, RequestsAssumption DEF InSet

\* The first unit of a set names the order for all of them.
LEMMA SameOrderInSet ==
  ASSUME NEW u, NEW v, NEW c, InSet(u, c), InSet(v, c), c.type \notin SentByName \cup {"Use_Tech"}
  PROVE  Order(v, c) = Order(u, c)
<1>1. /\ u \in Units /\ v \in Units /\ Meant(u, c) /\ Meant(v, c)
      /\ Kind[u] \notin Buildings /\ Kind[v] \notin Buildings
  BY InSetIsMeant
<1>2. KindOf(u) = Kind[u] /\ KindOf(v) = Kind[v]
  BY <1>1, UnitsAssumption DEF KindOf
<1>3. OrderName(u, c) = OrderName(v, c)
  <2>1. CASE c.type = "Train"
    BY <1>1, <2>1, SameTrainer DEF OrderName
  <2>2. CASE c.type = "Load"
    BY <1>1, <2>2, SameLoader DEF OrderName
  <2>3. CASE c.type = "Cancel_Morph"
    BY <1>1, <1>2, <2>3 DEF OrderName
  <2>4. CASE c.type \notin SentByName \cup DependentTypes \cup {"Cancel_Morph"}
    BY <2>4 DEF OrderName, SentByName, DependentTypes
  <2>5. QED
    BY <2>1, <2>2, <2>3, <2>4 DEF SentByName, DependentTypes
<1>4. QED
  BY <1>3 DEF Order, SentByName

-----------------------------------------------------------------------------
(* What the operations do to the histories.                                 *)

LEMMA OrderStays ==
  ASSUME mode' = mode
  PROVE  /\ \A u, c : Order(u, c)' = Order(u, c)
         /\ \A u, t : Oddity(u, t)' = Oddity(u, t)
<1>1. \A u, t : Oddity(u, t)' = Oddity(u, t)
  BY DEF Oddity
<1>2. \A u, t : ByTech(u, t)' = ByTech(u, t)
  BY DEF ByTech
<1>3. \A u, c : OrderName(u, c)' = OrderName(u, c)
  BY <1>2 DEF OrderName
<1>4. QED
  BY <1>1, <1>3 DEF Order

\* Some units are given a command, some get an order, which is theirs.
GivesTo(us, e) ==
  \A u \in Units : given'[u] = IF u \in us THEN Append(given[u], e) ELSE given[u]

SendsTo(vs, f) ==
  \A u \in Units : received'[u] = IF u \in vs THEN Append(received[u], f) ELSE received[u]

IsOwn(us, e, vs, f) ==
  /\ \A u \in us \cap Units : WasTold(u, e)
  /\ \A u \in vs \cap Units :
       /\ f.way \in Ways /\ f.cmd.type \in Types
       /\ IF f.way = "alone" THEN u \in us /\ e = f
          ELSE DependsOnFront(u, f) \/ f.order = Order(u, f.cmd)

LEMMA GivenEffect ==
  ASSUME OptimizerShape, NEW us, NEW front, NEW c0, NEW w0,
         given' = Given(us, front, c0, w0)
  PROVE  /\ DOMAIN given' = Units
         /\ GivesTo(us, [cmd |-> c0, order |-> Order(front, c0), way |-> w0])
         /\ \A u \in Units : IsSeq(given'[u])
         /\ \A u \in Units : \A c, w :
              Due(u, c, w)' = Due(u, c, w) + (IF u \in us /\ c = c0 /\ w = w0 THEN 1 ELSE 0)
<1> DEFINE e == [cmd |-> c0, order |-> Order(front, c0), way |-> w0]
<1>1. DOMAIN given' = Units
      /\ \A u \in Units : given'[u] = IF u \in us THEN Append(given[u], e) ELSE given[u]
  BY DEF Given
<1>2. \A u \in Units : IsSeq(given[u])
  BY DEF OptimizerShape
<1> HIDE DEF e
<1>3. \A u \in Units : IsSeq(given'[u])
  <2> SUFFICES ASSUME NEW u \in Units PROVE IsSeq(given'[u])
    OBVIOUS
  <2>1. IsSeq(Append(given[u], e))
    BY <1>2, AppendedIsSeq
  <2>2. QED
    BY <1>1, <1>2, <2>1
<1>4. ASSUME NEW u \in Units, NEW c, NEW w
      PROVE  Due(u, c, w)' = Due(u, c, w) + (IF u \in us /\ c = c0 /\ w = w0 THEN 1 ELSE 0)
  <2>1. Due(u, c, w)' = Cardinality(Hits(given'[u], c, w))
    BY DEF Due, Hits
  <2>2. Cardinality(Hits(given[u], c, w)) \in Nat
    BY <1>2, HitsCount
  <2>3. CASE u \in us
    <3>1. Cardinality(Hits(Append(given[u], e), c, w)) =
            Cardinality(Hits(given[u], c, w)) + (IF e.cmd = c /\ e.way = w THEN 1 ELSE 0)
      BY <1>2, HitsAppended
    <3>2. e.cmd = c0 /\ e.way = w0
      BY DEF e
    <3>3. given'[u] = Append(given[u], e)
      BY <1>1, <2>3
    <3>4. QED
      BY <2>1, <2>3, <3>1, <3>2, <3>3 DEF Due
  <2>4. CASE u \notin us
    BY <1>1, <2>1, <2>2, <2>4 DEF Due
  <2>5. QED
    BY <2>3, <2>4
<1>5. GivesTo(us, e)
  BY <1>1 DEF GivesTo
<1>6. QED
  BY <1>1, <1>3, <1>4, <1>5 DEF e

LEMMA GotEffect ==
  ASSUME OptimizerShape, NEW us, NEW front, NEW c0, NEW w0,
         received' = Got(us, front, c0, w0)
  PROVE  /\ DOMAIN received' = Units
         /\ SendsTo(Selected(us), [cmd |-> c0, order |-> Order(front, c0), way |-> w0])
         /\ \A u \in Units : IsSeq(received'[u])
         /\ \A u \in Units : \A c, w :
              Sent(u, c, w)' =
                Sent(u, c, w) + (IF u \in Selected(us) /\ c = c0 /\ w = w0 THEN 1 ELSE 0)
<1> DEFINE e == [cmd |-> c0, order |-> Order(front, c0), way |-> w0]
           vs == Selected(us)
<1>1. DOMAIN received' = Units
      /\ \A u \in Units : received'[u] = IF u \in vs THEN Append(received[u], e) ELSE received[u]
  BY DEF Got
<1>2. \A u \in Units : IsSeq(received[u])
  BY DEF OptimizerShape
<1> HIDE DEF e, vs
<1>3. \A u \in Units : IsSeq(received'[u])
  <2> SUFFICES ASSUME NEW u \in Units PROVE IsSeq(received'[u])
    OBVIOUS
  <2>1. IsSeq(Append(received[u], e))
    BY <1>2, AppendedIsSeq
  <2>2. QED
    BY <1>1, <1>2, <2>1
<1>4. ASSUME NEW u \in Units, NEW c, NEW w
      PROVE  Sent(u, c, w)' = Sent(u, c, w) + (IF u \in vs /\ c = c0 /\ w = w0 THEN 1 ELSE 0)
  <2>1. Sent(u, c, w)' = Cardinality(Hits(received'[u], c, w))
    BY DEF Sent, Hits
  <2>2. Cardinality(Hits(received[u], c, w)) \in Nat
    BY <1>2, HitsCount
  <2>3. CASE u \in vs
    <3>1. Cardinality(Hits(Append(received[u], e), c, w)) =
            Cardinality(Hits(received[u], c, w)) + (IF e.cmd = c /\ e.way = w THEN 1 ELSE 0)
      BY <1>2, HitsAppended
    <3>2. e.cmd = c0 /\ e.way = w0
      BY DEF e
    <3>3. received'[u] = Append(received[u], e)
      BY <1>1, <2>3
    <3>4. QED
      BY <2>1, <2>3, <3>1, <3>2, <3>3 DEF Sent
  <2>4. CASE u \notin vs
    BY <1>1, <2>1, <2>2, <2>4 DEF Sent
  <2>5. QED
    BY <2>3, <2>4
<1>5. SendsTo(vs, e)
  BY <1>1 DEF SendsTo
<1>6. QED
  BY <1>1, <1>3, <1>4, <1>5 DEF e, vs

\* A selection holds all units of a list that is no longer than a group.
LEMMA AllSelected ==
  ASSUME NEW us, IsSeq(us), Len(us) <= GroupMax
  PROVE  Selected(us) = Range(us)
  BY GroupMaxAssumption DEF Selected, IsSeq, Range

LEMMA FewAreSelected ==
  ASSUME NEW a, NEW b
  PROVE  Selected(<<a>>) = Range(<<a>>) /\ Selected(<<a, b>>) = Range(<<a, b>>)
<1>1. <<a>> \in Seq({a}) /\ Len(<<a>>) = 1
  OBVIOUS
<1>2. <<a, b>> \in Seq({a, b}) /\ Len(<<a, b>>) = 2
  OBVIOUS
<1>3. IsSeq(<<a>>) /\ Len(<<a>>) <= GroupMax
  <2>1. IsSeq(<<a>>)
    BY <1>1, ListIsSeq, Zenon
  <2>2. QED
    BY <1>1, <2>1, GroupMaxAssumption
<1>4. IsSeq(<<a, b>>) /\ Len(<<a, b>>) <= GroupMax
  <2>1. IsSeq(<<a, b>>)
    BY <1>2, ListIsSeq, Zenon
  <2>2. QED
    BY <1>2, <2>1, GroupMaxAssumption
<1>5. QED
  BY <1>3, <1>4, AllSelected

LEMMA OwnStep ==
  ASSUME OptimizerShape, OrdersAreOwn, mode' = mode, NEW us, NEW e, NEW vs, NEW f,
         GivesTo(us, e), SendsTo(vs, f), IsOwn(us, e, vs, f)
  PROVE  OrdersAreOwn'
<1> USE DEF GivesTo, SendsTo, IsOwn
<1>1. \A u, c : Order(u, c)' = Order(u, c)
  BY OrderStays
<1>2. \A u \in Units : IsSeq(given[u]) /\ IsSeq(received[u])
  BY DEF OptimizerShape
<1>3. ASSUME NEW l, IsSeq(l), NEW x
      PROVE  /\ \A j \in DOMAIN l : j \in DOMAIN Append(l, x) /\ Append(l, x)[j] = l[j]
             /\ \A j \in DOMAIN Append(l, x) :
                  \/ j \in DOMAIN l /\ Append(l, x)[j] = l[j]
                  \/ Append(l, x)[j] = x
             /\ \E j \in DOMAIN Append(l, x) : Append(l, x)[j] = x
  <2>1. /\ DOMAIN Append(l, x) = DOMAIN l \cup {Len(l) + 1}
        /\ Append(l, x)[Len(l) + 1] = x
        /\ \A i \in DOMAIN l : Append(l, x)[i] = l[i]
    BY <1>3, AppendedIsSeq
  <2>2. QED
    BY <2>1
<1>4. ASSUME NEW u \in Units, NEW j \in DOMAIN given[u]
      PROVE  j \in DOMAIN given'[u] /\ given'[u][j] = given[u][j]
  <2>1. CASE u \in us
    <3>1. j \in DOMAIN Append(given[u], e) /\ Append(given[u], e)[j] = given[u][j]
      BY <1>2, <1>3
    <3>2. QED
      BY <2>1, <3>1
  <2>2. CASE u \notin us
    BY <2>2
  <2>3. QED
    BY <2>1, <2>2
<1>5. ASSUME NEW u \in Units, NEW j \in DOMAIN given'[u]
      PROVE  WasTold(u, given[u][j])'
  <2>1. \/ j \in DOMAIN given[u] /\ given'[u][j] = given[u][j]
        \/ u \in us /\ given'[u][j] = e
    <3>1. CASE u \in us
      <4>1. given'[u] = Append(given[u], e)
        BY <3>1
      <4>2. j \in DOMAIN Append(given[u], e)
        BY <4>1
      <4>3. \/ j \in DOMAIN given[u] /\ Append(given[u], e)[j] = given[u][j]
            \/ Append(given[u], e)[j] = e
        BY <1>2, <1>3, <4>2
      <4>4. QED
        BY <3>1, <4>1, <4>3
    <3>2. CASE u \notin us
      BY <3>2
    <3>3. QED
      BY <3>1, <3>2
  <2>2. WasTold(u, given'[u][j])
    <3>1. CASE j \in DOMAIN given[u] /\ given'[u][j] = given[u][j]
      BY <3>1 DEF OrdersAreOwn
    <3>2. CASE u \in us /\ given'[u][j] = e
      BY <3>2
    <3>3. QED
      BY <2>1, <3>1, <3>2
  <2>3. PICK g : g = given'[u][j]
    OBVIOUS
  <2>4. WasTold(u, g)'
    BY <1>1, <2>2, <2>3 DEF WasTold
  <2>5. QED
    BY <2>3, <2>4 DEF WasTold
<1>6. ASSUME NEW u \in Units, NEW r, Obeyed(u, r)
      PROVE  Obeyed(u, r)'
  <2>1. CASE r.way = "alone"
    <3>1. PICK j \in DOMAIN given[u] : given[u][j] = r
      BY <1>6, <2>1 DEF Obeyed
    <3>2. j \in DOMAIN given'[u] /\ given'[u][j] = r
      BY <1>4, <3>1
    <3>3. \E k \in DOMAIN given'[u] : given'[u][k] = r
      BY <3>2
    <3>4. QED
      BY <1>6, <2>1, <3>3 DEF Obeyed
  <2>2. CASE r.way # "alone"
    BY <1>1, <1>6, <2>2 DEF Obeyed
  <2>3. QED
    BY <2>1, <2>2
<1>7. ASSUME NEW u \in Units, u \in vs
      PROVE  Obeyed(u, f)'
  <2>1. CASE f.way = "alone"
    <3>1. u \in us /\ e = f /\ given'[u] = Append(given[u], f)
      BY <1>7, <2>1
    <3>2. \E k \in DOMAIN given'[u] : given'[u][k] = f
      BY <1>2, <1>3, <3>1
    <3>3. QED
      BY <1>7, <2>1, <3>2 DEF Obeyed
  <2>2. CASE f.way # "alone"
    BY <1>1, <1>7, <2>2 DEF Obeyed
  <2>3. QED
    BY <2>1, <2>2
<1>8. ASSUME NEW u \in Units, NEW i \in DOMAIN received'[u]
      PROVE  Obeyed(u, received[u][i])'
  <2>1. PICK r : r = received'[u][i]
    OBVIOUS
  <2>2. \/ i \in DOMAIN received[u] /\ r = received[u][i]
        \/ u \in vs /\ r = f
    <3>1. CASE u \in vs
      <4>1. received'[u] = Append(received[u], f)
        BY <3>1
      <4>2. i \in DOMAIN Append(received[u], f)
        BY <4>1
      <4>3. \/ i \in DOMAIN received[u] /\ Append(received[u], f)[i] = received[u][i]
            \/ Append(received[u], f)[i] = f
        BY <1>2, <1>3, <4>2
      <4>4. QED
        BY <2>1, <3>1, <4>1, <4>3
    <3>2. CASE u \notin vs
      BY <2>1, <3>2
    <3>3. QED
      BY <3>1, <3>2
  <2>3. Obeyed(u, r)'
    <3>1. CASE i \in DOMAIN received[u] /\ r = received[u][i]
      <4>1. Obeyed(u, r)
        BY <3>1 DEF OrdersAreOwn
      <4>2. QED
        BY <4>1, <1>6
    <3>2. CASE u \in vs /\ r = f
      BY <3>2, <1>7
    <3>3. QED
      BY <2>2, <3>1, <3>2
  <2>4. QED
    BY <2>1, <2>3 DEF Obeyed
<1>9. QED
  BY <1>5, <1>8 DEF OrdersAreOwn

\* Counts are numbers.
LEMMA CountsAreNumbers ==
  ASSUME OptimizerShape, NEW u \in Units, NEW w \in Ways, NEW c, c.type \in Types
  PROVE  /\ Sent(u, c, w) \in Nat /\ Due(u, c, w) \in Nat /\ Waits(u, c, w) \in Nat
         /\ InLists(u, c) \in Nat /\ InGroups(u, c) \in Nat /\ InSets(u, c) \in Nat
         /\ \A x : Cardinality(Places(queue[c.type], x)) \in Nat
         /\ \A x : Cardinality(Places(group, x)) \in Nat
         /\ \A x : Cardinality(Places(batch.units, x)) \in Nat
<1>1. IsSeq(given[u]) /\ IsSeq(received[u]) /\ IsSeq(queue[c.type]) /\ IsSeq(group)
      /\ IsSeq(batch.units)
  BY DEF OptimizerShape
<1>2. Sent(u, c, w) \in Nat /\ Due(u, c, w) \in Nat
  BY <1>1, HitsCount DEF Sent, Due
<1>3. \A x : Cardinality(Places(queue[c.type], x)) \in Nat
  BY <1>1, PlacesCount
<1>4. \A x : Cardinality(Places(group, x)) \in Nat
  BY <1>1, PlacesCount
<1>5. \A x : Cardinality(Places(batch.units, x)) \in Nat
  BY <1>1, PlacesCount
<1>6. Waits(u, c, w) \in Nat
  BY <1>3, <1>4, <1>5 DEF Waits, Ways, InLists, InGroups, InSets
<1>7. InLists(u, c) \in Nat /\ InGroups(u, c) \in Nat /\ InSets(u, c) \in Nat
  BY <1>3, <1>4, <1>5 DEF InLists, InGroups, InSets
<1>8. QED
  BY <1>2, <1>3, <1>4, <1>5, <1>6, <1>7

LEMMA NothingInEmpty == \A x : Cardinality(Places(<<>>, x)) = 0
<1>1. \A x : Places(<<>>, x) = {}
  BY DEF Places
<1>2. QED
  BY <1>1, FS_EmptySet

LEMMA DueEffect ==
  ASSUME OptimizerShape, NEW us, NEW e, GivesTo(us, e), NEW u \in Units, NEW c, NEW w
  PROVE  Due(u, c, w)' = Due(u, c, w) + (IF u \in us /\ e.cmd = c /\ e.way = w THEN 1 ELSE 0)
<1>1. IsSeq(given[u])
  BY DEF OptimizerShape
<1>2. given'[u] = IF u \in us THEN Append(given[u], e) ELSE given[u]
  BY DEF GivesTo
<1>3. Due(u, c, w)' = Cardinality(Hits(given'[u], c, w))
  BY DEF Due, Hits
<1>4. Cardinality(Hits(given[u], c, w)) \in Nat
  BY <1>1, HitsCount
<1>5. Cardinality(Hits(Append(given[u], e), c, w)) =
        Cardinality(Hits(given[u], c, w)) + (IF e.cmd = c /\ e.way = w THEN 1 ELSE 0)
  BY <1>1, HitsAppended
<1>6. CASE u \in us
  BY <1>2, <1>3, <1>5, <1>6 DEF Due
<1>7. CASE u \notin us
  BY <1>2, <1>3, <1>4, <1>7 DEF Due
<1>8. QED
  BY <1>6, <1>7

LEMMA SentEffect ==
  ASSUME OptimizerShape, NEW us, NEW e, SendsTo(us, e), NEW u \in Units, NEW c, NEW w
  PROVE  Sent(u, c, w)' = Sent(u, c, w) + (IF u \in us /\ e.cmd = c /\ e.way = w THEN 1 ELSE 0)
<1>1. IsSeq(received[u])
  BY DEF OptimizerShape
<1>2. received'[u] = IF u \in us THEN Append(received[u], e) ELSE received[u]
  BY DEF SendsTo
<1>3. Sent(u, c, w)' = Cardinality(Hits(received'[u], c, w))
  BY DEF Sent, Hits
<1>4. Cardinality(Hits(received[u], c, w)) \in Nat
  BY <1>1, HitsCount
<1>5. Cardinality(Hits(Append(received[u], e), c, w)) =
        Cardinality(Hits(received[u], c, w)) + (IF e.cmd = c /\ e.way = w THEN 1 ELSE 0)
  BY <1>1, HitsAppended
<1>6. CASE u \in us
  BY <1>2, <1>3, <1>5, <1>6 DEF Sent
<1>7. CASE u \notin us
  BY <1>2, <1>3, <1>4, <1>7 DEF Sent
<1>8. QED
  BY <1>6, <1>7

LEMMA InFrontElements ==
  ASSUME NEW l, IsSeq(l), NEW e
  PROVE  \A i \in DOMAIN (<<e>> \o l) :
           \/ (<<e>> \o l)[i] = e
           \/ \E j \in DOMAIN l : (<<e>> \o l)[i] = l[j]
<1>1. l \in Seq(Range(l)) /\ <<e>> \in Seq({e}) /\ DOMAIN l = 1 .. Len(l) /\ Len(l) \in Nat
  BY DEF IsSeq
<1>2. <<e>> \o l \in Seq({e} \cup Range(l))
  BY <1>1
<1>3. \A i \in DOMAIN (<<e>> \o l) : (<<e>> \o l)[i] \in {e} \cup Range(l)
  BY <1>2
<1>4. QED
  BY <1>3 DEF Range

-----------------------------------------------------------------------------
(* The accounts.                                                            *)

\* What a step may do to the account of a command: nothing, one more that is due
\* and waits or is sent, or one sent to a unit that waited for one or more.
Accounted(u, c, w) ==
  LET before == Sent(u, c, w) + Waits(u, c, w)
      after == Sent(u, c, w)' + Waits(u, c, w)'
  IN \/ after = before /\ Due(u, c, w)' = Due(u, c, w)
     \/ after = before + 1 /\ Due(u, c, w)' = Due(u, c, w) + 1
     \/ after \in 1 .. before /\ Due(u, c, w)' = Due(u, c, w)

LEMMA AccountStep ==
  ASSUME OptimizerShape, AccountsBalance,
         \A u \in Units, w \in Ways : \A c : c.type \in Types => Accounted(u, c, w)
  PROVE  AccountsBalance'
<1> SUFFICES ASSUME NEW u \in Units, NEW w \in Ways, NEW c, c.type \in Types
             PROVE  Balanced(u, c, w)'
  BY DEF AccountsBalance
<1>1. Balanced(u, c, w) /\ Accounted(u, c, w)
  BY DEF AccountsBalance
<1>2. Sent(u, c, w) \in Nat /\ Waits(u, c, w) \in Nat /\ Due(u, c, w) \in Nat
  BY CountsAreNumbers
<1> DEFINE before == Sent(u, c, w) + Waits(u, c, w)
           after == Sent(u, c, w)' + Waits(u, c, w)'
           due == Due(u, c, w)'
<1>3. /\ before \in Nat /\ before <= Due(u, c, w) /\ (Due(u, c, w) > 0 => before > 0)
      /\ \/ after = before /\ due = Due(u, c, w)
         \/ after = before + 1 /\ due = Due(u, c, w) + 1
         \/ after \in 1 .. before /\ due = Due(u, c, w)
  BY <1>1, <1>2 DEF Balanced, Accounted
<1>4. after <= due /\ (due > 0 => after > 0)
  <2> HIDE DEF before, after, due
  <2>1. CASE after = before /\ due = Due(u, c, w)
    BY <1>3, <2>1
  <2>2. CASE after = before + 1 /\ due = Due(u, c, w) + 1
    BY <1>2, <1>3, <2>2
  <2>3. CASE after \in 1 .. before /\ due = Due(u, c, w)
    BY <1>2, <1>3, <2>3
  <2>4. QED
    BY <1>3, <2>1, <2>2, <2>3
<1>5. QED
  BY <1>4 DEF Balanced

LEMMA WaitsNow ==
  ASSUME NEW u, NEW c
  PROVE  /\ Waits(u, c, "list") = InLists(u, c) + InGroups(u, c)
         /\ Waits(u, c, "set") = InSets(u, c)
         /\ Waits(u, c, "alone") = 0
  BY DEF Waits

LEMMA WaitsNext ==
  ASSUME NEW u, NEW c
  PROVE  /\ Waits(u, c, "list")' = InLists(u, c)' + InGroups(u, c)'
         /\ Waits(u, c, "set")' = InSets(u, c)'
         /\ Waits(u, c, "alone")' = 0
  BY DEF Waits

LEMMA PartsNext ==
  ASSUME NEW u, NEW c
  PROVE  /\ InLists(u, c)' = Cardinality(Places(queue'[c.type], [unit |-> u, cmd |-> c]))
         /\ InGroups(u, c)' = IF leader'.cmd = c THEN Cardinality(Places(group', u)) ELSE 0
         /\ InSets(u, c)' = IF batch'.cmd = c THEN Cardinality(Places(batch'.units, u)) ELSE 0
  BY DEF InLists, InGroups, InSets, Places

LEMMA ListsStay == ASSUME queue' = queue PROVE \A u, c : InLists(u, c)' = InLists(u, c)
  BY DEF InLists, Places

LEMMA GroupStays ==
  ASSUME group' = group, leader' = leader \/ group = <<>>
  PROVE  \A u, c : InGroups(u, c)' = InGroups(u, c)
<1>1. CASE leader' = leader
  BY <1>1 DEF InGroups, Places
<1>2. CASE group = <<>>
  <2>1. \A u, c : InGroups(u, c)' = 0
    BY <1>2, NothingInEmpty, PartsNext
  <2>2. \A u, c : InGroups(u, c) = 0
    BY <1>2, NothingInEmpty DEF InGroups
  <2>3. QED
    BY <2>1, <2>2
<1>3. QED
  BY <1>1, <1>2

LEMMA SetStays ==
  ASSUME \/ batch.units = <<>> /\ batch'.units = <<>>
         \/ batch'.units = batch.units /\ batch'.cmd = batch.cmd
  PROVE  \A u, c : InSets(u, c)' = InSets(u, c)
<1>1. CASE batch'.units = batch.units /\ batch'.cmd = batch.cmd
  BY <1>1 DEF InSets, Places
<1>2. CASE batch.units = <<>> /\ batch'.units = <<>>
  <2>1. \A u, c : InSets(u, c)' = 0
    BY <1>2, NothingInEmpty, PartsNext, ZenonT(30)
  <2>2. \A u, c : InSets(u, c) = 0
    BY <1>2, NothingInEmpty DEF InSets
  <2>3. QED
    BY <2>1, <2>2
<1>3. QED
  BY <1>1, <1>2

LEMMA SentStays == ASSUME received' = received PROVE \A u, c, w : Sent(u, c, w)' = Sent(u, c, w)
  BY DEF Sent, Hits

LEMMA DueStays == ASSUME given' = given PROVE \A u, c, w : Due(u, c, w)' = Due(u, c, w)
  BY DEF Due, Hits

-----------------------------------------------------------------------------
(* A command is taken, or executed at once.                                 *)

\* What IssueTo leaves alone.
OthersStay ==
  /\ phase \in {"ai", "set"} /\ phase' = phase
  /\ UNCHANGED <<cursor, group, leader, mode>>
  /\ batch' = [cmd |-> batch.cmd, left |-> batch'.left, units |-> batch.units]

LEMMA OthersStayShape ==
  ASSUME OthersStay, OptimizerShape,
         DOMAIN queue' = Types, \A t \in Types : IsSeq(queue'[t]),
         DOMAIN given' = Units, \A u \in Units : IsSeq(given'[u]),
         DOMAIN received' = Units, \A u \in Units : IsSeq(received'[u])
  PROVE  OptimizerShape'
<1>1. phase' \in {"ai", "set"}
  BY DEF OthersStay
<1>2. batch'.units = batch.units
      /\ batch' = [cmd |-> batch'.cmd, left |-> batch'.left, units |-> batch'.units]
  BY DEF OthersStay
<1>3. /\ IsSeq(group') /\ Len(group') < GroupMax /\ cursor' \in Nat \ {0}
      /\ IsSeq(batch'.units)
      /\ phase' # "flush" => group' = <<>>
      /\ phase' # "set" => batch'.units = <<>>
  BY <1>2 DEF OptimizerShape, OthersStay
<1>4. QED
  <2>1. /\ \A t \in Types : IsSeq(queue[t])'
        /\ \A u \in Units : IsSeq(given[u])' /\ IsSeq(received[u])'
    BY DEF IsSeq
  <2>2. QED
    BY <1>1, <1>2, <1>3, <2>1 DEF OptimizerShape, IsSeq

LEMMA OthersStayTold ==
  ASSUME OthersStay, OptimizerShape, WaitingWereTold
  PROVE  /\ \A i \in DOMAIN group' : InGroup(group[i], leader.cmd)'
         /\ \A i \in DOMAIN batch'.units : InSet(batch.units[i], batch.cmd)'
<1>1. group' = group /\ leader' = leader /\ batch'.units = batch.units /\ batch'.cmd = batch.cmd
      /\ mode' = mode
  BY DEF OthersStay
<1>2. \A u, t : Oddity(u, t)' = Oddity(u, t)
  BY <1>1, OrderStays
<1>3. QED
  BY <1>1, <1>2 DEF WaitingWereTold, InGroup, InSet

LEMMA TakeStep ==
  ASSUME OptimizerInv, OthersStay, NEW r \in Requests, NEW a \in Doers(r.unit, r.cmd),
         Take(a, r.cmd)
  PROVE  OptimizerInv'
<1> DEFINE d == Rewritten(a, r.cmd)
           x == [unit |-> a, cmd |-> d]
           e == [cmd |-> d, order |-> Order(a, d), way |-> "list"]
<1>1. IsCommand(d) /\ Meant(a, d) /\ a \in Units /\ d.type \in Types
  BY RewrittenIsMeant, DoersAreUnits DEF IsCommand
<1>2. /\ queue' = [queue EXCEPT ![d.type] = <<x>> \o @]
      /\ given' = Given({a}, a, d, "list") /\ received' = received
  BY DEF Take, Queued
<1>3. OptimizerShape /\ WaitingWereTold /\ OrdersAreOwn /\ AccountsBalance
  BY DEF OptimizerInv
<1>4. /\ DOMAIN given' = Units /\ \A u \in Units : IsSeq(given'[u])
      /\ GivesTo({a}, e)
      /\ \A u \in Units : \A c, w :
           Due(u, c, w)' = Due(u, c, w) + (IF u \in {a} /\ c = d /\ w = "list" THEN 1 ELSE 0)
  <2> HIDE DEF d, e
  <2>1. given' = Given({a}, a, d, "list") /\ e = [cmd |-> d, order |-> Order(a, d), way |-> "list"]
    BY <1>2 DEF e
  <2>2. DOMAIN given' = Units /\ \A u \in Units : IsSeq(given'[u])
    BY <1>3, <2>1, GivenEffect
  <2>3. GivesTo({a}, e)
    BY <1>3, <2>1, GivenEffect
  <2>4. QED
    BY <1>3, <2>1, <2>2, <2>3, GivenEffect
<1> HIDE DEF d, x, e
<1>5. DOMAIN queue = Types /\ \A t \in Types : IsSeq(queue[t])
  BY <1>3 DEF OptimizerShape
<1>6. DOMAIN queue' = Types
      /\ \A t \in Types : queue'[t] = IF t = d.type THEN <<x>> \o queue[t] ELSE queue[t]
  BY <1>1, <1>2, <1>5
<1>7. \A t \in Types : IsSeq(queue'[t])
  <2> SUFFICES ASSUME NEW t \in Types PROVE IsSeq(queue'[t])
    OBVIOUS
  <2>1. IsSeq(<<x>> \o queue[t])
    BY <1>5, PlacesInFront
  <2>2. QED
    BY <1>5, <1>6, <2>1
<1>8. OptimizerShape'
  <2>1. DOMAIN received' = Units /\ \A u \in Units : IsSeq(received'[u])
    BY <1>2, <1>3 DEF OptimizerShape
  <2>2. QED
    BY <1>3, <1>4, <1>6, <1>7, <2>1, OthersStayShape
<1>9. WaitingWereTold'
  <2>1. Listed(x, d.type)
    BY <1>1 DEF Listed, x
  <2>2. ASSUME NEW t \in Types, NEW i \in DOMAIN queue'[t]
        PROVE  Listed(queue'[t][i], t)
    <3>1. CASE t = d.type
      <4>1. queue'[t] = <<x>> \o queue[t]
        BY <1>6, <3>1
      <4>2. \/ (<<x>> \o queue[t])[i] = x
            \/ \E j \in DOMAIN queue[t] : (<<x>> \o queue[t])[i] = queue[t][j]
        BY <4>1, <1>5, InFrontElements
      <4>3. CASE queue'[t][i] = x
        BY <4>3, <2>1, <3>1
      <4>4. CASE \E j \in DOMAIN queue[t] : queue'[t][i] = queue[t][j]
        BY <4>4, <1>3 DEF WaitingWereTold
      <4>5. QED
        BY <4>1, <4>2, <4>3, <4>4
    <3>2. CASE t # d.type
      BY <1>3, <1>6, <3>2 DEF WaitingWereTold
    <3>3. QED
      BY <3>1, <3>2
  <2>3. \A t \in Types : \A i \in DOMAIN queue'[t] : Listed(queue[t][i], t)'
    BY <2>2 DEF Listed
  <2>4. QED
    BY <1>3, <2>3, OthersStayTold DEF WaitingWereTold
<1>10. OrdersAreOwn'
  <2>1. SendsTo({}, e)
    BY <1>2 DEF SendsTo
  <2>2. WasTold(a, e)
    BY <1>1 DEF WasTold, e, Ways
  <2>3. IsOwn({a}, e, {}, e)
    BY <2>2 DEF IsOwn
  <2>4. mode' = mode
    BY DEF OthersStay
  <2>5. QED
    BY <1>3, <1>4, <2>1, <2>3, <2>4, OwnStep
<1>11. AccountsBalance'
  <2> SUFFICES ASSUME NEW u \in Units, NEW w \in Ways, NEW c, c.type \in Types
               PROVE  Accounted(u, c, w)
    BY <1>3, AccountStep
  <2> DEFINE y == [unit |-> u, cmd |-> c]
  <2>1. Sent(u, c, w)' = Sent(u, c, w)
        /\ Due(u, c, w)' = Due(u, c, w) + (IF u = a /\ c = d /\ w = "list" THEN 1 ELSE 0)
    BY <1>2, <1>4, SentStays
  <2>2. Cardinality(Places(queue'[c.type], y)) =
          Cardinality(Places(queue[c.type], y)) + (IF x = y THEN 1 ELSE 0)
    <3>1. Cardinality(Places(<<x>> \o queue[c.type], y)) =
            Cardinality(Places(queue[c.type], y)) + (IF x = y THEN 1 ELSE 0)
      BY <1>5, PlacesInFront
    <3>2. c.type # d.type => x # y
      BY DEF x
    <3>3. Cardinality(Places(queue[c.type], y)) \in Nat
      BY <1>3, CountsAreNumbers
    <3>4. queue'[c.type] = IF c.type = d.type THEN <<x>> \o queue[c.type] ELSE queue[c.type]
      BY <1>6
    <3>5. CASE c.type = d.type
      BY <3>1, <3>4, <3>5
    <3>6. CASE c.type # d.type
      BY <3>2, <3>3, <3>4, <3>6
    <3>7. QED
      BY <3>5, <3>6
  <2>3. x = y <=> u = a /\ c = d
    BY DEF x
  <2>4. group' = group /\ leader' = leader /\ batch'.cmd = batch.cmd /\ batch'.units = batch.units
    BY DEF OthersStay
  <2>5. /\ Sent(u, c, w) \in Nat /\ Due(u, c, w) \in Nat /\ Waits(u, c, w) \in Nat
        /\ Cardinality(Places(queue[c.type], y)) \in Nat
        /\ Cardinality(Places(group, u)) \in Nat
    BY <1>3, CountsAreNumbers
  <2> HIDE DEF y
  <2>6. CASE w = "list"
    <3>1. Waits(u, c, "list")' = Waits(u, c, "list") + (IF x = y THEN 1 ELSE 0)
      <4>1. InLists(u, c)' = InLists(u, c) + (IF x = y THEN 1 ELSE 0)
        BY <2>2, PartsNext DEF InLists, y
      <4>2. InGroups(u, c)' = InGroups(u, c)
        BY <2>4, GroupStays
      <4>3. InLists(u, c) \in Nat /\ InGroups(u, c) \in Nat
        BY <2>5 DEF InLists, InGroups, y
      <4>4. QED
        BY <4>1, <4>2, <4>3, WaitsNow, WaitsNext
    <3>2. QED
      BY <2>1, <2>3, <2>5, <2>6, <3>1 DEF Accounted
  <2>7. CASE w # "list"
    <3>1. Waits(u, c, w)' = Waits(u, c, w)
      <4>1. CASE w = "set"
        <5>1. InSets(u, c)' = InSets(u, c)
          BY <2>4, SetStays
        <5>2. QED
          BY <4>1, <5>1, WaitsNow, WaitsNext
      <4>2. CASE w = "alone"
        BY <4>2, WaitsNow, WaitsNext
      <4>3. QED
        BY <2>7, <4>1, <4>2 DEF Ways
    <3>2. QED
      BY <2>1, <2>5, <2>7, <3>1 DEF Accounted
  <2>8. QED
    BY <2>6, <2>7
<1>12. QED
  BY <1>8, <1>9, <1>10, <1>11 DEF OptimizerInv

LEMMA ExecuteStep ==
  ASSUME OptimizerInv, OthersStay, NEW r \in Requests, NEW a \in Doers(r.unit, r.cmd),
         Execute(a, r.cmd)
  PROVE  OptimizerInv'
<1> DEFINE c0 == r.cmd
           us == IF c0.type = "Use_Tech_Unit" /\ c0.extra \in Merges
                 THEN <<a, c0.target>> ELSE <<a>>
           e == [cmd |-> c0, order |-> Order(a, c0), way |-> "alone"]
<1>1. c0.type \in Types
  BY RequestsAssumption
<1>2. queue' = queue /\ given' = Given(Range(us), a, c0, "alone")
      /\ received' = Got(us, a, c0, "alone")
  BY DEF Execute
<1>3. OptimizerShape /\ WaitingWereTold /\ OrdersAreOwn /\ AccountsBalance
  BY DEF OptimizerInv
<1>4. Selected(us) = Range(us)
  BY FewAreSelected
<1> DEFINE vs == Range(us)
<1> HIDE DEF us, c0
<1>5. /\ DOMAIN given' = Units /\ \A u \in Units : IsSeq(given'[u])
      /\ GivesTo(vs, e)
      /\ \A u \in Units : \A c, w :
           Due(u, c, w)' = Due(u, c, w) + (IF u \in vs /\ c = c0 /\ w = "alone" THEN 1 ELSE 0)
  BY <1>2, <1>3, GivenEffect
<1>6. /\ DOMAIN received' = Units /\ \A u \in Units : IsSeq(received'[u])
      /\ SendsTo(vs, e)
      /\ \A u \in Units : \A c, w :
           Sent(u, c, w)' = Sent(u, c, w) + (IF u \in vs /\ c = c0 /\ w = "alone" THEN 1 ELSE 0)
  BY <1>2, <1>3, <1>4, GotEffect
<1> HIDE DEF vs
<1>7. OptimizerShape'
  <2>1. DOMAIN queue' = Types /\ \A t \in Types : IsSeq(queue'[t])
    BY <1>2, <1>3 DEF OptimizerShape
  <2>2. QED
    BY <1>3, <1>5, <1>6, <2>1, OthersStayShape
<1>8. WaitingWereTold'
  <2>1. \A t \in Types : \A i \in DOMAIN queue'[t] : Listed(queue[t][i], t)'
    BY <1>2, <1>3 DEF WaitingWereTold, Listed
  <2>2. QED
    BY <1>3, <2>1, OthersStayTold DEF WaitingWereTold
<1>9. OrdersAreOwn'
  <2>1. e.way = "alone" /\ e.cmd.type \in Types
    BY <1>1
  <2>2. \A u \in vs \cap Units : WasTold(u, e)
    BY <2>1 DEF WasTold, Ways
  <2>3. IsOwn(vs, e, vs, e)
    BY <2>1, <2>2 DEF IsOwn, Ways
  <2>4. mode' = mode
    BY DEF OthersStay
  <2> HIDE DEF e
  <2>5. QED
    BY <1>3, <1>5, <1>6, <2>3, <2>4, OwnStep
<1>10. AccountsBalance'
  <2> SUFFICES ASSUME NEW u \in Units, NEW w \in Ways, NEW c, c.type \in Types
               PROVE  Accounted(u, c, w)
    BY <1>3, AccountStep
  <2>1. group' = group /\ leader' = leader /\ batch'.cmd = batch.cmd /\ batch'.units = batch.units
    BY DEF OthersStay
  <2>2. Waits(u, c, w)' = Waits(u, c, w)
    <3>1. InLists(u, c)' = InLists(u, c)
      BY <1>2, ListsStay
    <3>2. InGroups(u, c)' = InGroups(u, c)
      BY <2>1, GroupStays
    <3>3. InSets(u, c)' = InSets(u, c)
      BY <2>1, SetStays
    <3>4. QED
      BY <3>1, <3>2, <3>3, WaitsNow, WaitsNext DEF Ways
  <2>3. Sent(u, c, w) \in Nat /\ Due(u, c, w) \in Nat /\ Waits(u, c, w) \in Nat
    BY <1>3, CountsAreNumbers
  <2>4. QED
    BY <1>5, <1>6, <2>2, <2>3 DEF Accounted
<1>11. QED
  BY <1>7, <1>8, <1>9, <1>10 DEF OptimizerInv

LEMMA IssueToStep ==
  ASSUME OptimizerInv, OthersStay, NEW r \in Requests, IssueTo(r.unit, r.cmd)
  PROVE  OptimizerInv'
  BY TakeStep, ExecuteStep DEF IssueTo, Actors

LEMMA IssueStep ==
  ASSUME OptimizerInv, NEW r \in Requests, Issue(r.unit, r.cmd)
  PROVE  OptimizerInv'
<1>1. OthersStay
  BY DEF OptimizerInv, OptimizerShape, Issue, OthersStay, flushVars
<1>2. QED
  BY <1>1, IssueToStep DEF Issue

\* A step that sends nothing, and leaves the lists as they are.
QuietBatch ==
  \/ batch.units = <<>> /\ batch'.units = <<>>
  \/ batch'.units = batch.units /\ batch'.cmd = batch.cmd

LEMMA QuietStep ==
  ASSUME OptimizerInv, UNCHANGED <<queue, group, mode, given, received>>,
         leader' = leader \/ group = <<>>, QuietBatch,
         cursor' \in Nat \ {0}, phase' \in {"ai", "set", "flush", "sent"},
         batch' = [cmd |-> batch'.cmd, left |-> batch'.left, units |-> batch'.units],
         phase' # "flush" => group = <<>>,
         phase' # "set" => batch'.units = <<>>,
         phase' = "sent" => \A t \in Types : queue[t] = <<>>
  PROVE  OptimizerInv'
<1>1. OptimizerShape /\ WaitingWereTold /\ OrdersAreOwn /\ AccountsBalance
  BY DEF OptimizerInv
<1>2. IsSeq(batch'.units)
  BY <1>1, EmptyIsSeq DEF QuietBatch, OptimizerShape
<1>3. OptimizerShape'
  BY <1>1, <1>2 DEF OptimizerShape, IsSeq
<1>4. WaitingWereTold'
  <2>1. \A u, t : Oddity(u, t)' = Oddity(u, t)
    BY OrderStays
  <2>2. \A t \in Types : \A i \in DOMAIN queue'[t] : Listed(queue[t][i], t)'
    BY <1>1 DEF WaitingWereTold, Listed
  <2>3. \A i \in DOMAIN group' : InGroup(group[i], leader.cmd)'
    <3>1. CASE leader' = leader
      BY <1>1, <2>1, <3>1 DEF WaitingWereTold, InGroup
    <3>2. CASE group = <<>>
      BY <3>2
    <3>3. QED
      BY <3>1, <3>2
  <2>4. \A i \in DOMAIN batch'.units : InSet(batch.units[i], batch.cmd)'
    <3>1. CASE batch'.units = <<>>
      BY <3>1
    <3>2. CASE batch'.units = batch.units /\ batch'.cmd = batch.cmd
      BY <1>1, <3>2 DEF WaitingWereTold, InSet
    <3>3. QED
      BY <3>1, <3>2 DEF QuietBatch
  <2>5. QED
    BY <2>2, <2>3, <2>4 DEF WaitingWereTold
<1>5. OrdersAreOwn'
  <2>1. GivesTo({}, 0) /\ SendsTo({}, 0) /\ IsOwn({}, 0, {}, 0)
    BY DEF GivesTo, SendsTo, IsOwn
  <2>2. QED
    BY <1>1, <2>1, OwnStep
<1>6. AccountsBalance'
  <2> SUFFICES ASSUME NEW u \in Units, NEW w \in Ways, NEW c, c.type \in Types
               PROVE  Accounted(u, c, w)
    BY <1>1, AccountStep
  <2>1. Sent(u, c, w)' = Sent(u, c, w) /\ Due(u, c, w)' = Due(u, c, w)
    BY SentStays, DueStays
  <2>2. InLists(u, c)' = InLists(u, c) /\ InGroups(u, c)' = InGroups(u, c)
    BY ListsStay, GroupStays
  <2>3. InSets(u, c)' = InSets(u, c)
    BY SetStays DEF QuietBatch
  <2>4. Waits(u, c, w)' = Waits(u, c, w)
    BY <2>2, <2>3, WaitsNow, WaitsNext DEF Ways
  <2>5. QED
    BY <2>1, <2>4 DEF Accounted
<1>7. QED
  BY <1>3, <1>4, <1>5, <1>6 DEF OptimizerInv

\* A step that begins a frame or a match.
LEMMA FreshStep ==
  ASSUME OptimizerInv, phase' = "ai", group = <<>>, batch.units = <<>>,
         UNCHANGED <<group, leader, cursor, batch>>,
         DOMAIN queue' = Types, \A t \in Types : queue'[t] = <<>>,
         given' = Nothing, received' = Nothing
  PROVE  OptimizerInv'
<1>1. OptimizerShape
  BY DEF OptimizerInv
<1>2. /\ DOMAIN given' = Units /\ \A u \in Units : given'[u] = <<>>
      /\ DOMAIN received' = Units /\ \A u \in Units : received'[u] = <<>>
  BY DEF Nothing
<1>3. OptimizerShape'
  <2>1. /\ \A t \in Types : IsSeq(queue'[t])
        /\ \A u \in Units : IsSeq(given'[u]) /\ IsSeq(received'[u])
    BY <1>2, EmptyIsSeq
  <2>2. QED
    BY <1>1, <1>2, <2>1 DEF OptimizerShape, IsSeq
<1>4. WaitingWereTold'
  BY DEF WaitingWereTold
<1>5. OrdersAreOwn'
  BY <1>2 DEF OrdersAreOwn
<1>6. AccountsBalance'
  <2> SUFFICES ASSUME NEW u \in Units, NEW w \in Ways, NEW c, c.type \in Types
               PROVE  Balanced(u, c, w)'
    BY DEF AccountsBalance
  <2>1. Hits(<<>>, c, w) = {}
    BY DEF Hits
  <2>2. Cardinality(Hits(<<>>, c, w)) = 0
    BY <2>1, FS_EmptySet
  <2>3. Sent(u, c, w)' = 0 /\ Due(u, c, w)' = 0
    <3>1. Sent(u, c, w)' = Cardinality(Hits(received'[u], c, w))
          /\ Due(u, c, w)' = Cardinality(Hits(given'[u], c, w))
      BY DEF Sent, Due, Hits
    <3>2. QED
      BY <1>2, <2>2, <3>1
  <2>4. InLists(u, c)' = 0
    <3>1. queue'[c.type] = <<>>
      OBVIOUS
    <3>2. InLists(u, c)' = Cardinality(Places(<<>>, [unit |-> u, cmd |-> c]))
      BY <3>1, PartsNext
    <3>3. QED
      BY <3>2, NothingInEmpty
  <2>5. InGroups(u, c)' = 0 /\ InSets(u, c)' = 0
    <3>1. group' = <<>> /\ batch'.units = <<>> /\ Cardinality(Places(<<>>, u)) = 0
      BY NothingInEmpty
    <3>2. QED
      BY <3>1, PartsNext
  <2>6. Waits(u, c, w)' = 0
    BY <2>4, <2>5, WaitsNext DEF Ways
  <2>7. QED
    BY <2>3, <2>6 DEF Balanced
<1>7. QED
  BY <1>3, <1>4, <1>5, <1>6 DEF OptimizerInv

LEMMA InitOptimizerInv == Init => OptimizerInv
<1> SUFFICES ASSUME Init PROVE OptimizerInv
  OBVIOUS
<1>1. /\ DOMAIN given = Units /\ \A u \in Units : given[u] = <<>>
      /\ DOMAIN received = Units /\ \A u \in Units : received[u] = <<>>
      /\ DOMAIN queue = Types /\ \A t \in Types : queue[t] = <<>>
      /\ group = <<>> /\ batch.units = <<>> /\ phase = "ai"
      /\ cursor = 1 /\ batch = [cmd |-> batch.cmd, left |-> batch.left, units |-> batch.units]
  BY DEF Init, Nothing, EmptyQueue, NoBatch
<1>2. OptimizerShape
  BY <1>1, EmptyIsSeq, GroupMaxAssumption DEF OptimizerShape
<1>3. WaitingWereTold /\ OrdersAreOwn
  BY <1>1 DEF WaitingWereTold, OrdersAreOwn
<1>4. AccountsBalance
  <2> SUFFICES ASSUME NEW u \in Units, NEW w \in Ways, NEW c, c.type \in Types
               PROVE  Balanced(u, c, w)
    BY DEF AccountsBalance
  <2>1. Hits(<<>>, c, w) = {}
    BY DEF Hits
  <2>2. Sent(u, c, w) = 0 /\ Due(u, c, w) = 0
    BY <1>1, <2>1, FS_EmptySet DEF Sent, Due
  <2>3. InLists(u, c) = 0 /\ InGroups(u, c) = 0 /\ InSets(u, c) = 0
    BY <1>1, NothingInEmpty DEF InLists, InGroups, InSets
  <2>4. Waits(u, c, w) = 0
    BY <2>3, WaitsNow DEF Ways
  <2>5. QED
    BY <2>2, <2>4 DEF Balanced
<1>5. QED
  BY <1>2, <1>3, <1>4 DEF OptimizerInv

-----------------------------------------------------------------------------
(* A set of units.                                                          *)

\* A unit of the set waits for the order of its group.
LEMMA JoinSetStep ==
  ASSUME OptimizerInv, phase = "set", NEW u0 \in Units, CanGroup(u0, batch.cmd),
         given' = Given({u0}, u0, batch.cmd, "set"),
         batch' = [cmd |-> batch.cmd, left |-> batch'.left, units |-> Append(batch.units, u0)],
         UNCHANGED <<phase, queue, cursor, group, leader, mode, received>>
  PROVE  OptimizerInv'
<1> DEFINE c0 == batch.cmd
           e == [cmd |-> c0, order |-> Order(u0, c0), way |-> "set"]
<1>1. OptimizerShape /\ WaitingWereTold /\ OrdersAreOwn /\ AccountsBalance
  BY DEF OptimizerInv
<1>2. [unit |-> u0, cmd |-> c0] \in Requests /\ InSet(u0, c0)
  BY DEF CanGroup, Legal, InSet
<1>3. c0.type \in Types
  BY <1>2, InSetIsMeant DEF IsCommand
<1>4. DOMAIN given' = Units /\ \A u \in Units : IsSeq(given'[u])
  BY <1>1, GivenEffect
<1>5. GivesTo({u0}, e)
  BY <1>1, GivenEffect
<1>a. \A u \in Units : \A c, w :
        Due(u, c, w)' = Due(u, c, w) + (IF u = u0 /\ c = c0 /\ w = "set" THEN 1 ELSE 0)
  <2> SUFFICES ASSUME NEW u \in Units, NEW c, NEW w
               PROVE  Due(u, c, w)' =
                        Due(u, c, w) + (IF u = u0 /\ c = c0 /\ w = "set" THEN 1 ELSE 0)
    OBVIOUS
  <2>1. e.cmd = c0 /\ e.way = "set"
    OBVIOUS
  <2> HIDE DEF e
  <2>2. Due(u, c, w)' =
          Due(u, c, w) + (IF u \in {u0} /\ e.cmd = c /\ e.way = w THEN 1 ELSE 0)
    BY <1>1, <1>5, DueEffect
  <2>3. QED
    BY <2>1, <2>2
<1>6. IsSeq(batch.units) /\ IsSeq(batch'.units) /\ batch'.units = Append(batch.units, u0)
      /\ batch'.cmd = c0
  <2>1. IsSeq(batch.units)
    BY <1>1 DEF OptimizerShape
  <2>2. IsSeq(Append(batch.units, u0))
    BY <2>1, AppendedIsSeq
  <2>3. batch'.units = Append(batch.units, u0) /\ batch'.cmd = c0
    <3>1. [cmd |-> batch.cmd, left |-> batch'.left, units |-> Append(batch.units, u0)].units
            = Append(batch.units, u0)
      OBVIOUS
    <3>2. QED
      BY <3>1
  <2>4. QED
    BY <2>1, <2>2, <2>3
<1>7. OptimizerShape'
  BY <1>1, <1>4, <1>6 DEF OptimizerShape, IsSeq
<1>8. WaitingWereTold'
  <2>1. \A u, t : Oddity(u, t)' = Oddity(u, t)
    BY OrderStays
  <2>2. \A t \in Types : \A i \in DOMAIN queue'[t] : Listed(queue[t][i], t)'
    BY <1>1 DEF WaitingWereTold, Listed
  <2>3. \A i \in DOMAIN group' : InGroup(group[i], leader.cmd)'
    BY <1>1, <2>1 DEF WaitingWereTold, InGroup
  <2>4. \A i \in DOMAIN batch'.units : InSet(batch'.units[i], c0)
    <3> SUFFICES ASSUME NEW i \in DOMAIN batch'.units PROVE InSet(batch'.units[i], c0)
      OBVIOUS
    <3>1. /\ DOMAIN Append(batch.units, u0) = DOMAIN batch.units \cup {Len(batch.units) + 1}
          /\ Append(batch.units, u0)[Len(batch.units) + 1] = u0
          /\ \A k \in DOMAIN batch.units : Append(batch.units, u0)[k] = batch.units[k]
      BY <1>6, AppendedIsSeq
    <3>2. CASE i \in DOMAIN batch.units
      BY <1>1, <1>6, <3>1, <3>2 DEF WaitingWereTold
    <3>3. CASE i = Len(batch.units) + 1
      BY <1>2, <1>6, <3>1, <3>3
    <3>4. QED
      BY <1>6, <3>1, <3>2, <3>3
  <2>5. \A i \in DOMAIN batch'.units : InSet(batch.units[i], batch.cmd)'
    BY <1>6, <2>4 DEF InSet
  <2>6. QED
    BY <2>2, <2>3, <2>5 DEF WaitingWereTold
<1>9. OrdersAreOwn'
  <2>1. SendsTo({}, e)
    BY DEF SendsTo
  <2>2. WasTold(u0, e)
    BY <1>3 DEF WasTold, Ways
  <2>3. IsOwn({u0}, e, {}, e)
    BY <2>2 DEF IsOwn
  <2> HIDE DEF e
  <2>4. QED
    BY <1>1, <1>5, <2>1, <2>3, OwnStep
<1>10. AccountsBalance'
  <2> SUFFICES ASSUME NEW u \in Units, NEW w \in Ways, NEW c, c.type \in Types
               PROVE  Accounted(u, c, w)
    BY <1>1, AccountStep
  <2>1. Sent(u, c, w)' = Sent(u, c, w)
        /\ Due(u, c, w)' = Due(u, c, w) + (IF u = u0 /\ c = c0 /\ w = "set" THEN 1 ELSE 0)
    BY <1>a, SentStays
  <2>2. InLists(u, c)' = InLists(u, c) /\ InGroups(u, c)' = InGroups(u, c)
    BY ListsStay, GroupStays
  <2>3. Waits(u, c, "set")' = Waits(u, c, "set") + (IF u = u0 /\ c = c0 THEN 1 ELSE 0)
    <3>1. Cardinality(Places(Append(batch.units, u0), u)) =
            Cardinality(Places(batch.units, u)) + (IF u0 = u THEN 1 ELSE 0)
      BY <1>6, PlacesAppended
    <3>2. Cardinality(Places(batch.units, u)) \in Nat
      BY <1>1, CountsAreNumbers
    <3>3. InSets(u, c) = IF c0 = c THEN Cardinality(Places(batch.units, u)) ELSE 0
      BY DEF InSets
    <3>4. InSets(u, c)' =
            IF c0 = c THEN Cardinality(Places(Append(batch.units, u0), u)) ELSE 0
      BY <1>6, PartsNext
    <3>5. QED
      BY <3>1, <3>2, <3>3, <3>4, WaitsNow, WaitsNext
  <2>4. Sent(u, c, w) \in Nat /\ Due(u, c, w) \in Nat /\ Waits(u, c, w) \in Nat
    BY <1>1, CountsAreNumbers
  <2>5. CASE w = "set"
    BY <2>1, <2>3, <2>4, <2>5 DEF Accounted
  <2>6. CASE w # "set"
    <3>1. Waits(u, c, w)' = Waits(u, c, w)
      BY <2>2, <2>6, WaitsNow, WaitsNext DEF Ways
    <3>2. QED
      BY <2>1, <2>4, <2>6, <3>1 DEF Accounted
  <2>7. QED
    BY <2>5, <2>6
<1>11. QED
  BY <1>7, <1>8, <1>9, <1>10 DEF OptimizerInv

LEMMA VisitStep ==
  ASSUME OptimizerInv, NEW u \in Units, VisitUnit(u)
  PROVE  OptimizerInv'
<1> DEFINE c == batch.cmd
           r == [unit |-> u, cmd |-> c]
<1>1. /\ phase = "set" /\ UNCHANGED <<phase, cursor, group, leader, mode>>
      /\ IsSeq(batch.units)
      /\ batch = [cmd |-> batch.cmd, left |-> batch.left, units |-> batch.units]
  BY DEF VisitUnit, flushVars, OptimizerInv, OptimizerShape
<1>2. [batch EXCEPT !.left = @ \ {u}] =
        [cmd |-> batch.cmd, left |-> batch.left \ {u}, units |-> batch.units]
  BY <1>1
<1>3. ASSUME batch' = [batch EXCEPT !.left = @ \ {u}]
      PROVE  OthersStay
  BY <1>1, <1>2, <1>3 DEF OthersStay
<1>4. CASE /\ CanGroup(u, c) /\ ~Taken(u, c)
           /\ given' = Given({u}, u, c, "set")
           /\ batch' = [[batch EXCEPT !.left = @ \ {u}] EXCEPT !.units = Append(@, u)]
           /\ UNCHANGED <<queue, received>>
  <2>1. batch' = [cmd |-> batch.cmd, left |-> batch.left \ {u}, units |-> Append(batch.units, u)]
    BY <1>2, <1>4
  <2>2. batch' = [cmd |-> batch.cmd, left |-> batch'.left, units |-> Append(batch.units, u)]
    BY <2>1
  <2>3. QED
    BY <1>1, <1>4, <2>2, JoinSetStep
<1>5. CASE CanGroup(u, c) /\ Take(u, c) /\ batch' = [batch EXCEPT !.left = @ \ {u}]
  <2>1. r \in Requests /\ r.unit = u /\ r.cmd = c
    BY <1>5 DEF CanGroup, Legal
  <2>2. u \in Doers(r.unit, r.cmd)
    BY <1>5, <2>1 DEF CanGroup, Doers, Buildings
  <2>3. QED
    BY <1>3, <1>5, <2>1, <2>2, TakeStep
<1>6. CASE ~CanGroup(u, c) /\ Legal(u, c) /\ IssueTo(u, c)
           /\ batch' = [batch EXCEPT !.left = @ \ {u}]
  <2>1. r \in Requests /\ r.unit = u /\ r.cmd = c
    BY <1>6 DEF Legal
  <2>2. QED
    BY <1>3, <1>6, <2>1, IssueToStep
<1>7. CASE ~Legal(u, c) /\ batch' = [batch EXCEPT !.left = @ \ {u}]
           /\ UNCHANGED <<queue, given, received>>
  <2>1. /\ batch'.units = batch.units /\ batch'.cmd = batch.cmd
        /\ batch' = [cmd |-> batch'.cmd, left |-> batch'.left, units |-> batch'.units]
    BY <1>2, <1>7
  <2>2. cursor \in Nat \ {0} /\ group = <<>>
    BY <1>1 DEF OptimizerInv, OptimizerShape
  <2>3. QED
    BY <1>1, <1>7, <2>1, <2>2, QuietStep DEF QuietBatch
<1>8. QED
  BY <1>4, <1>5, <1>6, <1>7 DEF VisitUnit

LEMMA IssueToSetStep ==
  ASSUME OptimizerInv, NEW c, IssueToSet(c)
  PROVE  OptimizerInv'
<1>1. /\ phase = "ai" /\ phase' = "set"
      /\ UNCHANGED <<queue, cursor, group, leader, mode, given, received>>
      /\ batch.units = <<>> /\ cursor \in Nat \ {0} /\ group = <<>>
  BY DEF IssueToSet, flushVars, OptimizerInv, OptimizerShape
<1>2. \E us : batch' = [cmd |-> c, left |-> us, units |-> <<>>]
  BY DEF IssueToSet
<1>3. /\ batch' = [cmd |-> batch'.cmd, left |-> batch'.left, units |-> batch'.units]
      /\ batch'.units = <<>>
  BY <1>2
<1>4. QED
  BY <1>1, <1>3, QuietStep DEF QuietBatch

LEMMA SetIsDoneStep ==
  ASSUME OptimizerInv, SetIsDone
  PROVE  OptimizerInv'
<1>1. /\ phase = "set" /\ phase' = "ai" /\ batch' = NoBatch /\ batch.units = <<>>
      /\ UNCHANGED <<queue, cursor, group, leader, mode, given, received>>
      /\ cursor \in Nat \ {0} /\ group = <<>>
  BY DEF SetIsDone, flushVars, OptimizerInv, OptimizerShape
<1>2. /\ batch' = [cmd |-> batch'.cmd, left |-> batch'.left, units |-> batch'.units]
      /\ batch'.units = <<>>
  BY <1>1 DEF NoBatch
<1>3. QED
  BY <1>1, <1>2, QuietStep DEF QuietBatch

\* The first units of a list, up to a group, are sent their order.
LEMMA SendGroupStep ==
  ASSUME OptimizerInv, SendGroup
  PROVE  OptimizerInv'
<1> DEFINE c0 == batch.cmd
           all == batch.units
           n == IF Len(all) < GroupMax THEN Len(all) ELSE GroupMax
           us == SubSeq(all, 1, n)
           rest == SubSeq(all, n + 1, Len(all))
           e == [cmd |-> c0, order |-> Order(Head(us), c0), way |-> "set"]
<1>1. OptimizerShape /\ WaitingWereTold /\ OrdersAreOwn /\ AccountsBalance
  BY DEF OptimizerInv
<1>2. /\ phase = "set" /\ all # <<>> /\ received' = Got(us, Head(us), c0, "set")
      /\ batch' = [batch EXCEPT !.units = rest]
      /\ UNCHANGED <<phase, level, queue, cursor, group, leader, army, mode, given>>
  BY DEF SendGroup, flushVars
<1>3. IsSeq(all) /\ all \in Seq(Range(all)) /\ Len(all) \in Nat /\ Len(all) > 0
      /\ DOMAIN all = 1 .. Len(all)
  BY <1>1, <1>2 DEF OptimizerShape, IsSeq
<1>4. n \in 1 .. Len(all) /\ n <= GroupMax
  BY <1>3, GroupMaxAssumption
<1>5. /\ batch'.cmd = c0 /\ batch'.units = rest
      /\ batch' = [cmd |-> batch'.cmd, left |-> batch'.left, units |-> batch'.units]
  <2>1. batch = [cmd |-> batch.cmd, left |-> batch.left, units |-> batch.units]
    BY <1>1 DEF OptimizerShape
  <2> HIDE DEF us, rest
  <2>2. batch' = [cmd |-> batch.cmd, left |-> batch.left, units |-> rest]
    BY <1>2, <2>1
  <2>3. QED
    BY <2>2
<1>6. /\ IsSeq(us) /\ Len(us) = n
      /\ \A i \in DOMAIN us : i \in DOMAIN all /\ us[i] = all[i]
  <2> HIDE DEF n
  <2>1. 1 \in 1 .. Len(all) + 1 /\ n \in 0 .. Len(all)
    BY <1>3, <1>4
  <2>2. IsSeq(us)
    BY <1>3, <2>1, PartIsSeq
  <2>3. Len(us) = n
    BY <1>3, <1>4
  <2>4. \A i \in DOMAIN us : i \in DOMAIN all /\ us[i] = all[i]
    BY <1>3, <1>4
  <2>5. QED
    BY <2>2, <2>3, <2>4
<1>7. /\ IsSeq(rest)
      /\ \A i \in DOMAIN rest : n + i \in DOMAIN all /\ rest[i] = all[n + i]
  <2> HIDE DEF n
  <2>1. n + 1 \in 1 .. Len(all) + 1 /\ Len(all) \in 0 .. Len(all)
    BY <1>3, <1>4
  <2>2. IsSeq(rest)
    BY <1>3, <2>1, PartIsSeq
  <2>3. \A i \in DOMAIN rest : n + i \in DOMAIN all /\ rest[i] = all[n + i]
    BY <1>3, <1>4
  <2>4. QED
    BY <2>2, <2>3
<1>8. \A x : Cardinality(Places(all, x)) = Cardinality(Places(us, x)) + Cardinality(Places(rest, x))
  <2>1. all = us \o rest
    <3> HIDE DEF n
    <3>1. us \in Seq(Range(all)) /\ rest \in Seq(Range(all)) /\ Len(us) = n
          /\ Len(rest) = Len(all) - n
      BY <1>3, <1>4
    <3>2. us \o rest \in Seq(Range(all)) /\ Len(us \o rest) = Len(all)
      BY <1>3, <1>4, <3>1
    <3>3. ASSUME NEW i \in 1 .. Len(all) PROVE (us \o rest)[i] = all[i]
      <4>1. CASE i <= n
        BY <1>3, <1>4, <1>6, <3>1, <4>1
      <4>2. CASE i > n
        <5>1. (us \o rest)[i] = rest[i - n]
          <6> HIDE DEF us, rest
          <6>1. i \in 1 .. Len(us) + Len(rest) /\ i > Len(us)
            BY <1>3, <1>4, <3>1, <4>2
          <6>2. QED
            BY <3>1, <6>1, BehindTheFirst
        <5>2. i - n \in DOMAIN rest /\ n + (i - n) = i
          <6> HIDE DEF us, rest
          <6>1. QED
            BY <1>3, <1>4, <3>1, <4>2
        <5>3. QED
          BY <1>7, <5>1, <5>2
      <4>3. QED
        BY <1>3, <1>4, <4>1, <4>2
    <3>4. QED
      <4> HIDE DEF us, rest, all
      <4>1. QED
        BY <1>3, <3>2, <3>3, SeqEqual, ZenonT(30)
  <2> HIDE DEF us, rest, all
  <2>2. \A x : Cardinality(Places(us \o rest, x)) =
               Cardinality(Places(us, x)) + Cardinality(Places(rest, x))
    BY <1>6, <1>7, PlacesJoined
  <2>3. QED
    BY <2>1, <2>2
<1>9. Selected(us) = Range(us)
  <2>1. IsSeq(us) /\ Len(us) <= GroupMax
    BY <1>4, <1>6
  <2> HIDE DEF us, n
  <2>2. QED
    BY <2>1, AllSelected
<1> HIDE DEF all, n, us, rest, c0
<1>10. \A i \in DOMAIN all : InSet(all[i], c0)
  BY <1>1 DEF WaitingWereTold, all, c0
<1>11. Head(us) = us[1] /\ 1 \in DOMAIN us /\ InSet(Head(us), c0)
  <2>1. us \in Seq(Range(us)) /\ Len(us) > 0
    BY <1>4, <1>6 DEF IsSeq
  <2>2. Head(us) = us[1] /\ 1 \in DOMAIN us
    BY <2>1
  <2>3. QED
    BY <1>6, <1>10, <2>2
<1>12. DOMAIN received' = Units /\ \A u \in Units : IsSeq(received'[u])
  BY <1>1, <1>2, GotEffect
<1>13. SendsTo(Range(us), e)
  BY <1>1, <1>2, <1>9, GotEffect
<1>14. \A u \in Units : \A c, w :
         Sent(u, c, w)' =
           Sent(u, c, w) + (IF u \in Range(us) /\ c = c0 /\ w = "set" THEN 1 ELSE 0)
  <2> SUFFICES ASSUME NEW u \in Units, NEW c, NEW w
               PROVE  Sent(u, c, w)' =
                        Sent(u, c, w) + (IF u \in Range(us) /\ c = c0 /\ w = "set" THEN 1 ELSE 0)
    OBVIOUS
  <2>1. e.cmd = c0 /\ e.way = "set"
    OBVIOUS
  <2> HIDE DEF e
  <2>2. Sent(u, c, w)' =
          Sent(u, c, w) + (IF u \in Range(us) /\ e.cmd = c /\ e.way = w THEN 1 ELSE 0)
    BY <1>1, <1>13, SentEffect
  <2>3. QED
    BY <2>1, <2>2
<1>15. OptimizerShape'
  BY <1>1, <1>2, <1>5, <1>7, <1>12 DEF OptimizerShape, IsSeq
<1>16. WaitingWereTold'
  <2>1. \A u, t : Oddity(u, t)' = Oddity(u, t)
    BY <1>2, OrderStays
  <2>2. \A t \in Types : \A i \in DOMAIN queue'[t] : Listed(queue[t][i], t)'
    BY <1>1, <1>2 DEF WaitingWereTold, Listed
  <2>3. \A i \in DOMAIN group' : InGroup(group[i], leader.cmd)'
    BY <1>1, <1>2, <2>1 DEF WaitingWereTold, InGroup
  <2>4. \A i \in DOMAIN batch'.units : InSet(batch'.units[i], batch'.cmd)
    BY <1>5, <1>7, <1>10
  <2>5. \A i \in DOMAIN batch'.units : InSet(batch.units[i], batch.cmd)'
    BY <2>4 DEF InSet
  <2>6. QED
    BY <2>2, <2>3, <2>5 DEF WaitingWereTold
<1>17. OrdersAreOwn'
  <2>1. GivesTo({}, e)
    BY <1>2 DEF GivesTo
  <2>2. c0.type \in Types
    BY <1>11, InSetIsMeant DEF IsCommand
  <2>3. ASSUME NEW u \in Range(us)
        PROVE  DependsOnFront(u, e) \/ e.order = Order(u, c0)
    <3>1. InSet(u, c0)
      BY <1>6, <1>10 DEF Range
    <3>2. u \in Units /\ Kind[u] \notin Buildings
      BY <3>1, InSetIsMeant
    <3>3. CASE c0.type \in SentByName \cup {"Use_Tech"}
      BY <3>2, <3>3 DEF DependsOnFront, SentByName
    <3>4. CASE c0.type \notin SentByName \cup {"Use_Tech"}
      BY <1>11, <3>1, <3>4, SameOrderInSet
    <3>5. QED
      BY <3>3, <3>4
  <2>4. IsOwn({}, e, Range(us), e)
    BY <2>2, <2>3 DEF IsOwn, Ways
  <2> HIDE DEF e
  <2>5. QED
    BY <1>1, <1>2, <1>13, <2>1, <2>4, OwnStep
<1>18. AccountsBalance'
  <2> SUFFICES ASSUME NEW u \in Units, NEW w \in Ways, NEW c, c.type \in Types
               PROVE  Accounted(u, c, w)
    BY <1>1, AccountStep
  <2>1. Due(u, c, w)' = Due(u, c, w)
        /\ Sent(u, c, w)' = Sent(u, c, w) + (IF u \in Range(us) /\ c = c0 /\ w = "set" THEN 1 ELSE 0)
    BY <1>2, <1>14, DueStays
  <2>2. InLists(u, c)' = InLists(u, c) /\ InGroups(u, c)' = InGroups(u, c)
    BY <1>2, ListsStay, GroupStays
  <2>3. InSets(u, c) = IF c0 = c THEN Cardinality(Places(all, u)) ELSE 0
    BY DEF InSets, c0, all
  <2>4. InSets(u, c)' = IF c0 = c THEN Cardinality(Places(rest, u)) ELSE 0
    BY <1>5, PartsNext
  <2>5. /\ Cardinality(Places(us, u)) \in Nat /\ Cardinality(Places(rest, u)) \in Nat
        /\ Cardinality(Places(us, u)) > 0 <=> u \in Range(us)
        /\ Cardinality(Places(all, u)) = Cardinality(Places(us, u)) + Cardinality(Places(rest, u))
    BY <1>6, <1>7, <1>8, PlacesCount DEF Range
  <2>6. Sent(u, c, w) \in Nat /\ Due(u, c, w) \in Nat /\ Waits(u, c, w) \in Nat
        /\ InSets(u, c) \in Nat
    BY <1>1, CountsAreNumbers
  <2>7. CASE w = "set"
    <3>1. Waits(u, c, w) = InSets(u, c) /\ Waits(u, c, w)' = InSets(u, c)'
      BY <2>7, WaitsNow, WaitsNext
    <3>2. CASE c = c0 /\ u \in Range(us)
      <4>1. Sent(u, c, w)' + Waits(u, c, w)' \in 1 .. Sent(u, c, w) + Waits(u, c, w)
        BY <2>1, <2>3, <2>4, <2>5, <2>6, <2>7, <3>1, <3>2
      <4>2. QED
        BY <2>1, <4>1 DEF Accounted
    <3>3. CASE ~(c = c0 /\ u \in Range(us))
      <4>1. InSets(u, c)' = InSets(u, c)
        BY <2>3, <2>4, <2>5, <3>3
      <4>2. QED
        BY <2>1, <2>6, <3>1, <3>3, <4>1 DEF Accounted
    <3>4. QED
      BY <3>2, <3>3
  <2>8. CASE w # "set"
    <3>1. Waits(u, c, w)' = Waits(u, c, w)
      BY <2>2, <2>8, WaitsNow, WaitsNext DEF Ways
    <3>2. QED
      BY <2>1, <2>6, <2>8, <3>1 DEF Accounted
  <2>9. QED
    BY <2>7, <2>8
<1>19. QED
  BY <1>15, <1>16, <1>17, <1>18 DEF OptimizerInv

-----------------------------------------------------------------------------
(* The flush.                                                               *)

\* A group gets the order for its command, which is the own one of each unit.
LEMMA SendToEffect ==
  ASSUME OptimizerShape, OrdersAreOwn, NEW us, NEW c0, NEW o,
         IsSeq(us), us # <<>>, Len(us) <= GroupMax, c0.type \in Types,
         \A i \in DOMAIN us :
           us[i] \in Units /\ Meant(us[i], c0) /\ Oddity(us[i], c0.type) = o,
         received' = SendTo(us, c0), given' = given, mode' = mode
  PROVE  /\ OrdersAreOwn'
         /\ DOMAIN received' = Units /\ \A u \in Units : IsSeq(received'[u])
         /\ \E e : e.cmd = c0 /\ e.way = "list" /\ SendsTo(Range(us), e)
<1> DEFINE front == IF NamesFront(c0.type) THEN Head(us) ELSE Nobody
           e == [cmd |-> c0, order |-> Order(front, c0), way |-> "list"]
<1>1. received' = Got(us, front, c0, "list")
  BY DEF SendTo
<1>2. Selected(us) = Range(us)
  BY AllSelected
<1>3. Head(us) = us[1] /\ 1 \in DOMAIN us
  BY DEF IsSeq
<1>4. DOMAIN received' = Units /\ \A u \in Units : IsSeq(received'[u])
  BY <1>1, GotEffect
<1>5. SendsTo(Range(us), e)
  BY <1>1, <1>2, GotEffect
<1>6. GivesTo({}, e)
  BY DEF GivesTo
<1>7. ASSUME NEW u \in Range(us)
      PROVE  DependsOnFront(u, e) \/ e.order = Order(u, c0)
  <2>1. u \in Units /\ Meant(u, c0) /\ Oddity(u, c0.type) = o
    BY DEF Range
  <2>2. us[1] \in Units /\ Meant(us[1], c0) /\ Oddity(us[1], c0.type) = o
    BY <1>3
  <2>3. CASE Kind[u] \notin Buildings /\ c0.type \in SentByName
    BY <2>3 DEF DependsOnFront, SentByName
  <2>4. CASE Kind[u] \in Buildings \/ c0.type \notin SentByName
    <3>1. Order(IF NamesFront(c0.type) THEN us[1] ELSE Nobody, c0) = Order(u, c0)
      BY <2>1, <2>2, <2>4, SameOrderInList
    <3>2. QED
      BY <1>3, <3>1
  <2>5. QED
    BY <2>3, <2>4
<1>8. e.cmd = c0 /\ e.way = "list"
  OBVIOUS
<1> HIDE DEF e
<1>9. OrdersAreOwn'
  <2>1. IsOwn({}, e, Range(us), e)
    BY <1>7, <1>8 DEF IsOwn, Ways
  <2>2. QED
    BY <1>5, <1>6, <2>1, OwnStep
<1>10. QED
  BY <1>4, <1>5, <1>8, <1>9

\* The command under the cursor is that of the group it joins.
LEMMA SameCommand ==
  ASSUME OptimizerShape, WaitingWereTold, group # <<>>
  PROVE  /\ Current = leader.cmd.type /\ Current \in Types /\ IsCommand(leader.cmd)
         /\ \A x : Listed(x, Current) /\ Alike(x, Current) => x.cmd = leader.cmd
<1>1. 1 \in DOMAIN group
  BY DEF OptimizerShape, IsSeq
<1>2. IsCommand(leader.cmd) /\ Current = leader.cmd.type
  BY <1>1 DEF WaitingWereTold, InGroup, Current
<1>3. ASSUME NEW x, Listed(x, Current), Alike(x, Current)
      PROVE  x.cmd = leader.cmd
  <2>1. IsCommand(x.cmd) /\ x.cmd.type = leader.cmd.type
    BY <1>2, <1>3 DEF Listed
  <2>2. /\ x.cmd.extra = leader.cmd.extra /\ x.cmd.target = leader.cmd.target
        /\ x.cmd.pos = leader.cmd.pos
    BY <1>3 DEF Alike
  <2>3. QED
    BY <1>2, <2>1, <2>2 DEF IsCommand
<1>4. QED
  BY <1>2, <1>3 DEF IsCommand

\* What Join takes from a list, and puts into the group.
LEMMA JoinTakes ==
  ASSUME OptimizerInv, Join
  PROVE  \E t, x, us :
           /\ t \in Types
           /\ cursor \in DOMAIN queue[t] /\ x = queue[t][cursor] /\ Listed(x, t)
           /\ queue' = [queue EXCEPT ![t] = RemoveAt(@, cursor)]
           /\ us = Append(group, x.unit) /\ IsSeq(us) /\ Len(us) = Len(group) + 1
           /\ leader'.cmd = x.cmd /\ (group = <<>> \/ leader' = leader)
           /\ \A i \in DOMAIN us :
                /\ us[i] \in Units /\ Meant(us[i], x.cmd)
                /\ Oddity(us[i], t) = leader'.odd
           /\ \/ Full(us) /\ group' = <<>> /\ received' = SendTo(us, x.cmd)
              \/ ~Full(us) /\ group' = us /\ received' = received
<1> DEFINE t == Current
           x == queue[t][cursor]
           us == Append(group, x.unit)
           lead == IF group = <<>> THEN Leads(x, t) ELSE leader
<1>1. OptimizerShape /\ WaitingWereTold
  BY DEF OptimizerInv
<1>2. /\ Working /\ cursor <= Len(queue[t]) /\ (group = <<>> \/ Alike(x, t))
      /\ queue' = [queue EXCEPT ![t] = RemoveAt(@, cursor)]
      /\ leader' = lead
      /\ \/ Full(us) /\ group' = <<>> /\ received' = SendTo(us, lead.cmd)
         \/ ~Full(us) /\ group' = us /\ received' = received
  BY DEF Join
<1>3. t \in Types
  BY <1>1, <1>2, CurrentIsType, SameCommand DEF Working
<1> HIDE DEF t
<1>4. cursor \in DOMAIN queue[t]
  BY <1>1, <1>2, <1>3 DEF OptimizerShape, IsSeq
<1>5. Listed(x, t)
  BY <1>1, <1>3, <1>4 DEF WaitingWereTold
<1>6. lead.cmd = x.cmd
  <2>1. CASE group = <<>>
    BY <2>1 DEF Leads
  <2>2. CASE group # <<>>
    BY <1>1, <1>2, <1>5, <2>2, SameCommand DEF t
  <2>3. QED
    BY <2>1, <2>2
<1>7. lead.odd = Oddity(x.unit, t)
  BY <1>2 DEF Leads, Alike
<1>8. x.unit \in Units /\ Meant(x.unit, x.cmd) /\ x.cmd.type = t
  BY <1>5 DEF Listed
<1>9. IsSeq(group)
  BY <1>1 DEF OptimizerShape
<1> HIDE DEF x
<1>10. /\ IsSeq(us) /\ Len(us) = Len(group) + 1
       /\ DOMAIN us = DOMAIN group \cup {Len(group) + 1} /\ us[Len(group) + 1] = x.unit
       /\ \A i \in DOMAIN group : us[i] = group[i]
  <2>1. IsSeq(us) /\ Len(us) = Len(group) + 1
    BY <1>9, AppendedIsSeq
  <2>2. DOMAIN us = DOMAIN group \cup {Len(group) + 1} /\ us[Len(group) + 1] = x.unit
    BY <1>9, AppendedIsSeq
  <2>3. \A i \in DOMAIN group : us[i] = group[i]
    BY <1>9, AppendedIsSeq
  <2>4. QED
    BY <2>1, <2>2, <2>3
<1>11. ASSUME NEW i \in DOMAIN us
       PROVE  us[i] \in Units /\ Meant(us[i], x.cmd) /\ Oddity(us[i], t) = lead.odd
  <2>1. CASE i \in DOMAIN group
    <3>1. InGroup(group[i], leader.cmd) /\ group # <<>> /\ us[i] = group[i]
      BY <1>1, <1>10, <2>1 DEF WaitingWereTold
    <3>2. lead = leader /\ leader.cmd = x.cmd
      BY <1>6, <3>1
    <3>3. QED
      BY <1>8, <3>1, <3>2 DEF InGroup
  <2>2. CASE i = Len(group) + 1
    BY <1>7, <1>8, <1>10, <2>2
  <2>3. QED
    BY <1>10, <2>1, <2>2
<1> HIDE DEF us, lead
<1>12. /\ t \in Types
       /\ cursor \in DOMAIN queue[t] /\ x = queue[t][cursor] /\ Listed(x, t)
       /\ queue' = [queue EXCEPT ![t] = RemoveAt(@, cursor)]
       /\ us = Append(group, x.unit) /\ IsSeq(us) /\ Len(us) = Len(group) + 1
       /\ leader'.cmd = x.cmd /\ (group = <<>> \/ leader' = leader)
       /\ \A i \in DOMAIN us :
            us[i] \in Units /\ Meant(us[i], x.cmd) /\ Oddity(us[i], t) = leader'.odd
       /\ \/ Full(us) /\ group' = <<>> /\ received' = SendTo(us, x.cmd)
          \/ ~Full(us) /\ group' = us /\ received' = received
  BY <1>2, <1>3, <1>4, <1>5, <1>6, <1>10, <1>11 DEF us, x, lead
<1>13. QED
  BY <1>12, Zenon

LEMMA PlacesInRange ==
  ASSUME NEW l, IsSeq(l), NEW x
  PROVE  /\ Cardinality(Places(l, x)) \in Nat
         /\ (Cardinality(Places(l, x)) > 0 <=> x \in Range(l))
<1>1. /\ Cardinality(Places(l, x)) \in Nat
      /\ (Cardinality(Places(l, x)) > 0 <=> \E i \in DOMAIN l : l[i] = x)
  BY PlacesCount
<1>2. x \in Range(l) <=> \E i \in DOMAIN l : l[i] = x
  BY DEF Range
<1>3. QED
  BY <1>1, <1>2

LEMMA JoinStep ==
  ASSUME OptimizerInv, Join
  PROVE  OptimizerInv'
<1>1. OptimizerShape /\ WaitingWereTold /\ OrdersAreOwn /\ AccountsBalance
  BY DEF OptimizerInv
<1>2. PICK t, x, us :
        /\ t \in Types
        /\ cursor \in DOMAIN queue[t] /\ x = queue[t][cursor] /\ Listed(x, t)
        /\ queue' = [queue EXCEPT ![t] = RemoveAt(@, cursor)]
        /\ us = Append(group, x.unit) /\ IsSeq(us) /\ Len(us) = Len(group) + 1
        /\ leader'.cmd = x.cmd /\ (group = <<>> \/ leader' = leader)
        /\ \A i \in DOMAIN us :
             us[i] \in Units /\ Meant(us[i], x.cmd) /\ Oddity(us[i], t) = leader'.odd
        /\ \/ Full(us) /\ group' = <<>> /\ received' = SendTo(us, x.cmd)
           \/ ~Full(us) /\ group' = us /\ received' = received
  BY JoinTakes, Zenon
<1> DEFINE c0 == x.cmd
           rest == RemoveAt(queue[t], cursor)
<1>3. /\ phase = "flush" /\ UNCHANGED <<phase, cursor, batch, mode, given>>
  BY DEF Join, Working
<1>4. IsSeq(queue[t]) /\ IsSeq(group) /\ Len(group) < GroupMax /\ Len(group) \in Nat
  BY <1>1, <1>2 DEF OptimizerShape, IsSeq
<1>5. /\ DOMAIN queue' = Types
      /\ \A s \in Types : queue'[s] = IF s = t THEN rest ELSE queue[s]
  BY <1>1, <1>2 DEF OptimizerShape
<1>6. /\ IsSeq(rest)
      /\ \A j \in DOMAIN rest : \E k \in DOMAIN queue[t] : rest[j] = queue[t][k]
  BY <1>2, <1>4, RestIsSeq
<1>7. /\ c0.type = t /\ IsCommand(c0) /\ x = [unit |-> x.unit, cmd |-> c0] /\ x.unit \in Units
  BY <1>2 DEF Listed
<1>8. Len(us) <= GroupMax /\ us # <<>> /\ (~Full(us) => Len(us) < GroupMax)
  <2>1. Len(us) <= GroupMax /\ Len(us) # 0
    BY <1>2, <1>4, GroupMaxAssumption
  <2>2. QED
    BY <1>2, <1>4, <2>1, GroupMaxAssumption DEF Full
<1> HIDE DEF rest, c0
<1>9. ASSUME NEW u \in Units, NEW c, c.type \in Types
      PROVE  /\ InLists(u, c)' + (IF u = x.unit /\ c = c0 THEN 1 ELSE 0) = InLists(u, c)
             /\ InLists(u, c)' \in Nat
  <2> DEFINE y == [unit |-> u, cmd |-> c]
  <2>1. InLists(u, c)' = Cardinality(Places(queue'[c.type], y))
    BY PartsNext
  <2>2. InLists(u, c) = Cardinality(Places(queue[c.type], y))
    BY DEF InLists
  <2>3. IsSeq(queue[c.type])
    BY <1>1, <1>9 DEF OptimizerShape
  <2>4. Cardinality(Places(queue[c.type], y)) \in Nat /\ Cardinality(Places(rest, y)) \in Nat
    BY <1>6, <2>3, PlacesCount
  <2>5. x = y <=> u = x.unit /\ c = c0
    BY <1>7
  <2> HIDE DEF y
  <2>6. CASE c.type = t
    <3>1. Cardinality(Places(rest, y)) + (IF x = y THEN 1 ELSE 0) =
            Cardinality(Places(queue[t], y))
      BY <1>2, <1>4, PlacesRemoved DEF rest
    <3>2. QED
      BY <1>5, <1>9, <2>1, <2>2, <2>4, <2>5, <2>6, <3>1
  <2>7. CASE c.type # t
    BY <1>5, <1>7, <1>9, <2>1, <2>2, <2>4, <2>7
  <2>8. QED
    BY <2>6, <2>7
<1>10. ASSUME NEW u, NEW c
       PROVE  /\ InGroups(u, c) = (IF c = c0 THEN Cardinality(Places(group, u)) ELSE 0)
              /\ Cardinality(Places(us, u)) =
                   Cardinality(Places(group, u)) + (IF u = x.unit THEN 1 ELSE 0)
              /\ Cardinality(Places(group, u)) \in Nat
  <2>1. Cardinality(Places(group, u)) \in Nat
    BY <1>4, PlacesCount
  <2>2. Cardinality(Places(Append(group, x.unit), u)) =
          Cardinality(Places(group, u)) + (IF x.unit = u THEN 1 ELSE 0)
    BY <1>4, PlacesAppended
  <2>3. InGroups(u, c) = (IF c = c0 THEN Cardinality(Places(group, u)) ELSE 0)
    <3>1. CASE group = <<>>
      BY <3>1, NothingInEmpty DEF InGroups
    <3>2. CASE leader' = leader
      BY <1>2, <3>2 DEF InGroups, c0
    <3>3. QED
      BY <1>2, <3>1, <3>2
  <2>4. QED
    BY <1>2, <2>1, <2>2, <2>3
<1>11. \A s \in Types : \A i \in DOMAIN queue'[s] : Listed(queue[s][i], s)'
  <2> SUFFICES ASSUME NEW s \in Types, NEW i \in DOMAIN queue'[s]
               PROVE  Listed(queue'[s][i], s)
    BY DEF Listed
  <2>1. CASE s = t
    BY <1>1, <1>5, <1>6, <2>1 DEF WaitingWereTold
  <2>2. CASE s # t
    BY <1>1, <1>5, <2>2 DEF WaitingWereTold
  <2>3. QED
    BY <2>1, <2>2
<1>12. /\ \A u, s : Oddity(u, s)' = Oddity(u, s)
       /\ \A i \in DOMAIN batch'.units : InSet(batch.units[i], batch.cmd)'
       /\ \A u, c : InSets(u, c)' = InSets(u, c)
  <2>1. \A u, s : Oddity(u, s)' = Oddity(u, s)
    BY <1>3, OrderStays
  <2>2. \A i \in DOMAIN batch'.units : InSet(batch.units[i], batch.cmd)'
    BY <1>1, <1>3 DEF WaitingWereTold, InSet
  <2>3. \A u, c : InSets(u, c)' = InSets(u, c)
    BY <1>3, SetStays
  <2>4. QED
    BY <2>1, <2>2, <2>3
<1>13. ASSUME IsSeq(group'), Len(group') < GroupMax,
              DOMAIN received' = Units, \A u \in Units : IsSeq(received'[u])
       PROVE  OptimizerShape'
  <2>1. \A s \in Types : IsSeq(queue'[s])
    BY <1>1, <1>5, <1>6 DEF OptimizerShape
  <2>2. QED
    BY <1>1, <1>3, <1>5, <1>13, <2>1 DEF OptimizerShape, IsSeq
<1>14. CASE ~Full(us) /\ group' = us /\ received' = received
  <2>1. OptimizerShape'
    BY <1>1, <1>2, <1>8, <1>13, <1>14 DEF OptimizerShape
  <2>2. WaitingWereTold'
    <3>1. \A i \in DOMAIN group' : InGroup(group[i], leader.cmd)'
      BY <1>2, <1>7, <1>12, <1>14 DEF InGroup, c0
    <3>2. QED
      BY <1>11, <1>12, <3>1 DEF WaitingWereTold
  <2>3. OrdersAreOwn'
    <3>1. GivesTo({}, 0) /\ SendsTo({}, 0) /\ IsOwn({}, 0, {}, 0)
      BY <1>3, <1>14 DEF GivesTo, SendsTo, IsOwn
    <3>2. QED
      BY <1>1, <1>3, <3>1, OwnStep
  <2>4. AccountsBalance'
    <3> SUFFICES ASSUME NEW u \in Units, NEW w \in Ways, NEW c, c.type \in Types
                 PROVE  Accounted(u, c, w)
      BY <1>1, AccountStep
    <3>1. Sent(u, c, w)' = Sent(u, c, w) /\ Due(u, c, w)' = Due(u, c, w)
      BY <1>3, <1>14, SentStays, DueStays
    <3>2. InGroups(u, c)' = (IF c = c0 THEN Cardinality(Places(us, u)) ELSE 0)
      BY <1>2, <1>14, PartsNext DEF c0
    <3>3. Waits(u, c, w)' = Waits(u, c, w)
      <4>1. CASE w = "list"
        BY <1>9, <1>10, <3>2, <4>1, WaitsNow, WaitsNext
      <4>2. CASE w # "list"
        BY <1>12, <4>2, WaitsNow, WaitsNext DEF Ways
      <4>3. QED
        BY <4>1, <4>2
    <3>4. QED
      BY <3>1, <3>3 DEF Accounted
  <2>5. QED
    BY <2>1, <2>2, <2>3, <2>4 DEF OptimizerInv
<1>15. CASE Full(us) /\ group' = <<>> /\ received' = SendTo(us, x.cmd)
  <2> DEFINE o == leader'.odd
  <2>a. \A i \in DOMAIN us : us[i] \in Units /\ Meant(us[i], c0) /\ Oddity(us[i], c0.type) = o
    BY <1>2, <1>7 DEF c0
  <2>b. received' = SendTo(us, c0) /\ c0.type \in Types
    BY <1>7, <1>15 DEF c0, IsCommand
  <2> HIDE DEF o
  <2>1. /\ OrdersAreOwn'
        /\ DOMAIN received' = Units /\ \A u \in Units : IsSeq(received'[u])
    BY <1>1, <1>2, <1>3, <1>8, <2>a, <2>b, SendToEffect
  <2>2. PICK e : e.cmd = c0 /\ e.way = "list" /\ SendsTo(Range(us), e)
    BY <1>1, <1>2, <1>3, <1>8, <2>a, <2>b, SendToEffect
  <2>3. OptimizerShape'
    BY <1>13, <1>15, <2>1, EmptyIsSeq, GroupMaxAssumption
  <2>4. WaitingWereTold'
    BY <1>11, <1>12, <1>15 DEF WaitingWereTold
  <2>5. AccountsBalance'
    <3> SUFFICES ASSUME NEW u \in Units, NEW w \in Ways, NEW c, c.type \in Types
                 PROVE  Accounted(u, c, w)
      BY <1>1, AccountStep
    <3>1. Due(u, c, w)' = Due(u, c, w)
          /\ Sent(u, c, w)' =
               Sent(u, c, w) + (IF u \in Range(us) /\ c = c0 /\ w = "list" THEN 1 ELSE 0)
      <4>1. Sent(u, c, w)' =
              Sent(u, c, w) + (IF u \in Range(us) /\ e.cmd = c /\ e.way = w THEN 1 ELSE 0)
        BY <1>1, <2>2, SentEffect
      <4>2. QED
        BY <1>3, <2>2, <4>1, DueStays
    <3>2. InGroups(u, c)' = 0
      BY <1>15, PartsNext, NothingInEmpty
    <3>3. Sent(u, c, w) \in Nat /\ Due(u, c, w) \in Nat /\ Waits(u, c, w) \in Nat
      BY <1>1, CountsAreNumbers
    <3>4. CASE w = "list"
      <4>1. Cardinality(Places(us, u)) \in Nat
            /\ (Cardinality(Places(us, u)) > 0 <=> u \in Range(us))
        <5>1. IsSeq(us)
          BY <1>2
        <5>2. QED
          BY <5>1, PlacesInRange
      <4>2. Waits(u, c, w) = InLists(u, c) + InGroups(u, c) /\ Waits(u, c, w)' = InLists(u, c)'
        BY <1>9, <3>2, <3>4, WaitsNow, WaitsNext
      <4>3. CASE c = c0
        <5>1. Waits(u, c, w) = Waits(u, c, w)' + Cardinality(Places(us, u))
          BY <1>9, <1>10, <4>1, <4>2, <4>3
        <5>2. CASE u \in Range(us)
          <6>1. Sent(u, c, w)' + Waits(u, c, w)' \in 1 .. Sent(u, c, w) + Waits(u, c, w)
            BY <1>9, <3>1, <3>3, <3>4, <4>1, <4>2, <4>3, <5>1, <5>2
          <6>2. QED
            BY <3>1, <6>1 DEF Accounted
        <5>3. CASE u \notin Range(us)
          BY <1>9, <3>1, <3>3, <4>1, <4>2, <5>1, <5>3 DEF Accounted
        <5>4. QED
          BY <5>2, <5>3
      <4>4. CASE c # c0
        <5>1. Waits(u, c, w)' = Waits(u, c, w)
          BY <1>9, <1>10, <4>2, <4>4
        <5>2. QED
          BY <3>1, <3>3, <4>4, <5>1 DEF Accounted
      <4>5. QED
        BY <4>3, <4>4
    <3>5. CASE w # "list"
      <4>1. Waits(u, c, w)' = Waits(u, c, w)
        BY <1>12, <3>5, WaitsNow, WaitsNext DEF Ways
      <4>2. QED
        BY <3>1, <3>3, <3>5, <4>1 DEF Accounted
    <3>6. QED
      BY <3>4, <3>5
  <2>6. QED
    BY <2>1, <2>3, <2>4, <2>5 DEF OptimizerInv
<1>16. QED
  BY <1>2, <1>14, <1>15

\* The end of the list: what is left of the group is sent.
LEMMA ListEndsStep ==
  ASSUME OptimizerInv, ListEnds
  PROVE  OptimizerInv'
<1>1. OptimizerShape /\ WaitingWereTold /\ OrdersAreOwn /\ AccountsBalance
  BY DEF OptimizerInv
<1>2. /\ phase = "flush" /\ group' = <<>> /\ cursor' = 1
      /\ UNCHANGED <<phase, queue, leader, batch, mode, given>>
      /\ IF group # <<>> THEN received' = SendTo(group, leader.cmd) ELSE received' = received
  BY DEF ListEnds, Working
<1>3. CASE group = <<>>
  <2>1. batch = [cmd |-> batch.cmd, left |-> batch.left, units |-> batch.units]
        /\ batch.units = <<>>
    BY <1>1, <1>2 DEF OptimizerShape
  <2>2. QED
    BY <1>2, <1>3, <2>1, QuietStep DEF QuietBatch
<1>4. CASE group # <<>>
  <2> DEFINE us == group
             c0 == leader.cmd
             o == leader.odd
  <2>1. IsSeq(us) /\ Len(us) <= GroupMax /\ us # <<>>
    BY <1>1, <1>4, GroupMaxAssumption DEF OptimizerShape, IsSeq
  <2>2. c0.type \in Types
    BY <1>1, <1>4, SameCommand
  <2>3. \A i \in DOMAIN us : us[i] \in Units /\ Meant(us[i], c0) /\ Oddity(us[i], c0.type) = o
    BY <1>1 DEF WaitingWereTold, InGroup
  <2>4. received' = SendTo(us, c0)
    BY <1>2, <1>4
  <2> HIDE DEF us, c0, o
  <2>5. /\ OrdersAreOwn'
        /\ DOMAIN received' = Units /\ \A u \in Units : IsSeq(received'[u])
    BY <1>1, <1>2, <2>1, <2>2, <2>3, <2>4, SendToEffect
  <2>6. PICK e : e.cmd = c0 /\ e.way = "list" /\ SendsTo(Range(us), e)
    BY <1>1, <1>2, <2>1, <2>2, <2>3, <2>4, SendToEffect
  <2>7. OptimizerShape'
    BY <1>1, <1>2, <2>5, EmptyIsSeq, GroupMaxAssumption DEF OptimizerShape, IsSeq
  <2>8. WaitingWereTold'
    <3>1. \A t \in Types : \A i \in DOMAIN queue'[t] : Listed(queue[t][i], t)'
      BY <1>1, <1>2 DEF WaitingWereTold, Listed
    <3>2. \A i \in DOMAIN batch'.units : InSet(batch.units[i], batch.cmd)'
      BY <1>1, <1>2 DEF WaitingWereTold, InSet
    <3>3. QED
      BY <1>2, <3>1, <3>2 DEF WaitingWereTold
  <2>9. AccountsBalance'
    <3> SUFFICES ASSUME NEW u \in Units, NEW w \in Ways, NEW c, c.type \in Types
                 PROVE  Accounted(u, c, w)
      BY <1>1, AccountStep
    <3>1. Due(u, c, w)' = Due(u, c, w)
          /\ Sent(u, c, w)' =
               Sent(u, c, w) + (IF u \in Range(us) /\ c = c0 /\ w = "list" THEN 1 ELSE 0)
      <4>1. Sent(u, c, w)' =
              Sent(u, c, w) + (IF u \in Range(us) /\ e.cmd = c /\ e.way = w THEN 1 ELSE 0)
        BY <1>1, <2>6, SentEffect
      <4>2. QED
        BY <1>2, <2>6, <4>1, DueStays
    <3>2. InLists(u, c)' = InLists(u, c) /\ InSets(u, c)' = InSets(u, c)
      BY <1>2, ListsStay, SetStays
    <3>3. Sent(u, c, w) \in Nat /\ Due(u, c, w) \in Nat /\ InLists(u, c) \in Nat
      BY <1>1, CountsAreNumbers
    <3>4. InGroups(u, c) = (IF c0 = c THEN Cardinality(Places(us, u)) ELSE 0)
      BY DEF InGroups, c0, us
    <3>5. InGroups(u, c)' = 0
      BY <1>2, PartsNext, NothingInEmpty
    <3>6. Cardinality(Places(us, u)) \in Nat
          /\ (Cardinality(Places(us, u)) > 0 <=> u \in Range(us))
      BY <2>1, PlacesInRange
    <3>7. CASE w = "list" /\ c = c0 /\ u \in Range(us)
      <4>1. /\ Waits(u, c, w) = InLists(u, c) + Cardinality(Places(us, u))
            /\ Waits(u, c, w)' = InLists(u, c)
        BY <3>2, <3>3, <3>4, <3>5, <3>7, WaitsNow, WaitsNext
      <4>2. Sent(u, c, w)' + Waits(u, c, w)' \in 1 .. Sent(u, c, w) + Waits(u, c, w)
        BY <3>1, <3>3, <3>6, <3>7, <4>1
      <4>3. QED
        BY <3>1, <4>2 DEF Accounted
    <3>8. CASE ~(w = "list" /\ c = c0 /\ u \in Range(us))
      <4>1. Waits(u, c, w)' = Waits(u, c, w)
        <5>1. CASE w = "list"
          <6>1. InGroups(u, c) = 0
            BY <3>4, <3>6, <3>8, <5>1
          <6>2. QED
            BY <3>2, <3>5, <5>1, <6>1, WaitsNow, WaitsNext
        <5>2. CASE w # "list"
          BY <3>2, <5>2, WaitsNow, WaitsNext DEF Ways
        <5>3. QED
          BY <5>1, <5>2
      <4>2. QED
        BY <3>1, <3>3, <3>8, <4>1 DEF Accounted
    <3>9. QED
      BY <3>7, <3>8
  <2>10. QED
    BY <2>5, <2>7, <2>8, <2>9 DEF OptimizerInv
<1>5. QED
  BY <1>3, <1>4

\* The steps that neither take nor send.
LEMMA QuietSteps ==
  ASSUME OptimizerInv,
         Pass \/ TurnEnds \/ FlushEnds \/ \E l \in Levels : SetLevel(l)
  PROVE  OptimizerInv'
<1>1. /\ cursor \in Nat \ {0} /\ batch = [cmd |-> batch.cmd, left |-> batch.left, units |-> batch.units]
      /\ phase # "flush" => group = <<>>
      /\ phase # "set" => batch.units = <<>>
      /\ phase = "sent" => \A t \in Types : queue[t] = <<>>
  BY DEF OptimizerInv, OptimizerShape
<1>2. CASE Pass
  <2>1. /\ phase = "flush" /\ phase' = phase /\ cursor' = cursor + 1
        /\ UNCHANGED <<queue, group, leader, batch, mode, given, received>>
    BY <1>2 DEF Pass, Working
  <2>2. cursor' \in Nat \ {0}
    BY <1>1, <2>1
  <2>3. QED
    BY <1>1, <2>1, <2>2, QuietStep DEF QuietBatch
<1>3. CASE TurnEnds
  <2>1. /\ phase = "ai" /\ phase' = "flush"
        /\ UNCHANGED <<queue, cursor, group, leader, batch, mode, given, received>>
    BY <1>3 DEF TurnEnds, flushVars
  <2>2. QED
    BY <1>1, <2>1, QuietStep DEF QuietBatch
<1>4. CASE FlushEnds
  <2>1. /\ phase = "flush" /\ phase' = "sent" /\ group = <<>>
        /\ UNCHANGED <<queue, cursor, group, batch, mode, given, received>>
    BY <1>4 DEF FlushEnds
  <2>2. \A t \in Types : queue[t] = <<>>
    BY <1>4 DEF FlushEnds, Pending, Types, Range
  <2>3. QED
    BY <1>1, <2>1, <2>2, QuietStep DEF QuietBatch
<1>5. CASE \E l \in Levels : SetLevel(l)
  <2>1. /\ phase = "ai" /\ phase' = phase
        /\ UNCHANGED <<queue, cursor, group, leader, batch, mode, given, received>>
    BY <1>5 DEF SetLevel, flushVars
  <2>2. QED
    BY <1>1, <2>1, QuietStep DEF QuietBatch
<1>6. QED
  BY <1>2, <1>3, <1>4, <1>5

LEMMA FreshSteps ==
  ASSUME OptimizerInv, NextFrame \/ NewMatch
  PROVE  OptimizerInv'
<1>1. CASE NextFrame
  <2>1. /\ phase = "sent" /\ phase' = "ai" /\ given' = Nothing /\ received' = Nothing
        /\ UNCHANGED <<queue, group, leader, cursor, batch>>
    BY <1>1 DEF NextFrame, flushVars
  <2>2. /\ group = <<>> /\ batch.units = <<>> /\ DOMAIN queue' = Types
        /\ \A t \in Types : queue'[t] = <<>>
    BY <2>1 DEF OptimizerInv, OptimizerShape
  <2>3. QED
    BY <2>1, <2>2, FreshStep
<1>2. CASE NewMatch
  <2>1. /\ phase = "ai" /\ phase' = "ai" /\ given' = Nothing /\ received' = Nothing
        /\ UNCHANGED <<group, leader, cursor, batch>> /\ queue' = EmptyQueue
    BY <1>2 DEF NewMatch, flushVars
  <2>2. group = <<>> /\ batch.units = <<>>
    BY <2>1 DEF OptimizerInv, OptimizerShape
  <2>3. DOMAIN queue' = Types /\ \A t \in Types : queue'[t] = <<>>
    BY <2>1 DEF EmptyQueue
  <2>4. QED
    BY <2>1, <2>2, <2>3, FreshStep
<1>3. QED
  BY <1>1, <1>2

LEMMA NothingStep ==
  ASSUME OptimizerInv, UNCHANGED vars
  PROVE  OptimizerInv'
<1>1. UNCHANGED <<phase, queue, cursor, group, leader, batch, mode, given, received>>
  BY DEF vars, flushVars
<1>2. /\ cursor \in Nat \ {0} /\ phase \in {"ai", "set", "flush", "sent"}
      /\ batch = [cmd |-> batch.cmd, left |-> batch.left, units |-> batch.units]
      /\ phase # "flush" => group = <<>>
      /\ phase # "set" => batch.units = <<>>
      /\ phase = "sent" => \A t \in Types : queue[t] = <<>>
  BY DEF OptimizerInv, OptimizerShape
<1>3. QED
  BY <1>1, <1>2, QuietStep DEF QuietBatch

\* The lists, the group, the set and the histories agree, whatever was given.
THEOREM OptimizerAccounts == Spec => []OptimizerInv
<1>1. ASSUME OptimizerInv, [Next]_vars
      PROVE  OptimizerInv'
  <2>1. CASE \E r \in Requests : Issue(r.unit, r.cmd)
    BY <1>1, <2>1, IssueStep
  <2>2. CASE \E c \in Commands : IssueToSet(c)
    BY <1>1, <2>2, IssueToSetStep
  <2>3. CASE \E u \in Units : VisitUnit(u)
    BY <1>1, <2>3, VisitStep
  <2>4. CASE SendGroup
    BY <1>1, <2>4, SendGroupStep
  <2>5. CASE SetIsDone
    BY <1>1, <2>5, SetIsDoneStep
  <2>6. CASE Pass \/ TurnEnds \/ FlushEnds \/ \E l \in Levels : SetLevel(l)
    BY <1>1, <2>6, QuietSteps
  <2>7. CASE Join
    BY <1>1, <2>7, JoinStep
  <2>8. CASE ListEnds
    BY <1>1, <2>8, ListEndsStep
  <2>9. CASE NextFrame \/ NewMatch
    BY <1>1, <2>9, FreshSteps
  <2>10. CASE UNCHANGED vars
    BY <1>1, <2>10, NothingStep
  <2>11. QED
    BY <1>1, <2>1, <2>2, <2>3, <2>4, <2>5, <2>6, <2>7, <2>8, <2>9, <2>10 DEF Next
<1>2. QED
  BY <1>1, InitOptimizerInv, PTL DEF Spec

LEMMA AccountsOfFrame ==
  ASSUME OptimizerInv
  PROVE  OrdersWereGiven /\ CommandsAreSent
<1>1. OptimizerShape /\ OrdersAreOwn /\ AccountsBalance
  BY DEF OptimizerInv
<1>2. /\ \A u \in Units : IsSeq(given[u]) /\ IsSeq(received[u])
  BY <1>1 DEF OptimizerShape
<1>3. \A l, x : Times(l, x) = Cardinality(Hits(l, x.cmd, x.way))
  BY DEF Times, Hits
<1>4. OrdersWereGiven
  <2> SUFFICES ASSUME NEW u \in Units, NEW i \in DOMAIN received[u]
               PROVE  /\ Times(received[u], received[u][i]) <= Times(given[u], received[u][i])
                      /\ \E j \in DOMAIN given[u] :
                           LET g == given[u][j]
                           IN /\ g.cmd = received[u][i].cmd /\ g.way = received[u][i].way
                              /\ DependsOnFront(u, g) \/ g.order = received[u][i].order
    BY DEF OrdersWereGiven
  <2> DEFINE r == received[u][i]
  <2>1. Obeyed(u, r)
    BY <1>1 DEF OrdersAreOwn
  <2>2. /\ Sent(u, r.cmd, r.way) = Times(received[u], r)
        /\ Due(u, r.cmd, r.way) = Times(given[u], r)
    BY <1>3 DEF Sent, Due
  <2> HIDE DEF r
  <2>3. r.way \in Ways /\ r.cmd.type \in Types
    BY <2>1 DEF Obeyed
  <2>4. /\ Sent(u, r.cmd, r.way) \in Nat /\ Due(u, r.cmd, r.way) \in Nat
        /\ Waits(u, r.cmd, r.way) \in Nat
    BY <1>1, <2>3, CountsAreNumbers
  <2>5. Balanced(u, r.cmd, r.way)
    BY <1>1, <2>3 DEF AccountsBalance
  <2>6. Sent(u, r.cmd, r.way) <= Due(u, r.cmd, r.way)
    BY <2>4, <2>5 DEF Balanced
  <2>7. \E j \in DOMAIN given[u] :
          /\ given[u][j].cmd = r.cmd /\ given[u][j].way = r.way
          /\ DependsOnFront(u, given[u][j]) \/ given[u][j].order = r.order
    <3>1. CASE r.way = "alone"
      BY <2>1, <3>1 DEF Obeyed
    <3>2. CASE r.way # "alone"
      <4>1. Sent(u, r.cmd, r.way) > 0
        BY <1>2, HitsCount DEF Sent, r
      <4>2. Cardinality(Hits(given[u], r.cmd, r.way)) > 0
        BY <2>4, <2>6, <4>1 DEF Due
      <4>3. PICK j \in DOMAIN given[u] : given[u][j].cmd = r.cmd /\ given[u][j].way = r.way
        BY <1>2, <4>2, HitsCount
      <4>4. WasTold(u, given[u][j])
        BY <1>1 DEF OrdersAreOwn
      <4>5. given[u][j].order = Order(u, r.cmd)
        BY <3>2, <4>3, <4>4 DEF WasTold
      <4>6. DependsOnFront(u, r) \/ r.order = Order(u, r.cmd)
        BY <2>1, <3>2 DEF Obeyed
      <4>7. DependsOnFront(u, r) => DependsOnFront(u, given[u][j])
        BY <4>3 DEF DependsOnFront
      <4>8. QED
        BY <4>3, <4>5, <4>6, <4>7
    <3>3. QED
      BY <3>1, <3>2
  <2>8. QED
    BY <2>2, <2>6, <2>7 DEF r
<1>5. CommandsAreSent
  <2> SUFFICES ASSUME phase = "sent", NEW u \in Units, NEW j \in DOMAIN given[u]
               PROVE  Times(received[u], given[u][j]) > 0
    BY DEF CommandsAreSent
  <2> DEFINE g == given[u][j]
  <2>1. WasTold(u, g)
    BY <1>1 DEF OrdersAreOwn
  <2>2. Due(u, g.cmd, g.way) > 0
    BY <1>2, HitsCount DEF Due
  <2>3. Sent(u, g.cmd, g.way) = Times(received[u], g)
    BY <1>3 DEF Sent
  <2> HIDE DEF g
  <2>4. g.way \in Ways /\ g.cmd.type \in Types
    BY <2>1 DEF WasTold
  <2>5. Balanced(u, g.cmd, g.way)
    BY <1>1, <2>4 DEF AccountsBalance
  <2>6. Sent(u, g.cmd, g.way) \in Nat /\ Waits(u, g.cmd, g.way) \in Nat
    BY <1>1, <2>4, CountsAreNumbers
  <2>7. Waits(u, g.cmd, g.way) = 0
    <3>1. queue[g.cmd.type] = <<>> /\ group = <<>> /\ batch.units = <<>>
      BY <1>1, <2>4 DEF OptimizerShape
    <3>2. InLists(u, g.cmd) = 0 /\ InGroups(u, g.cmd) = 0 /\ InSets(u, g.cmd) = 0
      BY <3>1, NothingInEmpty DEF InLists, InGroups, InSets
    <3>3. QED
      BY <2>4, <3>2, WaitsNow DEF Ways
  <2>8. Sent(u, g.cmd, g.way) > 0
    BY <2>2, <2>5, <2>6, <2>7 DEF Balanced
  <2>9. QED
    BY <2>3, <2>8 DEF g
<1>6. QED
  BY <1>4, <1>5

\* No unit gets an order that it was not given in the frame, nor more often: every
\* step of flush and of the loop over a set keeps the accounts, for any units,
\* commands, levels and size of a selection.
THEOREM NothingIsMadeUp == Spec => []OrdersWereGiven
<1>1. OptimizerInv => OrdersWereGiven
  BY AccountsOfFrame
<1>2. QED
  BY <1>1, OptimizerAccounts, PTL

\* When the frame is over, every command has been sent to its unit: the lists, the
\* group and the set are empty, so that what is not sent was not given.
THEOREM NothingIsLost == Spec => []CommandsAreSent
<1>1. OptimizerInv => CommandsAreSent
  BY AccountsOfFrame
<1>2. QED
  BY <1>1, OptimizerAccounts, PTL

-----------------------------------------------------------------------------
(* The order of a unit's orders.                                            *)

\* No command of the frame went into a list for this unit.
NeverListed(u) == \A j \in DOMAIN given[u] : given[u][j].way # "list"

\* What a unit got is what it was given, in that order; one more command is due
\* while the unit waits for its share of a call for a set.
AllSent(g, r) == Len(g) = Len(r) /\ \A i \in 1 .. Len(r) : r[i].cmd = g[i].cmd

OneDue(g, r, c) ==
  /\ Len(g) = Len(r) + 1 /\ g[Len(g)].cmd = c
  /\ \A i \in 1 .. Len(r) : r[i].cmd = g[i].cmd

GetsInOrder(u) ==
  IF u \in Range(batch.units) THEN OneDue(given[u], received[u], batch.cmd)
  ELSE AllSent(given[u], received[u])

DirectInOrder == \A u \in Units : NeverListed(u) => GetsInOrder(u)

\* A unit of the set is visited once, and waits in one place.
VisitedOnce ==
  /\ \A i, j \in DOMAIN batch.units : i # j => batch.units[i] # batch.units[j]
  /\ \A i \in DOMAIN batch.units : batch.units[i] \notin batch.left

OrderInv == DirectInOrder /\ VisitedOnce

\* Of a unit none of whose commands was taken by the optimizer: when the frame is
\* over it has got them all, each once, in the order in which they were given.
DirectCommandsInOrder ==
  phase = "sent" =>
    \A u \in Units : NeverListed(u) =>
      /\ Len(received[u]) = Len(given[u])
      /\ \A i \in 1 .. Len(given[u]) : received[u][i].cmd = given[u][i].cmd

LEMMA GivenAndSent ==
  ASSUME NEW g, IsSeq(g), NEW r, IsSeq(r), AllSent(g, r), NEW e, NEW f, e.cmd = f.cmd
  PROVE  AllSent(Append(g, e), Append(r, f))
<1> DEFINE gg == Append(g, e)
           rr == Append(r, f)
           n == Len(r)
<1>1. Len(gg) = Len(g) + 1 /\ gg[Len(g) + 1] = e /\ \A i \in DOMAIN g : gg[i] = g[i]
  BY AppendedIsSeq
<1>2. Len(rr) = n + 1 /\ rr[n + 1] = f /\ \A i \in DOMAIN r : rr[i] = r[i]
  BY AppendedIsSeq
<1>3. DOMAIN g = 1 .. Len(g) /\ DOMAIN r = 1 .. n /\ n \in Nat
  BY DEF IsSeq
<1>4. Len(g) = n /\ \A i \in 1 .. n : r[i].cmd = g[i].cmd
  BY <1>3 DEF AllSent
<1> HIDE DEF gg, rr, n
<1>5. ASSUME NEW i \in 1 .. n + 1 PROVE rr[i].cmd = gg[i].cmd
  <2>1. CASE i = n + 1
    BY <1>1, <1>2, <1>4, <2>1
  <2>2. CASE i \in 1 .. n
    BY <1>1, <1>2, <1>3, <1>4, <2>2
  <2>3. QED
    BY <1>3, <2>1, <2>2
<1>6. QED
  BY <1>1, <1>2, <1>3, <1>4, <1>5 DEF AllSent, gg, rr

LEMMA GivenAndWaits ==
  ASSUME NEW g, IsSeq(g), NEW r, IsSeq(r), AllSent(g, r), NEW e
  PROVE  OneDue(Append(g, e), r, e.cmd)
<1> DEFINE gg == Append(g, e)
           n == Len(r)
<1>1. Len(gg) = Len(g) + 1 /\ gg[Len(g) + 1] = e /\ \A i \in DOMAIN g : gg[i] = g[i]
  BY AppendedIsSeq
<1>2. DOMAIN g = 1 .. Len(g) /\ DOMAIN r = 1 .. n /\ n \in Nat
  BY DEF IsSeq
<1>3. Len(g) = n /\ \A i \in 1 .. n : r[i].cmd = g[i].cmd
  BY <1>2 DEF AllSent
<1> HIDE DEF gg, n
<1>4. \A i \in 1 .. n : r[i].cmd = gg[i].cmd
  BY <1>1, <1>2, <1>3
<1>5. Len(gg) = n + 1 /\ gg[Len(gg)].cmd = e.cmd
  BY <1>1, <1>3
<1>6. QED
  BY <1>4, <1>5 DEF OneDue, gg, n

LEMMA WaitedAndSent ==
  ASSUME NEW g, IsSeq(g), NEW r, IsSeq(r), NEW f, OneDue(g, r, f.cmd)
  PROVE  AllSent(g, Append(r, f))
<1> DEFINE rr == Append(r, f)
           n == Len(r)
<1>1. Len(rr) = n + 1 /\ rr[n + 1] = f /\ \A i \in DOMAIN r : rr[i] = r[i]
  BY AppendedIsSeq
<1>2. DOMAIN r = 1 .. n /\ n \in Nat
  BY DEF IsSeq
<1>3. Len(g) = n + 1 /\ g[n + 1].cmd = f.cmd /\ \A i \in 1 .. n : r[i].cmd = g[i].cmd
  BY <1>2 DEF OneDue
<1> HIDE DEF rr, n
<1>4. ASSUME NEW i \in 1 .. n + 1 PROVE rr[i].cmd = g[i].cmd
  <2>1. CASE i = n + 1
    BY <1>1, <1>3, <2>1
  <2>2. CASE i \in 1 .. n
    BY <1>1, <1>2, <1>3, <2>2
  <2>3. QED
    BY <1>2, <2>1, <2>2
<1>5. QED
  BY <1>1, <1>2, <1>3, <1>4 DEF AllSent, rr

\* Whoever is in a list, or in the group made of one, was given a command there.
LEMMA ListedUnitsAreListed ==
  ASSUME OptimizerInv
  PROVE  /\ \A t \in Types : \A i \in DOMAIN queue[t] : ~NeverListed(queue[t][i].unit)
         /\ \A i \in DOMAIN group : ~NeverListed(group[i])
<1>1. OptimizerShape /\ WaitingWereTold /\ AccountsBalance
  BY DEF OptimizerInv
<1>2. ASSUME NEW u \in Units, NEW c, c.type \in Types, InLists(u, c) > 0 \/ InGroups(u, c) > 0
      PROVE  ~NeverListed(u)
  <2>1. "list" \in Ways
    BY DEF Ways
  <2>2. /\ Sent(u, c, "list") \in Nat /\ Due(u, c, "list") \in Nat
        /\ InLists(u, c) \in Nat /\ InGroups(u, c) \in Nat
    BY <1>1, <1>2, <2>1, CountsAreNumbers
  <2>3. Sent(u, c, "list") + (InLists(u, c) + InGroups(u, c)) <= Due(u, c, "list")
    BY <1>1, <1>2, <2>1, WaitsNow DEF AccountsBalance, Balanced
  <2>4. Cardinality(Hits(given[u], c, "list")) > 0
    BY <1>2, <2>2, <2>3 DEF Due
  <2>5. IsSeq(given[u])
    BY <1>1 DEF OptimizerShape
  <2>6. \E j \in DOMAIN given[u] : given[u][j].cmd = c /\ given[u][j].way = "list"
    BY <2>4, <2>5, HitsCount
  <2>7. QED
    BY <2>6 DEF NeverListed
<1>3. ASSUME NEW t \in Types, NEW i \in DOMAIN queue[t]
      PROVE  ~NeverListed(queue[t][i].unit)
  <2> DEFINE x == queue[t][i]
  <2>1. Listed(x, t)
    BY <1>1 DEF WaitingWereTold
  <2>2. IsSeq(queue[t]) /\ x \in Range(queue[t])
    BY <1>1 DEF OptimizerShape, Range
  <2> HIDE DEF x
  <2>3. Cardinality(Places(queue[t], x)) > 0
    BY <2>2, PlacesInRange
  <2>4. x = [unit |-> x.unit, cmd |-> x.cmd] /\ x.unit \in Units /\ x.cmd.type = t
    BY <2>1 DEF Listed
  <2>5. InLists(x.unit, x.cmd) > 0
    BY <2>3, <2>4 DEF InLists
  <2>6. QED
    BY <1>2, <2>4, <2>5 DEF x
<1>4. ASSUME NEW i \in DOMAIN group
      PROVE  ~NeverListed(group[i])
  <2> DEFINE u == group[i]
  <2>1. u \in Units /\ leader.cmd.type \in Types
    BY <1>1 DEF WaitingWereTold, InGroup, IsCommand
  <2>2. IsSeq(group) /\ u \in Range(group)
    BY <1>1 DEF OptimizerShape, Range
  <2> HIDE DEF u
  <2>3. InGroups(u, leader.cmd) > 0
    BY <2>2, PlacesInRange DEF InGroups
  <2>4. QED
    BY <1>2, <2>1, <2>3 DEF u
<1>5. QED
  BY <1>3, <1>4

LEMMA FewerWereListed ==
  ASSUME NEW u, IsSeq(given[u]), \/ given'[u] = given[u]
                                \/ \E e : given'[u] = Append(given[u], e)
  PROVE  NeverListed(u)' => NeverListed(u)
<1>1. CASE given'[u] = given[u]
  BY <1>1 DEF NeverListed
<1>2. ASSUME NEW e, given'[u] = Append(given[u], e), NeverListed(u)'
      PROVE  NeverListed(u)
  <2>1. \A j \in DOMAIN Append(given[u], e) : Append(given[u], e)[j].way # "list"
    BY <1>2 DEF NeverListed
  <2>2. /\ DOMAIN given[u] \subseteq DOMAIN Append(given[u], e)
        /\ \A j \in DOMAIN given[u] : Append(given[u], e)[j] = given[u][j]
    BY AppendedIsSeq
  <2>3. QED
    BY <2>1, <2>2 DEF NeverListed
<1>3. QED
  BY <1>1, <1>2

LEMMA UnitStays ==
  ASSUME DirectInOrder, NEW u \in Units, given'[u] = given[u], received'[u] = received[u],
         u \in Range(batch'.units) <=> u \in Range(batch.units),
         u \in Range(batch.units) => batch'.cmd = batch.cmd
  PROVE  NeverListed(u)' => GetsInOrder(u)'
<1> SUFFICES ASSUME NeverListed(u)' PROVE GetsInOrder(u)'
  OBVIOUS
<1>1. GetsInOrder(u)
  BY DEF DirectInOrder, NeverListed
<1>2. Range(batch.units)' = Range(batch'.units)
  BY DEF Range
<1>3. QED
  BY <1>1, <1>2 DEF GetsInOrder, AllSent, OneDue

\* A step that gives no command and sends no order.
LEMMA QuietOrder ==
  ASSUME OrderInv, UNCHANGED <<given, received>>,
         \/ batch.units = <<>> /\ batch'.units = <<>>
         \/ batch' = batch
  PROVE  OrderInv'
<1>1. DirectInOrder /\ VisitedOnce
  BY DEF OrderInv
<1>2. Range(batch'.units) = Range(batch.units)
  OBVIOUS
<1>3. ASSUME NEW u \in Units PROVE u \in Range(batch.units) => batch'.cmd = batch.cmd
  BY DEF Range
<1>4. DirectInOrder'
  BY <1>1, <1>2, <1>3, UnitStays DEF DirectInOrder
<1>5. VisitedOnce'
  BY <1>1 DEF VisitedOnce
<1>6. QED
  BY <1>4, <1>5 DEF OrderInv

LEMMA LeftStays ==
  ASSUME VisitedOnce, batch'.units = batch.units, batch'.left \subseteq batch.left
  PROVE  VisitedOnce'
  BY DEF VisitedOnce

\* Those who are given a command in a list are not spoken of any more.
LEMMA TakeOrder ==
  ASSUME OptimizerShape, OrderInv, OthersStay, batch'.left \subseteq batch.left,
         NEW a \in Units, NEW c, Take(a, c)
  PROVE  OrderInv'
<1> DEFINE d == Rewritten(a, c)
           e == [cmd |-> d, order |-> Order(a, d), way |-> "list"]
<1>1. DirectInOrder /\ VisitedOnce
  BY DEF OrderInv
<1>2. given' = Given({a}, a, d, "list") /\ received' = received
  BY DEF Take
<1>3. GivesTo({a}, e)
  <2> HIDE DEF d
  <2>1. QED
    BY <1>2, GivenEffect
<1>4. e.way = "list"
  OBVIOUS
<1>5. batch'.units = batch.units /\ batch'.cmd = batch.cmd
  BY DEF OthersStay
<1> HIDE DEF d, e
<1>6. ASSUME NEW u \in Units PROVE NeverListed(u)' => GetsInOrder(u)'
  <2>1. CASE u = a
    <3>1. given'[u] = Append(given[u], e)
      BY <1>3, <2>1 DEF GivesTo
    <3>2. IsSeq(given[u])
      BY DEF OptimizerShape
    <3>3. Len(given[u]) + 1 \in DOMAIN Append(given[u], e)
          /\ Append(given[u], e)[Len(given[u]) + 1] = e
      BY <3>2, AppendedIsSeq
    <3>4. QED
      BY <1>4, <3>1, <3>3 DEF NeverListed
  <2>2. CASE u # a
    <3>1. given'[u] = given[u] /\ received'[u] = received[u]
      BY <1>2, <1>3, <2>2 DEF GivesTo
    <3>2. QED
      BY <1>1, <1>5, <3>1, UnitStays
  <2>3. QED
    BY <2>1, <2>2
<1>7. VisitedOnce'
  BY <1>1, <1>5, LeftStays
<1>8. QED
  BY <1>6, <1>7 DEF OrderInv, DirectInOrder

\* Whoever carries out a command at once is not waiting for another.
LEMMA ExecuteOrder ==
  ASSUME OptimizerShape, OrderInv, OthersStay, batch'.left \subseteq batch.left,
         NEW a, NEW c, Execute(a, c), a \notin Range(batch.units),
         c.type = "Use_Tech_Unit" /\ c.extra \in Merges => batch.units = <<>>
  PROVE  OrderInv'
<1> DEFINE us == IF c.type = "Use_Tech_Unit" /\ c.extra \in Merges
                 THEN <<a, c.target>> ELSE <<a>>
           vs == Range(us)
           e == [cmd |-> c, order |-> Order(a, c), way |-> "alone"]
<1>1. DirectInOrder /\ VisitedOnce
  BY DEF OrderInv
<1>2. given' = Given(vs, a, c, "alone") /\ received' = Got(us, a, c, "alone")
  BY DEF Execute
<1>3. Selected(us) = vs
  BY FewAreSelected
<1>4. vs \cap Range(batch.units) = {}
  <2>1. CASE us = <<a, c.target>> /\ batch.units = <<>>
    BY <2>1 DEF Range
  <2>2. CASE us = <<a>>
    BY <2>2 DEF Range
  <2>3. QED
    BY <2>1, <2>2
<1>5. batch'.units = batch.units /\ batch'.cmd = batch.cmd
  BY DEF OthersStay
<1> HIDE DEF us, vs
<1>6. GivesTo(vs, e)
  BY <1>2, GivenEffect
<1>7. SendsTo(vs, e)
  BY <1>2, <1>3, GotEffect
<1> HIDE DEF e
<1>8. ASSUME NEW u \in Units PROVE NeverListed(u)' => GetsInOrder(u)'
  <2>1. CASE u \in vs
    <3>1. given'[u] = Append(given[u], e) /\ received'[u] = Append(received[u], e)
      BY <1>6, <1>7, <2>1 DEF GivesTo, SendsTo
    <3>2. IsSeq(given[u]) /\ IsSeq(received[u])
      BY DEF OptimizerShape
    <3>3. u \notin Range(batch.units)
      BY <1>4, <2>1
    <3>4. NeverListed(u)' => NeverListed(u)
      BY <3>1, <3>2, FewerWereListed
    <3>5. ASSUME NeverListed(u)
          PROVE  AllSent(Append(given[u], e), Append(received[u], e))
      <4>1. AllSent(given[u], received[u])
        BY <1>1, <3>3, <3>5 DEF DirectInOrder, GetsInOrder
      <4>2. QED
        BY <3>2, <4>1, GivenAndSent
    <3>6. ~(u \in Range(batch.units))'
      BY <1>5, <3>3 DEF Range
    <3>7. NeverListed(u)' => AllSent(given[u], received[u])'
      BY <3>1, <3>4, <3>5 DEF AllSent
    <3>8. QED
      BY <3>6, <3>7 DEF GetsInOrder
  <2>2. CASE u \notin vs
    <3>1. given'[u] = given[u] /\ received'[u] = received[u]
      BY <1>6, <1>7, <2>2 DEF GivesTo, SendsTo
    <3>2. QED
      BY <1>1, <1>5, <3>1, UnitStays
  <2>3. QED
    BY <2>1, <2>2
<1>9. VisitedOnce'
  BY <1>1, <1>5, LeftStays
<1>10. QED
  BY <1>8, <1>9 DEF OrderInv, DirectInOrder

\* A larva that is chosen has no command, and so does not wait.
LEMMA IssueToOrder ==
  ASSUME OptimizerShape, OrderInv, OthersStay, batch'.left \subseteq batch.left,
         NEW r \in Requests, IssueTo(r.unit, r.cmd), r.unit \notin Range(batch.units),
         r.cmd.type = "Use_Tech_Unit" /\ r.cmd.extra \in Merges => batch.units = <<>>
  PROVE  OrderInv'
<1>1. PICK a \in Actors(r.unit, r.cmd) : Take(a, r.cmd) \/ Execute(a, r.cmd)
  BY DEF IssueTo
<1>2. a \in Doers(r.unit, r.cmd) /\ (Kind[a] = "Larva" => given[a] = <<>>)
  BY DEF Actors
<1>3. a \in Units
  BY <1>2, DoersAreUnits
<1>4. a \notin Range(batch.units)
  <2>1. CASE a = r.unit
    BY <2>1
  <2>2. CASE a # r.unit
    <3>1. a \in Larvae[r.unit] /\ r.unit \in Units
      BY <1>2, <2>2, RequestsAssumption DEF Doers
    <3>2. given[a] = <<>>
      BY <1>2, <3>1, LarvaeAssumption
    <3>3. GetsInOrder(a)
      <4>1. NeverListed(a)
        BY <3>2 DEF NeverListed
      <4>2. QED
        BY <1>3, <4>1 DEF OrderInv, DirectInOrder
    <3>4. Len(given[a]) = 0 /\ Len(received[a]) \in Nat
      BY <1>3, <3>2 DEF OptimizerShape, IsSeq
    <3>5. QED
      BY <3>3, <3>4 DEF GetsInOrder, OneDue
  <2>3. QED
    BY <2>1, <2>2
<1>5. CASE Take(a, r.cmd)
  BY <1>3, <1>5, TakeOrder
<1>6. CASE Execute(a, r.cmd)
  BY <1>4, <1>6, ExecuteOrder
<1>7. QED
  BY <1>1, <1>5, <1>6

LEMMA IssueOrder ==
  ASSUME OptimizerInv, OrderInv, NEW r \in Requests, Issue(r.unit, r.cmd)
  PROVE  OrderInv'
<1>1. OptimizerShape /\ batch.units = <<>>
  BY DEF OptimizerInv, OptimizerShape, Issue
<1>2. OthersStay /\ batch' = batch
  BY <1>1 DEF OptimizerShape, Issue, OthersStay, flushVars
<1>3. r.unit \notin Range(batch.units)
  BY <1>1 DEF Range
<1>4. QED
  BY <1>1, <1>2, <1>3, IssueToOrder DEF Issue

\* A unit of the set that can share a selection begins to wait.
LEMMA JoinSetOrder ==
  ASSUME OptimizerShape, OrderInv, NEW u0 \in batch.left,
         given' = Given({u0}, u0, batch.cmd, "set"), received' = received,
         batch' = [cmd |-> batch.cmd, left |-> batch.left \ {u0},
                   units |-> Append(batch.units, u0)]
  PROVE  OrderInv'
<1> DEFINE e == [cmd |-> batch.cmd, order |-> Order(u0, batch.cmd), way |-> "set"]
           all == batch.units
           n == Len(all)
<1>1. DirectInOrder /\ VisitedOnce
  BY DEF OrderInv
<1>2. GivesTo({u0}, e)
  BY GivenEffect
<1>3. e.cmd = batch.cmd /\ batch'.cmd = batch.cmd /\ batch'.units = Append(all, u0)
      /\ batch'.left = batch.left \ {u0}
  OBVIOUS
<1>4. IsSeq(all)
  BY DEF OptimizerShape
<1> HIDE DEF e, all
<1>5. /\ DOMAIN batch'.units = DOMAIN all \cup {n + 1} /\ batch'.units[n + 1] = u0
      /\ \A i \in DOMAIN all : batch'.units[i] = all[i]
      /\ DOMAIN all = 1 .. n /\ n \in Nat
  BY <1>3, <1>4, AppendedIsSeq
<1> HIDE DEF n
<1>6. Range(batch'.units) = Range(batch.units) \cup {u0}
  BY <1>5 DEF Range, all
<1>7. \A i \in DOMAIN all : all[i] \notin batch.left
  BY <1>1 DEF VisitedOnce, all
<1>8. u0 \notin Range(batch.units)
  BY <1>7 DEF Range, all
<1>9. ASSUME NEW u \in Units PROVE NeverListed(u)' => GetsInOrder(u)'
  <2>1. CASE u = u0
    <3>1. given'[u] = Append(given[u], e)
      BY <1>2, <2>1 DEF GivesTo
    <3>2. IsSeq(given[u]) /\ IsSeq(received[u])
      BY DEF OptimizerShape
    <3>3. NeverListed(u)' => NeverListed(u)
      BY <3>1, <3>2, FewerWereListed
    <3>4. ASSUME NeverListed(u) PROVE OneDue(Append(given[u], e), received[u], e.cmd)
      <4>1. AllSent(given[u], received[u])
        BY <1>1, <1>8, <2>1, <3>4 DEF DirectInOrder, GetsInOrder
      <4>2. QED
        BY <3>2, <4>1, GivenAndWaits
    <3>5. (u \in Range(batch.units))'
      BY <1>6, <2>1 DEF Range
    <3>6. NeverListed(u)' => OneDue(given[u], received[u], batch.cmd)'
      BY <1>3, <3>1, <3>3, <3>4 DEF OneDue
    <3>7. QED
      BY <3>5, <3>6 DEF GetsInOrder
  <2>2. CASE u # u0
    <3>1. given'[u] = given[u] /\ received'[u] = received[u]
      BY <1>2, <2>2 DEF GivesTo
    <3>2. u \in Range(batch'.units) <=> u \in Range(batch.units)
      BY <1>6, <2>2
    <3>3. QED
      BY <1>1, <1>3, <3>1, <3>2, UnitStays
  <2>3. QED
    BY <2>1, <2>2
<1>10. VisitedOnce'
  <2>1. ASSUME NEW i \in DOMAIN batch'.units, NEW j \in DOMAIN batch'.units, i # j
        PROVE  batch'.units[i] # batch'.units[j]
    <3>1. CASE i \in DOMAIN all /\ j \in DOMAIN all
      BY <1>1, <1>5, <2>1, <3>1 DEF VisitedOnce, all
    <3>2. CASE i = n + 1 /\ j \in DOMAIN all
      BY <1>5, <1>7, <3>2
    <3>3. CASE j = n + 1 /\ i \in DOMAIN all
      BY <1>5, <1>7, <3>3
    <3>4. QED
      BY <1>5, <2>1, <3>1, <3>2, <3>3
  <2>2. ASSUME NEW i \in DOMAIN batch'.units PROVE batch'.units[i] \notin batch'.left
    BY <1>3, <1>5, <1>7, <2>2
  <2>3. QED
    BY <2>1, <2>2 DEF VisitedOnce
<1>11. QED
  BY <1>9, <1>10 DEF OrderInv, DirectInOrder

LEMMA VisitOrder ==
  ASSUME OptimizerInv, OrderInv, NEW u \in Units, VisitUnit(u)
  PROVE  OrderInv'
<1> DEFINE c == batch.cmd
           r == [unit |-> u, cmd |-> c]
<1>1. OptimizerShape /\ VisitedOnce
  BY DEF OptimizerInv, OrderInv
<1>2. /\ phase = "set" /\ u \in batch.left /\ UNCHANGED <<phase, cursor, group, leader, mode>>
      /\ batch = [cmd |-> batch.cmd, left |-> batch.left, units |-> batch.units]
  BY <1>1 DEF VisitUnit, flushVars, OptimizerShape
<1>3. [batch EXCEPT !.left = @ \ {u}] =
        [cmd |-> batch.cmd, left |-> batch.left \ {u}, units |-> batch.units]
  BY <1>2
<1>4. ASSUME batch' = [batch EXCEPT !.left = @ \ {u}]
      PROVE  OthersStay /\ batch'.left \subseteq batch.left
  BY <1>2, <1>3, <1>4 DEF OthersStay
<1>5. u \notin Range(batch.units)
  BY <1>1, <1>2 DEF VisitedOnce, Range
<1>6. CASE /\ CanGroup(u, c) /\ ~Taken(u, c)
           /\ given' = Given({u}, u, c, "set")
           /\ batch' = [[batch EXCEPT !.left = @ \ {u}] EXCEPT !.units = Append(@, u)]
           /\ UNCHANGED <<queue, received>>
  <2>1. batch' = [cmd |-> batch.cmd, left |-> batch.left \ {u}, units |-> Append(batch.units, u)]
    BY <1>3, <1>6
  <2>2. QED
    BY <1>1, <1>2, <1>6, <2>1, JoinSetOrder
<1>7. CASE CanGroup(u, c) /\ Take(u, c) /\ batch' = [batch EXCEPT !.left = @ \ {u}]
  BY <1>1, <1>4, <1>7, TakeOrder
<1>8. CASE ~CanGroup(u, c) /\ Legal(u, c) /\ IssueTo(u, c)
           /\ batch' = [batch EXCEPT !.left = @ \ {u}]
  <2>1. r \in Requests /\ r.unit = u /\ r.cmd = c
    BY <1>8 DEF Legal
  <2>2. Kind[u] \in Buildings \/ c.type \in NeverGrouped
    BY <1>8 DEF CanGroup
  <2>3. ~(c.type = "Use_Tech_Unit" /\ c.extra \in Merges)
    BY <2>1, <2>2, RequestsAssumption DEF NeverGrouped
  <2>4. QED
    BY <1>1, <1>4, <1>5, <1>8, <2>1, <2>3, IssueToOrder
<1>9. CASE ~Legal(u, c) /\ batch' = [batch EXCEPT !.left = @ \ {u}]
           /\ UNCHANGED <<queue, given, received>>
  <2>1. batch'.units = batch.units /\ batch'.cmd = batch.cmd /\ batch'.left \subseteq batch.left
    BY <1>3, <1>9
  <2>2. VisitedOnce'
    BY <1>1, <2>1, LeftStays
  <2>3. DirectInOrder'
    BY <1>9, <2>1, UnitStays DEF OrderInv, DirectInOrder
  <2>4. QED
    BY <2>2, <2>3 DEF OrderInv
<1>10. QED
  BY <1>6, <1>7, <1>8, <1>9 DEF VisitUnit

\* Those who are selected wait no longer, the others still do.
LEMMA SendGroupOrder ==
  ASSUME OptimizerInv, OrderInv, SendGroup
  PROVE  OrderInv'
<1> DEFINE all == batch.units
           n == IF Len(all) < GroupMax THEN Len(all) ELSE GroupMax
           us == SubSeq(all, 1, n)
           rest == SubSeq(all, n + 1, Len(all))
           e == [cmd |-> batch.cmd, order |-> Order(Head(us), batch.cmd), way |-> "set"]
<1>1. OptimizerShape /\ DirectInOrder /\ VisitedOnce
  BY DEF OptimizerInv, OrderInv
<1>2. /\ all # <<>> /\ received' = Got(us, Head(us), batch.cmd, "set") /\ given' = given
      /\ batch' = [batch EXCEPT !.units = rest]
  BY DEF SendGroup
<1>3. IsSeq(all) /\ all \in Seq(Range(all)) /\ Len(all) \in Nat /\ Len(all) > 0
      /\ DOMAIN all = 1 .. Len(all)
  BY <1>1, <1>2 DEF OptimizerShape, IsSeq
<1>4. n \in 1 .. Len(all) /\ n <= GroupMax
  BY <1>3, GroupMaxAssumption
<1>5. batch'.cmd = batch.cmd /\ batch'.units = rest /\ batch'.left = batch.left
  <2>1. batch = [cmd |-> batch.cmd, left |-> batch.left, units |-> batch.units]
    BY <1>1 DEF OptimizerShape
  <2> HIDE DEF us, rest
  <2>2. batch' = [cmd |-> batch.cmd, left |-> batch.left, units |-> rest]
    BY <1>2, <2>1
  <2>3. QED
    BY <2>2
<1>6. e.cmd = batch.cmd
  OBVIOUS
<1> HIDE DEF n, e
<1>7. /\ IsSeq(us) /\ DOMAIN us = 1 .. n /\ Len(us) = n /\ \A i \in 1 .. n : us[i] = all[i]
  <2>1. 1 \in 1 .. Len(all) + 1 /\ n \in 0 .. Len(all)
    BY <1>3, <1>4
  <2>2. IsSeq(us)
    BY <1>3, <2>1, PartIsSeq
  <2>3. QED
    BY <1>3, <1>4, <2>2
<1>8. /\ DOMAIN rest = 1 .. (Len(all) - n) /\ \A i \in DOMAIN rest : rest[i] = all[n + i]
  BY <1>3, <1>4
<1> HIDE DEF us, rest
<1>9. Selected(us) = Range(us)
  BY <1>4, <1>7, AllSelected
<1>10. SendsTo(Range(us), e)
  BY <1>1, <1>2, <1>9, GotEffect DEF e
<1>11. \A i \in DOMAIN all, j \in DOMAIN all : i # j => all[i] # all[j]
  BY <1>1 DEF VisitedOnce
<1>12. Range(us) \subseteq Range(all) /\ Range(rest) = Range(all) \ Range(us)
  <2>1. ASSUME NEW i \in 1 .. n PROVE us[i] = all[i] /\ all[i] \in Range(all) /\ all[i] \notin Range(rest)
    <3>1. i \in DOMAIN all
      BY <1>3, <1>4
    <3>2. ASSUME NEW j \in DOMAIN rest PROVE rest[j] # all[i]
      <4>1. n + j \in DOMAIN all /\ n + j # i
        BY <1>3, <1>4, <1>8
      <4>2. QED
        BY <1>8, <1>11, <3>1, <4>1
    <3>3. QED
      BY <1>7, <3>1, <3>2 DEF Range
  <2>2. ASSUME NEW j \in DOMAIN rest PROVE rest[j] \in Range(all)
    <3>1. n + j \in DOMAIN all
      BY <1>3, <1>4, <1>8
    <3>2. QED
      BY <1>8, <3>1 DEF Range
  <2>3. ASSUME NEW k \in DOMAIN all PROVE all[k] \in Range(us) \/ all[k] \in Range(rest)
    <3>1. CASE k <= n
      <4>1. k \in 1 .. n
        BY <1>3, <3>1
      <4>2. QED
        BY <1>7, <4>1 DEF Range
    <3>2. CASE k > n
      <4>1. k - n \in DOMAIN rest /\ n + (k - n) = k
        BY <1>3, <1>4, <1>8, <3>2
      <4>2. QED
        BY <1>8, <4>1 DEF Range
    <3>3. QED
      BY <1>3, <1>4, <3>1, <3>2
  <2>4. QED
    BY <1>7, <2>1, <2>2, <2>3 DEF Range
<1>13. ASSUME NEW u \in Units PROVE NeverListed(u)' => GetsInOrder(u)'
  <2>1. CASE u \in Range(us)
    <3>1. received'[u] = Append(received[u], e) /\ given'[u] = given[u]
      BY <1>2, <1>10, <2>1 DEF SendsTo
    <3>2. IsSeq(given[u]) /\ IsSeq(received[u])
      BY <1>1 DEF OptimizerShape
    <3>3. ASSUME NeverListed(u) PROVE AllSent(given[u], Append(received[u], e))
      <4>1. OneDue(given[u], received[u], e.cmd)
        BY <1>1, <1>6, <1>12, <2>1, <3>3 DEF DirectInOrder, GetsInOrder
      <4>2. QED
        BY <3>2, <4>1, WaitedAndSent
    <3>4. ~(u \in Range(batch.units))'
      BY <1>5, <1>12, <2>1 DEF Range
    <3>5. NeverListed(u)' => AllSent(given[u], received[u])'
      BY <3>1, <3>3 DEF AllSent, NeverListed
    <3>6. QED
      BY <3>4, <3>5 DEF GetsInOrder
  <2>2. CASE u \notin Range(us)
    <3>1. received'[u] = received[u] /\ given'[u] = given[u]
      BY <1>2, <1>10, <2>2 DEF SendsTo
    <3>2. u \in Range(batch'.units) <=> u \in Range(batch.units)
      BY <1>5, <1>12, <2>2
    <3>3. QED
      BY <1>1, <1>5, <3>1, <3>2, UnitStays
  <2>3. QED
    BY <2>1, <2>2
<1>14. VisitedOnce'
  <2>1. ASSUME NEW i \in DOMAIN rest PROVE n + i \in DOMAIN all /\ rest[i] = all[n + i]
    BY <1>3, <1>4, <1>8
  <2>2. ASSUME NEW i \in DOMAIN rest, NEW j \in DOMAIN rest, i # j PROVE rest[i] # rest[j]
    <3>1. n + i # n + j
      BY <1>4, <1>8, <2>2
    <3>2. QED
      BY <1>11, <2>1, <3>1
  <2>3. ASSUME NEW i \in DOMAIN rest PROVE rest[i] \notin batch.left
    BY <1>1, <2>1 DEF VisitedOnce
  <2>4. QED
    BY <1>5, <2>2, <2>3 DEF VisitedOnce
<1>15. QED
  BY <1>13, <1>14 DEF OrderInv, DirectInOrder

\* The optimizer sends to those who are in a list, who are not spoken of.
LEMMA ListsOrder ==
  ASSUME OptimizerShape, OrderInv, UNCHANGED <<given, batch>>, NEW vs, NEW e, SendsTo(vs, e),
         \A u \in vs : ~NeverListed(u)
  PROVE  OrderInv'
<1>1. ASSUME NEW u \in Units PROVE NeverListed(u)' => GetsInOrder(u)'
  <2>1. CASE u \in vs
    <3>1. IsSeq(given[u])
      BY DEF OptimizerShape
    <3>2. QED
      BY <2>1, <3>1, FewerWereListed
  <2>2. CASE u \notin vs
    <3>1. received'[u] = received[u] /\ given'[u] = given[u]
      BY <2>2 DEF SendsTo
    <3>2. QED
      BY <3>1, UnitStays DEF OrderInv
  <2>3. QED
    BY <2>1, <2>2
<1>2. VisitedOnce'
  BY DEF OrderInv, VisitedOnce
<1>3. QED
  BY <1>1, <1>2 DEF OrderInv, DirectInOrder

LEMMA JoinOrder ==
  ASSUME OptimizerInv, OrderInv, Join
  PROVE  OrderInv'
<1>1. OptimizerShape /\ WaitingWereTold /\ OrdersAreOwn
  BY DEF OptimizerInv
<1>2. PICK t, x, us :
        /\ t \in Types
        /\ cursor \in DOMAIN queue[t] /\ x = queue[t][cursor] /\ Listed(x, t)
        /\ queue' = [queue EXCEPT ![t] = RemoveAt(@, cursor)]
        /\ us = Append(group, x.unit) /\ IsSeq(us) /\ Len(us) = Len(group) + 1
        /\ leader'.cmd = x.cmd /\ (group = <<>> \/ leader' = leader)
        /\ \A i \in DOMAIN us :
             us[i] \in Units /\ Meant(us[i], x.cmd) /\ Oddity(us[i], t) = leader'.odd
        /\ \/ Full(us) /\ group' = <<>> /\ received' = SendTo(us, x.cmd)
           \/ ~Full(us) /\ group' = us /\ received' = received
  BY JoinTakes, Zenon
<1>3. UNCHANGED <<batch, mode, given>>
  BY DEF Join
<1>4. CASE received' = received
  BY <1>3, <1>4, QuietOrder
<1>5. CASE Full(us) /\ received' = SendTo(us, x.cmd)
  <2> DEFINE c0 == x.cmd
             o == leader'.odd
  <2>1. /\ c0.type \in Types /\ received' = SendTo(us, c0)
        /\ \A i \in DOMAIN us : us[i] \in Units /\ Meant(us[i], c0) /\ Oddity(us[i], c0.type) = o
    BY <1>2, <1>5 DEF Listed
  <2>2. us # <<>> /\ Len(us) <= GroupMax
    BY <1>5, GroupMaxAssumption DEF Full
  <2> HIDE DEF c0, o
  <2>3. PICK e : SendsTo(Range(us), e)
    BY <1>1, <1>2, <1>3, <2>1, <2>2, SendToEffect
  <2>4. ASSUME NEW i \in DOMAIN us PROVE ~NeverListed(us[i])
    <3>1. DOMAIN us = DOMAIN group \cup {Len(group) + 1} /\ us[Len(group) + 1] = x.unit
          /\ \A j \in DOMAIN group : us[j] = group[j]
      BY <1>1, <1>2, AppendedIsSeq DEF OptimizerShape
    <3>2. ~NeverListed(x.unit) /\ \A j \in DOMAIN group : ~NeverListed(group[j])
      BY <1>2, ListedUnitsAreListed
    <3>3. QED
      BY <3>1, <3>2
  <2>5. \A u \in Range(us) : ~NeverListed(u)
    BY <2>4 DEF Range
  <2>6. QED
    BY <1>1, <1>3, <2>3, <2>5, ListsOrder
<1>6. QED
  BY <1>2, <1>4, <1>5

LEMMA ListEndsOrder ==
  ASSUME OptimizerInv, OrderInv, ListEnds
  PROVE  OrderInv'
<1>1. OptimizerShape /\ WaitingWereTold /\ OrdersAreOwn
  BY DEF OptimizerInv
<1>2. /\ UNCHANGED <<batch, mode, given>>
      /\ \/ group = <<>> /\ received' = received
         \/ group # <<>> /\ received' = SendTo(group, leader.cmd)
  BY DEF ListEnds
<1>3. CASE received' = received
  BY <1>2, <1>3, QuietOrder
<1>4. CASE group # <<>> /\ received' = SendTo(group, leader.cmd)
  <2> DEFINE us == group
             c0 == leader.cmd
             o == leader.odd
  <2>1. IsSeq(us) /\ Len(us) <= GroupMax /\ us # <<>>
    BY <1>1, <1>4, GroupMaxAssumption DEF OptimizerShape, IsSeq
  <2>2. c0.type \in Types
    BY <1>1, <1>4, SameCommand
  <2>3. \A i \in DOMAIN us : us[i] \in Units /\ Meant(us[i], c0) /\ Oddity(us[i], c0.type) = o
    BY <1>1 DEF WaitingWereTold, InGroup
  <2>4. \A u \in Range(us) : ~NeverListed(u)
    BY ListedUnitsAreListed DEF Range
  <2> HIDE DEF us, c0, o
  <2>5. received' = SendTo(us, c0)
    BY <1>4 DEF us, c0
  <2>6. PICK e : SendsTo(Range(us), e)
    BY <1>1, <1>2, <2>1, <2>2, <2>3, <2>5, SendToEffect
  <2>7. QED
    BY <1>1, <1>2, <2>4, <2>6, ListsOrder
<1>5. QED
  BY <1>2, <1>3, <1>4

\* A frame begins with nothing given.
LEMMA FreshOrder ==
  ASSUME batch.units = <<>>, given = Nothing, received = Nothing
  PROVE  OrderInv
<1>1. ASSUME NEW u \in Units PROVE GetsInOrder(u)
  <2>1. u \notin Range(batch.units)
    BY DEF Range
  <2>2. given[u] = <<>> /\ received[u] = <<>>
    BY DEF Nothing
  <2>3. QED
    BY <2>1, <2>2 DEF GetsInOrder, AllSent
<1>2. QED
  BY <1>1 DEF OrderInv, DirectInOrder, VisitedOnce

LEMMA OrderStep ==
  ASSUME OptimizerInv, OptimizerInv', OrderInv, [Next]_vars
  PROVE  OrderInv'
<1>1. (phase # "set" => batch.units = <<>>) /\ (phase' # "set" => batch'.units = <<>>)
  BY DEF OptimizerInv, OptimizerShape
<1>2. CASE \E r \in Requests : Issue(r.unit, r.cmd)
  BY <1>2, IssueOrder
<1>3. CASE \E c \in Commands : IssueToSet(c)
  <2>1. UNCHANGED <<given, received>> /\ batch'.units = <<>> /\ batch.units = <<>>
    BY <1>1, <1>3 DEF IssueToSet
  <2>2. QED
    BY <2>1, QuietOrder
<1>4. CASE \E u \in Units : VisitUnit(u)
  BY <1>4, VisitOrder
<1>5. CASE SendGroup
  BY <1>5, SendGroupOrder
<1>6. CASE SetIsDone
  <2>1. UNCHANGED <<given, received>> /\ batch'.units = <<>> /\ batch.units = <<>>
    BY <1>6 DEF SetIsDone, NoBatch
  <2>2. QED
    BY <2>1, QuietOrder
<1>7. CASE Pass \/ TurnEnds \/ FlushEnds \/ (\E l \in Levels : SetLevel(l)) \/ UNCHANGED vars
  <2>1. UNCHANGED <<given, received, batch>>
    BY <1>7 DEF Pass, TurnEnds, FlushEnds, SetLevel, vars
  <2>2. QED
    BY <2>1, QuietOrder
<1>8. CASE Join
  BY <1>8, JoinOrder
<1>9. CASE ListEnds
  BY <1>9, ListEndsOrder
<1>10. CASE NextFrame \/ NewMatch
  <2>1. given' = Nothing /\ received' = Nothing /\ batch'.units = <<>>
    BY <1>1, <1>10 DEF NextFrame, NewMatch
  <2>2. QED
    BY <2>1 DEF OrderInv, DirectInOrder, GetsInOrder, AllSent, VisitedOnce, Nothing, Range
<1>11. QED
  BY <1>2, <1>3, <1>4, <1>5, <1>6, <1>7, <1>8, <1>9, <1>10 DEF Next

\* When the frame is over, a unit none of whose commands was taken by the optimizer
\* has got each of them once, in the order in which they were given: the commands
\* that are sent at once and those of a call for a set do not overtake one another,
\* with any units, levels and size of a selection.
THEOREM DirectCommandsKeepTheirOrder == Spec => []DirectCommandsInOrder
<1>1. Init => OrderInv
  BY FreshOrder DEF Init, NoBatch
<1>2. OptimizerInv /\ OrderInv => DirectCommandsInOrder
  <2> SUFFICES ASSUME OptimizerInv, OrderInv, phase = "sent", NEW u \in Units, NeverListed(u)
               PROVE  /\ Len(received[u]) = Len(given[u])
                      /\ \A i \in 1 .. Len(given[u]) : received[u][i].cmd = given[u][i].cmd
    BY DEF DirectCommandsInOrder
  <2>1. u \notin Range(batch.units)
    BY DEF OptimizerInv, OptimizerShape, Range
  <2>2. GetsInOrder(u)
    BY DEF OrderInv, DirectInOrder
  <2>3. QED
    BY <2>1, <2>2 DEF GetsInOrder, AllSent
<1>3. OptimizerInv /\ OptimizerInv' /\ OrderInv /\ [Next]_vars => OrderInv'
  BY OrderStep
<1>4. QED
  BY <1>1, <1>2, <1>3, OptimizerAccounts, PTL DEF Spec
=============================================================================
