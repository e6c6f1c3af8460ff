------------------------ MODULE LatencyCompensation ------------------------
(* What the AI is shown of the effects its commands will have.  Brood War  *)
(* carries a command out some frames after it was given; until then        *)
(* GameImpl::applyLatencyCompensation applies its effects, in every frame, *)
(* to the data just read from the game (commandBuffer, CommandTemp).       *)
(*                                                                         *)
(* Modelled are the commands that cost something or give it back, for one  *)
(* unit each: a factory that trains, a depot that builds its addon, and a  *)
(* laboratory.  Minerals stand for gas and supply too.  Nothing is ever    *)
(* finished: the commands are given within less than a unit's build time.  *)
(* The events of type Finish, which touch orders only, are left out.       *)
EXTENDS Integers, FiniteSets, SequencesExt

CONSTANTS
  TrainKinds,     \* what the factory trains
  Price,          \* the mineral price of each kind
  AddonPrice, TechPrice,
  CancelSlots,    \* the slots given to cancelTrain, -2 for the last
  QueueMax,       \* the five slots of a training queue
  Turn,           \* frames between two calls of SNetSendTurn
  Latency,        \* getLatencyFrames, a multiple of Turn that is greater than it
  Wealth,         \* minerals at the start
  MaxOrders,      \* bound: commands given
  MaxCancels      \* bound: cancellations in the buffer at a time

VARIABLES
  age,            \* getFrameCount() - lastTurnFrame
  game,           \* the match as Brood War has it
  shown,          \* the data the AI sees
  commandBuffer,  \* for each of the next frames, the events due then
  sent,           \* the commands on their way, with the frames they still need
  ordered         \* commands given

latencyVars == <<age, game, shown, commandBuffer, sent, ordered>>

LatencyAssumption ==
  /\ Price \in [TrainKinds -> Nat] /\ AddonPrice \in Nat /\ TechPrice \in Nat
  /\ CancelSlots \subseteq {-2} \cup Nat
  /\ Wealth \subseteq Nat
  /\ Turn \in Nat \ {0} /\ Latency \in Nat /\ Turn < Latency

RemainingLatencyFrames == Latency - age

Command(type, what) == [type |-> type, what |-> what]
CostlyCommands ==
  {Command("Train", k) : k \in TrainKinds}
    \cup {Command("Cancel_Train", i) : i \in CancelSlots}
    \cup {Command(t, 0) : t \in {"Build_Addon", "Cancel_Addon", "Research", "Cancel_Research"}}

Refund(price) == (3 * price) \div 4

-----------------------------------------------------------------------------
(* Brood War.  It takes the minerals for an addon a frame late; it shows a *)
(* change of the training queue a frame late (seen).                       *)

\* The command is not carried out for want of minerals.
Pay(g, price, after) ==
  IF g.minerals < price THEN [g EXCEPT !.short = TRUE]
  ELSE [after EXCEPT !.minerals = g.minerals - price]

CancelSlot(g, i) ==
  [g EXCEPT !.minerals = @ + Price[g.queue[i]], !.queue = RemoveAt(@, i)]

Carry(g, c) ==
  CASE c.type = "Train" ->
         IF Len(g.queue) = QueueMax THEN [g EXCEPT !.full = TRUE]
         ELSE Pay(g, Price[c.what], [g EXCEPT !.queue = Append(@, c.what)])
    [] c.type = "Cancel_Train" ->
         LET i == IF c.what = -2 THEN Len(g.queue) ELSE c.what + 1
         IN  IF i \in DOMAIN g.queue THEN CancelSlot(g, i) ELSE g
    [] c.type = "Build_Addon"  -> IF g.addon = "none" THEN [g EXCEPT !.addon = "placed"] ELSE g
    [] c.type = "Cancel_Addon" ->
         IF g.addon = "begun"
         THEN [g EXCEPT !.minerals = @ + Refund(AddonPrice), !.addon = "none"] ELSE g
    [] c.type = "Research" ->
         IF g.tech THEN g ELSE Pay(g, TechPrice, [g EXCEPT !.tech = TRUE])
    [] c.type = "Cancel_Research" ->
         IF g.tech THEN [g EXCEPT !.minerals = @ + TechPrice, !.tech = FALSE] ELSE g

BeginAddon(g) ==
  IF g.addon = "placed"
  THEN Pay([g EXCEPT !.addon = "none"], AddonPrice, [g EXCEPT !.addon = "begun"])
  ELSE g

\* The commands are carried out in the order in which they were given.
ReadyCount == CHOOSE u \in 0 .. Len(sent) : \A i \in DOMAIN sent : sent[i].in = 1 <=> i <= u

Due == SubSeq(sent, 1, ReadyCount)
Later == SubSeq(sent, ReadyCount + 1, Len(sent))

CarryAll(g, list) == FoldLeft(LAMBDA h, s : Carry(h, s.cmd), BeginAddon(g), list)

\* The match in the next frame.
NextGame == [CarryAll(game, Due) EXCEPT !.seen = game.queue]

-----------------------------------------------------------------------------
(* CommandTemp.                                                            *)

\* The data as they are read from the game: UnitImpl::updateData.
Read(g) ==
  [minerals |-> g.minerals, queue |-> g.seen, training |-> g.seen # <<>>,
   placing |-> g.addon # "none", addon |-> g.addon = "begun",
   researching |-> g.tech, tech |-> g.tech, isResearching |-> g.tech]

Event(c, type) == [cmd |-> c, type |-> type]

\* The effect of an event on the data d.  On the current frame (now) only
\* reserves are made: what Brood War does not take, or does not show, until the
\* next frame.
Train(d, e, now) ==
  [d EXCEPT !.minerals = IF now THEN @ ELSE @ - Price[e.cmd.what],
            !.queue = Append(@, e.cmd.what), !.training = TRUE]

BuildAddon(d, e, now) ==
  IF e.type = "Order" THEN d
  ELSE [d EXCEPT !.minerals = @ - AddonPrice, !.placing = @ \/ ~now]

\* Slot 0 falls through to the case of the last unit.
CancelLast(d, e) ==
  IF e.type = "Order" THEN [d EXCEPT !.queue = Front(@)]
  ELSE [d EXCEPT !.minerals = @ + Price[Last(d.queue)],
                 !.training = @ /\ Len(d.queue) # 1]

CancelTrainSlot(d, e, i) ==
  IF e.type = "Order" THEN d
  ELSE [d EXCEPT !.minerals = @ + Price[d.queue[i]], !.queue = RemoveAt(@, i)]

\* The second of two cancellations finds that nothing is being built.
CancelAddon(d, e) ==
  IF e.type = "Order" \/ ~d.addon THEN d
  ELSE [d EXCEPT !.minerals = @ + Refund(AddonPrice), !.addon = FALSE]

Research(d) ==
  [d EXCEPT !.minerals = @ - TechPrice, !.tech = TRUE, !.researching = TRUE,
            !.isResearching = TRUE]

CancelResearch(d, e) ==
  IF e.type = "Order" THEN [d EXCEPT !.researching = FALSE]
  ELSE [d EXCEPT !.minerals = IF d.tech THEN @ + TechPrice ELSE @, !.tech = FALSE]

ExecuteTemp(d, e, now) ==
  CASE e.cmd.type = "Train"       -> Train(d, e, now)
    [] e.cmd.type = "Build_Addon" -> BuildAddon(d, e, now)
    [] now /\ e.cmd.type \notin {"Train", "Build_Addon"} -> d
    [] ~now /\ e.cmd.type = "Cancel_Train" ->
         IF e.cmd.what \in {-2, 0} THEN CancelLast(d, e)
         ELSE CancelTrainSlot(d, e, e.cmd.what + 1)
    [] ~now /\ e.cmd.type = "Cancel_Addon"    -> CancelAddon(d, e)
    [] ~now /\ e.cmd.type = "Research"        -> Research(d)
    [] ~now /\ e.cmd.type = "Cancel_Research" -> CancelResearch(d, e)

\* The effects of the events of one slot of the buffer, in their order.
Effects(d, slot, now) == FoldLeft(LAMBDA x, e : ExecuteTemp(x, e, now), d, slot)

\* Mutant: nothing is reserved for an addon.
Reserve_NoAddon(d, slot) ==
  Effects(d, SelectSeq(slot, LAMBDA e : e.cmd.type # "Build_Addon"), TRUE)

Reserve(d, slot) == Effects(d, slot, TRUE)

\* Mutant: the loop ends a frame early.
Predict_Early(d, buffer, rlf) ==
  FoldLeft(LAMBDA x, slot : Effects(x, slot, FALSE), d, SubSeq(buffer, 1, rlf - 1))

Predict(d, buffer, rlf) ==
  FoldLeft(LAMBDA x, slot : Effects(x, slot, FALSE), d, SubSeq(buffer, 1, rlf))

\* insertIntoCommandBuffer: the events and the frames until they are due.
Parts(c) ==
  IF c.type \in {"Train", "Research"} THEN <<Event(c, "Resource")>>
  ELSE <<Event(c, "Resource"), Event(c, "Order")>>

Insert(c) ==
  LET rlf == RemainingLatencyFrames  parts == Parts(c)
  IN  [k \in DOMAIN commandBuffer |->
         IF k - rlf + 1 \in DOMAIN parts THEN Append(commandBuffer[k], parts[k - rlf + 1])
         ELSE commandBuffer[k]]

-----------------------------------------------------------------------------
\* The slots of the buffer in which a cancelled unit is still to be taken from
\* the queue.
Cancels == {k \in DOMAIN commandBuffer :
              \E e \in ToSet(commandBuffer[k]) :
                e.cmd.type = "Cancel_Train" /\ e.type = "Order"}

\* Templates::canMake, canTrain, canCancelTrain, canBuildAddon, ...
CanIssue(c) ==
  CASE c.type = "Train" -> shown.minerals >= Price[c.what]
    [] c.type = "Cancel_Train" -> shown.training /\ c.what < Len(shown.queue)
    [] c.type = "Build_Addon" -> ~shown.placing /\ shown.minerals >= AddonPrice
    [] c.type = "Cancel_Addon" -> game.addon = "begun"
    [] c.type = "Research" -> /\ ~shown.researching /\ ~shown.isResearching
                              /\ shown.minerals >= TechPrice
    [] c.type = "Cancel_Research" -> shown.researching

LatencyInit ==
  /\ age = 0
  /\ \E w \in Wealth :
       game = [minerals |-> w, queue |-> <<>>, seen |-> <<>>, addon |-> "none",
               tech |-> FALSE, short |-> FALSE, full |-> FALSE]
  /\ shown = Read(game)
  /\ commandBuffer = [k \in 1 .. Latency + 1 |-> <<>>]
  /\ sent = <<>> /\ ordered = 0

\* UnitImpl::issueCommand, by way of prepareIssueCommand and addToCommandBuffer.
Give(c) ==
  /\ ordered < MaxOrders /\ ordered' = ordered + 1
  /\ c.type = "Cancel_Train" => Cardinality(Cancels) < MaxCancels
  /\ CanIssue(c)
  /\ shown' = Effects(shown, Parts(c), FALSE)
  /\ commandBuffer' = Insert(c)
  /\ sent' = Append(sent, [cmd |-> c, in |-> RemainingLatencyFrames])
  /\ UNCHANGED <<age, game>>

\* The next frame: Brood War goes on, updateUnits reads its data and applies
\* the latency compensation.
LatencyFrame ==
  /\ age' = (age + 1) % Turn
  /\ game' = NextGame
  /\ sent' = [i \in DOMAIN Later |-> [Later[i] EXCEPT !.in = @ - 1]]
  /\ commandBuffer' = Append(Tail(commandBuffer), <<>>)
  /\ shown' = Predict(Reserve(Read(NextGame), Head(commandBuffer)),
                      commandBuffer', Latency - age')
  /\ UNCHANGED ordered

LatencyNext == LatencyFrame \/ \E c \in CostlyCommands : Give(c)

LatencySpec == LatencyInit /\ [][LatencyNext]_latencyVars

-----------------------------------------------------------------------------
\* A cancellation whose effect the compensation foresees.  It takes the first slot
\* for the last (CommandTemp.h:468); and a unit cancelled before is still in the
\* queue whose last unit it looks up (CommandTemp.h:479), until its Order event.
Foreseeable(c) == c.type = "Cancel_Train" => c.what # 0 /\ Cancels = {}

\* An AI that gives no others.
CancelsAreForeseeable == \A c \in CostlyCommands : Give(c) => Foreseeable(c)

\* How the match will be when all that was given has been carried out.
Outcome == BeginAddon(CarryAll(game, sent))

\* No command that the AI could give is refused later because the minerals it
\* was to be paid with are not there: what is under way is kept in reserve "to
\* protect bots from overspending" (CommandTemp.h:157, canMake).  Once the AI
\* has trained more than the queue has room for this is no longer so.
CommandsArePaid == game.short => game.full

\* In every frame, from the moment a command is given, the minerals the AI is
\* shown are those it will have once its commands are carried out
\* (Game::setLatCom), with the same exception.
OutcomeIsShown == shown.minerals = Outcome.minerals \/ Outcome.full
=============================================================================
