# Verification of StarCraft API

This directory holds TLA+ models of the parts of StarCraft API where processes,
files and frames have to agree with each other, the TLC configurations that
check them on small instances, and TLAPS proofs of the results that hold for
instances of every size. All paths below are relative to the repository.

1. [The system](#1-the-system)
2. [The models](#2-the-models)
3. [The runs](#3-the-runs)
4. [Fairness](#4-fairness)
5. [The proofs](#5-the-proofs)
6. [Disagreements between code and documentation](#6-disagreements-between-code-and-documentation)
7. [Other observations](#7-other-observations)
8. [What is not modelled](#8-what-is-not-modelled)
9. [Plan](#9-plan)

Run everything from this directory:

    tlc -workers 2 -config QueueRaces.cfg MCResidentQueue.tla
    tlapm ResidentQueueProofs.tla

## 1. The system

The repository is BWAPI, the interface by which bots play Brood War 1.16.1, and
a newer *runtime* layer that is to offer the same commands for other editions of
the game, StarCraft: Remastered in particular.

Two halves of the system submit commands to a game, by different means:

    bot process --- shared memory + named pipe ---> BWAPI inside the game (1.16.1)
    command-line tool --- files in a directory ---> adapter thread inside the game

### The classic half

| part | state | operations | how it interacts |
|---|---|---|---|
| Server (`BWAPI/Source/BWAPI/Server.cpp`) | shared memory, pipe, `connected`, a row of the table of games | `update`, `checkForConnections`, `callOnFrame`, `processCommands`, `updateSharedMemory` | called once per frame by the game; blocks in `callOnFrame` until the client answers |
| Client (`BWAPIClient/Source/Client.cpp`) | its view of the shared memory, `connected`, whether it is in a match | `connect`, `disconnect`, `update` | opens the pipe of the game that the table names; one code each way per turn |
| Table of games (`GameTable.h`) | eight rows: process, connected or free, last sign of life | claimed by the constructor of the server, refreshed by `update`, read by `connect` | one memory block for all games and clients of the machine, no lock |
| Match (`GameImpl`, `GameUpdate.cpp`, `GameEvents.cpp`) | menu, match or end of match; who plays | `onMenuFrame`, `update`, `onGameEnd` | decides which updates the server makes |
| Units (`GameUnits.cpp`, `UnitUpdate.cpp`) | flags per unit, the unit sets, the events of the frame | `computeUnitExistence` ... `computeSecondaryUnitSets` | the events and the data go through shared memory; the client rebuilds the sets |
| Commands (`CommandOptimizer.cpp`, `GameCommands.cpp`) | one list per command type | `add`, `flush`, `issueCommand`, `executeCommand` | after the turn of the bot, before the frame ends |
| Legality (`Shared/Templates.h`, `UnitsetInterfaceMirror.cpp`) | none | `canIssueCommand`, `canIssueCommandGrouped`, one question per command | asked before a command is taken, in the game and in the client; the optimizer and the choice of a larva rely on the answers |
| Latency compensation (`CommandTemp.h`, `GameUpdate.cpp`) | a buffer of events for each of the next frames | `execute`, `insertIntoCommandBuffer`, `applyLatencyCompensation` | changes what the bot is shown from the frame of a command until Brood War carries it out |
| Unit search (`Shared/Templates.h`, `Server.cpp`) | two sorted tables of edges, and the client's copy | `getUnitsInRectangle`, `getUnitsInRadius`, `getUnitsInWeaponRange` | Brood War keeps the tables, the server copies them every frame |
| Network provider (`SNP_DirectIP`) | lists of games and packets, a row of shared memory or a socket | the `spi...` calls | called by several threads of Storm, in several processes |
| The rest | players, bullets, regions, menus, drawing | | see section 8 |

### The runtime half

| part | state | operations | how it interacts |
|---|---|---|---|
| Record queue (`Runtime/RuntimeResidentBridge.cpp`) | a ring file: header and slots | ensure, append, read, acknowledge | shared by submitting processes and the adapter; no lock, each operation reads and writes the whole header |
| Bridge: adapter side (`RuntimeResidentAdapterEntry.cpp`) | heartbeat, two queues, ready file | `residentAdapterMain`, start, stop | a thread in the game that beats once a second |
| Bridge: submitter side (`RuntimeExecutor.cpp`) | heartbeat state file | `submitRuntimeCommands` | a short-lived process per submission; compares ready file and queues |
| Direct sink (`RuntimeExecutor.cpp`) | Brood War's turn buffer and its count | `submitDirectRuntimeCommands` | writes into the memory of the game, which uses the same buffer |
| Contract, manifest, readiness, gap report | none | checks of lists | gate before submission |
| Launch, installation, injection | files and processes of the operating system | | bring the adapter into the game |

### What is hard, and what makes each part correct

* **Queue**: every operation is read-modify-write on a file without a lock, and
  an append makes its record visible *after* the header that announces it.
  Correct means: no interleaving makes the header invalid, no command is skipped
  or taken for another, an accepted command is delivered.
* **Bridge**: admission rests on a comparison of files that were written at
  different times. Correct means: submitters are paced by the adapter, a batch
  that was admitted fits, a living adapter is not said to be dead.
* **Turns**: two processes share memory and only a pipe says whose turn it is;
  either may die. Correct means: never both at once, no command of an earlier
  turn or of another client is carried out, nobody blocks for ever.
* **Table**: games and clients race for rows; rows are never given back. Correct
  means: a game that runs can be found, and clients that keep trying are served.
* **Units**: a unit's flags are written in three functions over two frames, its
  slot is used again, its owner changes unseen. Correct means: the events tell
  a consistent story, and the sets agree with it in the game and in the client.
* **Commands**: the optimizer rewrites, reorders and groups what a bot says.
  Correct means: every unit gets what it was told and nothing else.
* **Legality**: what a unit may be told is written out twice, alone and in a
  group, over some 2500 lines, and three other places rely on the
  answers. Correct means: the two agree; where a hatchery may train there is a larva
  to do it; what the optimizer makes of a legal command is legal.
* **Latency compensation**: a second account of minerals and queues runs ahead
  of the game's. Correct means: it arrives where the game arrives, and what it
  lets a bot spend is there when the command is carried out.
* **Search**: an interval of each of two sorted tables, in pixel units that are
  inclusive on one side. Correct means: what lies in the rectangle is found, and
  nothing that lies outside.
* **Direct sink**: a count and the bytes behind it, written one after the other
  by two processes without a lock. Correct means: a turn consists of whole
  commands.
* **Network provider**: a critical section per process, a mutex per machine, and a
  list that is lent to Storm between two calls. Correct means: the list that is on
  loan does not change, packets come in the order in which they arrived, rows
  are not shared, and no two threads wait for each other for ever.

`PROJECT.json` lists the hazards line by line, with the properties that cover
each, and the source lines of every definition.

## 2. The models

Each module starts with a comment on its grain and on what it leaves out.
Actions carry the names of the functions, or say in a comment which part of which
function they are. Definitions ending in `_Something` right before another
definition, marked *Mutant*, are wrong variants of it: each stands for a
plausible bug, and each property in a passing run is violated when one of them
takes the place of the right one.

### ResidentQueue, RecordQueue

`ResidentQueue` has one action per access to the file: the header read of an
append (`AppendRead`), the header write (`AppendPublish`), the arrival of the
record (`AppendFlush`), and likewise two actions for ensure and acknowledge and
one per slot for the batch read. The order publish-then-flush is that of the
code: the record goes to a buffered `fstream` whose 528 bytes fit into the
buffer, and which is flushed only when it is destroyed at the end of
`appendRuntimeResidentQueueRecord`; the header goes through a stream of its own
that is closed at once. Submitters may be killed at any step (`ProducerDies`),
the adapter may stop and start (`AdapterRestarts`): the file stays.

The heartbeat field is reduced to `live`: at least `minimumHeartbeat`. The
adapter's first heartbeat is 1, below the minimum of 2, so that its first
iteration ends at ensure (`EnsureRejected`). Rejected appends change nothing and
are no steps. Magic numbers, sizes and texts of records are left out; a slot that
was never written fails its size tests and is `Blank`.

`RecordQueue` is the abstract specification: a bounded FIFO with at-least-once
delivery. `SerialSpec` of `ResidentQueue` — the same steps, but no operation
begins while another is half done — is shown to implement it.

### TurnTaking, ClientServer

`ClientServer` models one game and its clients: the named pipe (state, who holds
the other end, unread codes), the shared memory (the published events as far as
they matter, `isInGame`, the commands with the client that wrote each), the
server, the match as far as it decides who plays, and the clients with their
deaths, reconnections and versions. `GameExits` replaces the game by a new
process at any moment. The updates that one pass of the game makes are queued in
`plan`, because the end of a match makes two.

`TurnTaking` is the abstract specification: the memory has one holder, is handed
over empty, is filled by the holder, and is emptied by the game once.

### GameTable

The table, its claims and its refreshes, by any number of games that start, exit
and start again, and clients that scan, open a pipe, and die. One action per
write of a row; the search for a row is one step and the claim another, which is
where two games meet. Tick counts are kept as ranks, because only their order
matters to the code. How turns go on the pipe is left to `ClientServer`.

### ResidentBridge

The bridge above the queue. Nothing is locked, so the header of the command queue is
read in one step and written back in another, as in the code: the adapter's iteration is
`EnsureRead`, `EnsureWrite`, `Consume` (or `ConsumeNothing`, `ReadRejected`), `Route`,
`AckRead` (or `AckRejected`), `AckWrite`, `WriteReady`, `Sleep`. A submission is
`ReadReady`, `ReadQueue`, `WritesAgree`, `ReadsAgree` (or `QueuesDiffer`),
`CheckHeartbeat`, `Admit`, and for each command `AppendRead` and `Publish` (or
`CutShort`). The comparison copies the header of the queue first and then looks at the ready
file, at the write sequence and at the read sequence with the heartbeat, each time in the
file that is there by then. `Stop`, `Restart`, `ProcessDies` and `ProcessStarts` are
what happens to the adapter, at any step. The header of the overlay queue that goes into
the ready file is the one from before routing, as in the code.

Single steps remain: the first validation of the ready file (process, age, heartbeat); the
comparison of the overlay queue, which only the adapter writes, so that this queue has no
copies to write back; and reading and replacing the state file of the heartbeat. A batch
read takes all that is there: the real bounds, 64 records of capacity and 64 per
read, coincide. What slots hold is left to `ResidentQueue`; here a read may be rejected at
any time.

`told` (what the ready file said that a submitter was compared with), `fits` (it left room
for the batch), `served` (the ready file of a submitter's last append) and `lost` are
histories. `lost` is the stamp of the last ready file that may describe a queue from which an
append was erased: a write-back of an old copy makes the queue look again as the file
says, and one ready file then admits a second batch. `OneBatchPerReady` says that this is
the only way for that to happen.

### DirectSink

One action per access of a submission to the game's memory: the count is read,
the bytes are written behind it and read back, the count is written; each access
may fail (`Abandon`, `ReadBackDiffers`), which leaves bytes that no count announces.
`QueueGameCommand`, Brood War's own way into the buffer as the repository
reimplements it, is two actions, and the turn is sent at any moment. A byte stands
for its origin: whose call, which call, which place. `overlapped` and `accepted`
are histories: the sink promises nothing for calls that overlap.

### UnitSets, UnitStory

One frame of `GameImpl::update` as six steps: `computeUnitExistence`,
`computePrimaryUnitSets`, `extractUnitData`, `computeSecondaryUnitSets`,
`server.update`, and the end of the frame. The world changes arbitrarily between
frames (units appear, die, change hands, become visible or not, morph between
refinery and geyser), except that minerals do not become anything else. Flags
are sets of units. A unit *object* is a slot with the number of its predecessors
in it, because the code replaces the object when the unit dies. Replays are left
out.

`UnitStory` is the abstract specification of the events: the life of a unit as
a bot hears of it, from *new* over *hidden* and *shown* to *lost* or *dead*. In
each frame notices pile up, and they are told in the order in which the code
dispatches them; each must make sense after those before it. `UnitSets` implements
it (`ImplementsUnitStory`): `story` is the history `told`, `notices` the events of
the frame.

### CommandOptimizer

`add`, `flush`, the `issueCommand` of a unit and of a set, and the orders that
`executeCommand` sends. `flush` advances by one turn of its inner loop per step
(`Join`, `Pass`, `ListEnds`), so that the group, its leader and the iterator are
visible in between. What a command does not say and the code takes from the unit
(`OrderName`, `Oddity`) is kept; which commands are given is a constant
(`Requests`). Commands to structures that produce nothing a test distinguishes
(research, upgrades, placing COPs) are in the type list, so that their exclusions
are there, and not in the instance.

### CommandLegality

Every question of `Shared/Templates.h` that precedes a command, alone and in a
group, as a condition on the unit, its larvae, the target and what the player has:
`CanIssueCommand` and `CanIssueCommandGrouped` are the two dispatchers, and the
operators they call are named after the functions. A unit is its type and the set of facts that the
code asks about it; a type is the set of what is true of it. Where a function
returns early, the conjuncts stand in its order, but which error is set is left out:
only the answer decides. The look at the map and at prices behind `canBuildHere`,
`canMake` and the pathfinder are facts. The actions change one fact of the
actor, the target, the larvae or the means at a time, so that states differ from the
usual one in up to `MaxOdd` facts, of which one at most is about target or means,
and `Settle` returns to it.

`Instead` is what `CommandOptimizer::add` makes of a command, and
`Misjudged` names the five kinds of commands for which the result is not legal
(section 7).

### LatencyCompensation

Brood War and the compensated copy of it side by side: `game` is carried forward
by the commands that arrive, `shown` is computed anew in every frame from what
was read of the game and the events of `commandBuffer` that are due. Brood
War's own delays matter and are kept: the price of an addon is taken a frame late,
a change of the training queue is seen a frame late. Modelled are commands that
cost something or give it back, because those are what the compensation is for.

### UnitSearch

The two tables of edges as sets of entries, the interval that the binary search of
`iterateUnitFinder` cuts out of each, which is wider for rectangles that may lie
inside a unit, the client's copy that the server makes in each frame, and the
filters of `getUnitsInRadius` and `getUnitsInWeaponRange`. Brood War's entries for right
and bottom edges lie on the edge or one beyond it: the code does not tell, so `far`
is either.

### SNPModule, DirectIP, LocalPC, NetworkProvider

`SNPModule` is what faces Storm: the lists of games and packets, the critical
section, the calls. Each call enters, lets the network that is plugged in do its
part, and returns. `DirectIP` has a network of datagrams that are lost, duplicated and
reordered; the buffer that `recvfrom` fills is shared by the threads of a process
and is so here. `LocalPC` has rows in shared memory under a mutex, and steps end where
a thread may have to wait for the mutex or the critical section.
`NetworkProvider` composes the three and adds start, end and death of processes. The
tick count wraps.

### Compositions

`MCRuntime` composes `ResidentBridge`, `DirectSink`, and two instances of
`ResidentQueue`; `MCFrames` composes `CommandOptimizer`, `LatencyCompensation`,
`UnitSets`, `UnitSearch` and `CommandLegality`. In both, a behaviour is of one
of the parts (`part`), because these share no variable of the code: what is
shared between bridge and queue, the window, is part of both modules.

## 3. The runs

| run | question | distinct states |
|---|---|---|
| `queue_races` | Does any interleaving, death or restart break the header, mix up records, or skip one? Are announced slots filled while one producer appends? | 661 094 |
| `queue_loses_append` | Is each accepted command delivered? **No**, see section 6. | violated |
| `turn_races` | Turns: exclusion, freshness of commands, state of the match, one player, implements `TurnTaking`, no blocking. | 31 303 |
| `table_races` | Three games compete for two rows, one of them exits and starts again. | 473 964 |
| `runtime` | Bridge, each read and write of a header on its own: who passes on which ready file, is the batch of a lone submitter ever cut short, do deaths and restarts upset it? Queue: is it a FIFO without overlap, and is it always emptied? Direct sink: are turns whole? | 2 950 744 |
| `frames` | Commands, latency compensation, unit events and sets, searches, legality: the five parts of `MCFrames`. | 608 384 |
| `units_minerals` | Are all of `getMinerals` accessible? **No**, see section 6. | violated |
| `optimizer_order` | Is the last command the one that stands? **No**, see section 6. | violated |
| `latency_slot` | Is a command that was accepted also paid for, when slot 0 is cancelled? **No**, see section 6. | violated |
| `weapon_range` | Does a search in the range of a weapon find its targets? **No**, see section 6. | violated |
| `provider_calls` | Two games, either network: order of packets, ownership of rows, the list on loan, entries and their age, no call blocked for ever but by crossed locks. | 157 217 |
| `provider_joins` | Does a player join the game that was picked? **No**, see section 6. | violated |

The properties are stated in words above their definitions. What follows is why
the bounds are large enough for each question.

**Queue.** Two producers and a capacity of two are enough for every kind of
overlap of two operations, and for slots of an older and of a newer lap
(`MaxTogether = 4` records, so that each slot is written twice, by both producers or
by one of them alone, as `WindowReadable` asks).
With one death and one restart, each can fall between any two accesses. The
safety properties do not depend on the instance: they are proved (section 5). In
`runtime`, part *single* has five appends into three slots, read two at a time:
batches that end inside the ring and at its edge. In part *serial*, reading one
record at a time makes batches smaller than the queue.

**Turns.** Two clients of the right version, one of another. A third client can
add nothing to the exclusion of the two (proved); matches, connections, deaths
and exits of the game are not bounded at all. Two commands per turn distinguish
a count that is reset from one that is not.

**Table.** With three games and two rows a row is displaced while the others are
in use; with two rows the "first empty" and the "oldest" differ. One game exits
and starts again, so that there are rows of dead games and rows claimed by a
returning process. One client that may die exercises every path of `connect`.
`raced` and `displaced` are histories: the properties hold unless two games once
started at the same time or a full table displaced somebody, and with either they
fail. Tick counts do not wrap in the model.

**Bridge.** The first setting of `runtime` has two submitters with one command a batch, two
batches each, over three beats and a capacity of two: each write of the header, by the adapter
or by either submitter, may fall between a read and a write of each of the others, so
that appends are lost, sequence numbers are used twice, and a ready file describes the
queue again. The second has a lone submitter with three batches of up to two, four
beats and a capacity of three: it takes two batches to fill the queue, and a third that finds
on the ready file whether it fits. The third has a capacity of 1 with batches of two, which
fills both queues at once, and two starts over two processes: an adapter
started again in the same process, or in the next.

`NobodyIsCutShort` is about a lone submitter, and about batches for which the ready file
left room. With two submitters no capacity is enough for such a promise: one that
publishes an old copy (`RuntimeResidentBridge.cpp:1321`) takes the adapter's
acknowledgement back, the consumed records fill the queue a second time, and the other,
although admitted, finds it full.
`CHECK_DEADLOCK FALSE` because heartbeats and submissions are bounded,
and because an adapter that was stopped for the last time leaves nobody to act.

**Direct sink.** A buffer of three bytes, the game's limit at two, commands of
one and of two bytes: a buffer that is filled exactly, one that is too full for the
next, and the limit that makes the game send early. Two submissions of one writer,
one of another and two commands of the game give every pair of overlapping calls.

**Units.** Whether a unit is in a set depends on that unit alone: no step looks
at two slots. One slot is therefore enough, with two units one after another for
the reuse of the slot, and three players for a change of owner between two
players other than the neutral one.

**Optimizer.** Groups of two instead of twelve units, four commands a frame:
a full group, one that is interrupted by a command that does not fit, and a new
group that begins in the middle of the list. Three armies bring every kind of
unit the code asks about in the order names that can be grouped (a carrier among
marines, tanks, a bunker and a dropship, larvae and templars). Level 4, and
for larvae and templars level 2 as well, is set during the match; level 0 is what
a match starts with. What else differs at level 2 is that a move is sent at
once. `m2`, `m3` and the two larvae are interchangeable.

**Legality.** 19 types of actors, at least one for each branch of the questions that
tells types apart (workers of two races, siege modes, burrowing, cloaking,
fighters in a hangar, transports, larvae and what lays them, addons, research,
casters, flags, and the siege mode of Edmund Duke, which is
no `Terran_Siege_Tank_Siege_Mode`); six targets: friend, enemy, neutral, loaded container, flying
building, templar. Two unusual facts at a time reach every early return, since those
ask for at most two facts that a unit usually lacks; every command type is legal in
some state of the instance, and illegal in some. What does not depend on
the types is proved (section 5).

**Latency.** Two kinds of different prices, a turn of two frames and a latency
of four, wealth that suffices for some of the five commands: the last slot and slot 1
are cancelled here, slot 0 in `latency_slot`. `MaxCancels = 1`: with two
cancellations under way `OutcomeIsShown` fails, and the code may read before the start of
its queue (section 7).

**Search.** A map of five by three pixels holds a unit of any size up to three by
two in every place, and every rectangle on it, so that each edge may lie before, on
and behind each edge of the other; radii 0 to 2. The proof is for all sizes.

**Provider.** Two games, of which the first has a thread for the player and one
for the network; an entry lives one unit of time and a packet one, and the count
wraps after four, so that both expire before and after it wraps. Each scene lets a
few of the calls meet: hosting and looking, sending and receiving, over either
network, with a datagram that is duplicated and games that die. `Room = 1` in a row
makes the second packet one too many. `provider_joins` has two hosts, because it
takes two entries to pick the wrong one. `CHECK_DEADLOCK FALSE` because time and
calls are bounded by the scene.

## 4. Fairness

Fairness is assumed only of threads and processes that run by themselves.

* `ResidentQueue!FairSpec`: weak fairness of the adapter thread, which is a loop
  with a sleep, and of the remaining steps of an append that has begun. Nothing
  forces a submitter to begin one. It says nothing of a submitter that is killed,
  which disables the steps.
* `ClientServer!FairSpec`: weak fairness of the steps by which the game finishes an
  update it has begun, and of a client's reading and answering: a bot returns
  from its frame. Nothing forces a match to start or end, a client to connect, a
  command to be issued, anybody to die. `TurnReturns` speaks of a game that
  waits; a bot that never returns stops the game, as in the code, which waits
  without a timeout.
* `MCRuntime!MCFairness`: the same fairness of the adapter and of an append under way
  in part *single*; none in the other parts.
* `GameTable!FairSpec`: weak fairness of each step of a game's start, of the
  updates with a client and in the menu, and of a client that keeps trying.
  Matches that the AI library plays are not forced, nor are exits and deaths.
  Fairness of `UpdateMenu` means that games come back to their menus.

* `NetworkProvider!Spec`: strong fairness of the next step of each call under way
  (`Proceeds`). Strong, because a thread that waits for a critical section or a mutex
  finds it free again and again but not continuously; Windows lets waiters in
  eventually. Storm gives the list of games back. Nothing forces a call to be made.

`Drains`, `TurnReturns`, `DeadClientIsDropped`, `ClientsAreServed` and
`CallsReturn` depend on these; the others are safety properties. `CallsReturn` excepts
`LocksCrossed`: two threads of a process that took its critical section and the
mutex of the machine in opposite orders (`LocalPC.cpp:126`) wait for each other for
ever, and with them whoever wants the mutex.

## 5. The proofs

Eight modules prove, for every value of the constants, theorems about the components.
Where the theorem is about behaviours, a strengthened invariant (`IInv`, `SInv`,
`SerialInv`, `MInv`, `BridgeInv`, `PromiseInv`, `DirectInv`, `NInv`, `TableInv`, `OptimizerInv`,
`OrderInv`, `ResourceInv`, `IsSettled`) is shown to be inductive and the theorem derived
from it. TLC checked each invariant on a small instance
before it was proved; several conjuncts are there because TLC, or a step that could not
be proved, showed that the property alone is not inductive.

**ResidentQueueProofs** — for any set of producers, any capacity and batch size
above zero and any bounds: `TypeCorrect`, `HeaderStaysAWindow`,
`BatchesAreInSequence`, `NothingIsSkipped`, `OneProducerIsReadable`,
`SerialInvariance` and `SerialRefinement`. Assumed are the named assumptions of
`ResidentQueue` (capacity and batch size are positive).

The argument. Headers are only ever copied, or changed at one end within the
limits that were tested on the same copy, so every header and every copy is a
window of 0 to *capacity* records (`WindowInv`), however stale it is when it is
written. A record with sequence number *s* is only ever written to slot
*s mod capacity* (`RecordsInTheirSlots`). Two numbers that differ by less than
the capacity and have the same remainder are equal (`SameSlotSameSequence`): so a
record that lies in the window of the reader's header *and* in the slot that was
asked for is the one that was asked for (`ReadableIsExpected`), although the
code only tests the former. For the read end, `CopiesConsumed` adds that every
copy of the header that may still be written back, and the target of an
acknowledgement under way, reads no further than what was consumed.
`BatchBounds` makes the acknowledged target well defined.

`OneProducerIsReadable` needs what the others do not, that slots hold the *newest*
lap, as long as one process makes all appends and nobody is killed (`Alone`).
`CopiesBehind` says that copies which may be written back, the adapter's
and the producer's, are never ahead of the file; `OneLap`, that all of them are
within one lap of each other; `WindowsFilled`, that every record announced by
any of these headers is in its slot, or is the one that the producer is about to
flush. With a second producer under way none of the three holds; with one
that is killed between the header and the record the announced slot stays
empty for ever. The adapter remains free to stop, start and overlap with every step.

`SerialRefinement` maps every step of `SerialSpec` to a step of `RecordQueue` or to a
stutter: the flush of the record is `Accept`, consuming is `Handle`, writing the
acknowledgement is `Remove`, and a restart is `Forget` if something was consumed.
Run *runtime* checks the same formula on a small instance, as `ImplementsRecordQueue`
of `MCRuntime`. The proof needs `SerialInv`
besides `IInv`: at most one operation is half done (`OneOperation`); the header it
holds is the one in the file, or what it has itself made of it (`CopiesAreFresh`);
every slot announced holds its record, but for the one about to be flushed
(`StoredAreThere`); and what the adapter has read is still the head of the
queue (`BatchIsStored`), which matters because appends do go on between consuming
a batch and acknowledging it. That the flush overwrites none of them (`OtherSlot`) is
`SameSlotSameSequence` again.

**ClientServerProofs** — for any clients, any subset of them of the right version
and any number of commands per turn: `TypeCorrect`, `MemoryHasOneUser`,
`CommandsOnce`, `MatchHasOnePlayer`, `ClientKnowsTheMatch`, and `Refinement`: every
behaviour of the interface is one of `TurnTaking`.

The argument. `OneToken`: there is at most one code in the pipe, and none while
the game runs. `Connection` ties the server's belief (`connected`) to the pipe:
a connected client's pipe is open or closing, and the server's end blocks, so
that a failed read really means that the client is gone. From these a client at
its turn excludes the game from the memory. `CommandsOfOwner` says of the waiting
game what `CommandsAreFresh` says of it once it has the answer. For the
refinement each step is mapped: `UpdateClient` hands the memory over, the
client's `IssueCommand` is an order, `ReadReply` and `ReadFails` give the
memory back, `ProcessCommands` carries the orders out, `GameExits` ends it, and
all other steps stutter. `ClientKnowsTheMatch` follows the updates that are still
to be made: `PlanOfStage` says which there can be at each stage of a match,
`UpdateIsPublished` that the memory is about the first of them, and `ClientsAgree`
what a client knows on either side of its own step. The case that is not obvious is
a client that joins in the middle of a match and missed its start; it is excused
(`missed`) exactly as long as it has not seen another start.

**GameTableProofs** — for any games, rows and clients: `NoGameIsListedTwice`,
`GamesAreListed`, `RowsStay`. The argument: `ClaimsItsOwn` says that a game that is about to claim a row is
listed in no other, `HaveRows` that a game that claims or refreshes has a row to
do it in, and `StartsAlone` that without a race at most one game is starting, so that
the row that it found free still is. From
these, a row changes its process only by a claim of a row that was free or, in a
full table, by a take-over, and both set the histories that the two weaker
properties exclude.

**RuntimeProofs** — the two ways to the commands of a game. About `ResidentBridge`, whose
operations are not atomic, for any submitters, any installations and any bounds:
`QueuesKeepTheirBounds`, `SubmittersArePaced`, `FreshFilesPass`, `NoBatchIsCutShort`.

`WindowsFit` carries over from the queue: every header, in the files and in every copy that
may still be written back, is a window within the capacity. `StampsArePast` says that copies
with the newest stamp *are* the newest file. `AppendsOutdate` is the heart of
`OneBatchPerReady`. The write sequence of the queue only goes back when somebody writes an
old copy, which marks the ready file (and, from the adapter's write-back to the next ready
file, that next one) as `lost`. As long as the file is not so marked, the write
sequence has grown ever since the file was written; who appended on that file has made
it, and each copy that it reads afterwards, longer than the file says, so that the
comparison of the write sequences refuses it (`Paced`). `FreshIsNotCalledStalled` rests on `BeatsGoUp`:
the beats of one process grow unless its thread was started twice, and a submitter
records a beat only together with the stamp it read it from.

`NoBatchIsCutShort` is for a lone submitter, against an adapter that may write back what it
read long ago, reject what it reads, stop, die and start again. `PromiseInv` adds three
facts to `BridgeInv`. `CopiesAreLonger`: the copies that the adapter is about to write
leave the queue no longer than it is, and the submitter's own copy is no shorter than the queue; so
between its steps the queue only shrinks. `ToldAgrees`: once compared, its
copy has both sequences of the ready file, even if these were read from two files.
`RoomForTheRest`: what is queued and what is left of the batch fit together. With a second
submitter the first of these fails, and the property with it.

About `DirectSink`, for any writers
and sizes: `TurnsAreWhole`. `DirectInv` adds that calls fit into the buffer
(`CallsFit`), that without an overlap only one is under way (`Alone`), and that the
bytes below the count are the accepted calls one after the other (`TurnIsWhole`); a
rejected submission has written above the count only.

**UnitSetsProofs** — for any slots, players and kinds, under `PlayersAssumption` (the
neutral player is one of the players, no player is the mark for none, and the
bound is a number): `TypeCorrect`, `EventsTellTheTruth`, `OwnersHaveTheirUnits`,
`ClientHasTheSameSets`, and `Refinement`: every frame is the story of `UnitStory`.

The argument goes through the stages of a frame. `Lives`, `Access` and `Sight` say,
stage by stage, what the flags that are compared stand for: this frame's world or the
last one's. `Due` gives each event of the frame its meaning in these terms, and
`Telling` ties them to what the AI was told: from the two follow `ToldIsTrue` and that a
notice comes in an order in which it makes sense. The sets need the longest chain:
`computeSecondaryUnitSets` takes a unit out of sets that it finds through the *last*
owner and type, or through the unit data, which `extractUnitData` has overwritten in
between. `Memory` and `Data` say which of the two is still good at each stage, and
`Membership` that a unit in a player's set is one whose remembered owner is that
player. The client computes its sets from events alone; they agree (`Clients`) because
of `Destroyed`: a unit that is reported as destroyed is in no set of the server
any more. Minerals and geysers are in that claim, although `units_minerals` shows that a
unit that is merely hidden stays among them: the dead one is removed by the number
of its object.

`ResourcesAreComplete` says what is left of `getMinerals` and `getGeysers` besides that
finding. Of the units that are accessible when the module is called, exactly the minerals
are in the one and the geysers in the other, so that the list is too long but never too
short; and what it has too many of are units that the AI was told it lost, none that it
never saw and none that was destroyed before its eyes. `ResourcesHeld` carries the first
half from one comparison to the next: a geyser enters when it is discovered or when its
refinery is gone, and leaves under the type remembered from the frame before, which for
accessible units is always known. `Remembered` carries the second: nothing is remembered
of a unit of which nothing was told.

**UnitSetsProofs**, of the search — for any number, size and place of units and any
rectangle: `SearchesAreExact`, under `SearchAssumption`, which says that no unit is
larger than the largest type and that rectangles are not empty. The argument is about one axis first: an interval of
edges that is widened by the largest width contains an edge of every unit that
overlaps the rectangle, and the test of the other edge turns away those that do not.

**CommandProofs**, of the legality of commands — for every table of unit types that satisfies
`SortAssumption`: `GroupsTake`, `LarvaIsFound`, `RewritingIsLegal`. The only
invariant that is needed is `SameUnits`: units change what they do, never what they
are. The rest is a comparison, command by command, of the conditions of
the unit's, the group's and the larva's questions; `SortAssumption` names what
the comparison needs of the types of Brood War (a worker moves, no resource is one, what lays
larvae is a building), and TLC evaluates it for the types of the instance. Nothing is assumed
of armed units. `GroupsTake` therefore excepts one case, an attack by a unit that is
`Emplaced`: it neither moves nor is it a building or a `Terran_Siege_Tank_Siege_Mode`. There the
code's answers do differ (section 7). Right-clicks need no exception (`GroupedRightClick`),
because whoever may right-click a foe may move.

**CommandProofs**, of the optimizer — for any units, larvae, sets of units, requests,
levels and bounds, and selections of any size above one: `NothingIsMadeUp` (the property
`OrdersWereGiven`) and `NothingIsLost` (`CommandsAreSent`), both from `OptimizerAccounts`,
and `DirectCommandsKeepTheirOrder`.

The argument. A command is on its way in one of three places: in the list of its type,
in the group that flush collects from a list, or in the set of units of a call. `Waits` counts
how often a unit is in them with a command, `Sent` and `Due` the orders it got and
the commands it was given. `AccountsBalance` says of every unit, command and way that
`Sent + Waits <= Due`, and that `Sent + Waits` is not zero when `Due` is not. The second
half is no equation, because a unit that is twice in one selection gets its order once. Each
step moves one command from one place to the next (`Accounted`); the lemmas `Places...` and
`Hits...` say what appending, removing and cutting do to the counts. This alone says that
some order was due; that it is the unit's *own* order needs what the places hold
(`WaitingWereTold`): the units of a group have the leader's command, mean it (`Meant`: what
rewriting leaves of what makes a command legal) and agree with the leader in the state that flush
compares (`Oddity`), so that naming the front unit or none gives each the order that its
own call promised (`SameOrderInList`, `SameOrderInSet`). Where that fails, for the commands of
`DependsOnFront`, the property excepts it, and section 7 says what it means.

`DirectCommandsKeepTheirOrder` bounds the finding `optimizer_order`: only lists turn
commands round. A unit none of whose commands of the frame was taken by the optimizer has
got all of them at the end of the frame, in the order given, whether one by one or through
calls for sets. `OrderInv` compares the two histories of such a unit place by place: they
are equal, or one command is due because the unit waits for its share of a selection
(`OneDue`). That it is one and no more needs `VisitedOnce`, since a unit which stood twice
in `batch.units` would be sent one order for two commands, and that nobody who waits is
commanded meanwhile: a hatchery in the set chooses a larva without commands, and templars
are merged as members of the set, never past it. Who is in a list, or in the group made of
one, was given a command there (`ListedUnitsAreListed`, from the accounts), so that the
whole flush leaves these units alone.

What the constants must satisfy is part of what `Templates.h` checks before a command is
taken. `RequestsAssumption`: templars merge with units and are no buildings, only carriers
and reavers train fighters, of buildings only bunkers unload, and the techs used without a
target are the four that `executeCommand` knows. `AlikeAssumption`: a type of unit is
trained in one way (by a larva, a building or a carrier), and a target that one unit can
load into itself is never one that another can board. Both were found when the lemmas about
a group failed without them: nothing in flush compares the trainers of two units, or who
boards whom. TLC evaluates them for the requests of the runs `frames` and `optimizer_order`.

**LatencyProofs** — for any prices, wealth, latency, turns, length of the training queue
and number of commands: `CommandsWillBePaid` (the property `CommandsArePaid`),
`TheOutcomeIsForeseen` (`OutcomeIsShown`), both from `AlwaysSettled`. `LatencyAssumption`
says what numbers and tables are, and nothing of what is cancelled or how often. Where the
code does not keep its promise is a hypothesis of the theorems,
`[][CancelsAreForeseeable]_latencyVars`: the AI never cancels slot 0, and it never cancels a
unit while another cancellation is under way. Without either a conclusion is false
of the code. The first is the finding of `latency_slot`; without the second TLC finds
`OutcomeIsShown` violated as soon as `MaxCancels` is 2 (section 7). Both properties are about
matches in which no unit was ever trained into a full queue (`full`).

The argument. Neither property is inductive: what is shown says nothing of a command in
flight that costs more than there will be. The invariant `IsSettled` is about all
moments that are still to come. `Trace(g, s, h)` is the match when the first `h` of the
commands in flight have been carried out and nothing else happens, `After` the same
once the addon ordered last has taken its price, which it does a frame late. `Prospects`
says that every one of these moments is paid for (`AllPaid`), that every cancellation finds its
unit (`CancelsFind`), and that one addon and one research are in flight at most.
`BufferHolds` ties the buffer to the commands in flight: each slot holds second
parts of earlier commands and then, in their order, the first parts of exactly the commands that
are due then. So `Predict`, which goes through the buffer slot by slot, and Brood War,
which goes through the commands one by one, can be compared at each moment:
`Foreseen(g, s, d, h)` says that the data `d` are right about the moment `h`, and
`SlotForeseen` and `ResourceForeseen` that each event moves them to the next one.

In a frame everything moves by one slot (`NextBufferHolds`, `ReachesShifted`), and all
moments are those of the frame before (`NextProspects`). The delicate part is what Brood War
does a frame late, and for that the reserves on the current frame are made:
`ReserveForeseen` shows that reading a match whose addon is placed but not paid for, whose
queue is still the old one, and then reserving makes up for exactly this. A
command that is given is compared with the last moment, which is what is shown: that
it can be paid there is what `canMake` asks (`GivePaid`). The training queue is foreseen
only while no cancelled unit waits for its second part (`QueueForeseen`): in between the data
have the price but not the queue of the cancellation, and this is why two at a time fail.

`FoldLeft` is defined through a fold over sets of places, so the first lemmas
(`FoldsExist` to `FoldsNext`) show by induction on natural numbers what it does
to one more member; everything after rests on `TraceStep`, `ApplyStep`, and
`PredictStep`.

**NetworkProviderProofs** — for any games, threads and addresses, any size of a row,
lifetime and bound, under the assumptions of the three modules it composes
(`SNPAssumption`, `DirectIPAssumption`, `LocalPCAssumption`): `TypeCorrect`,
`RowsHaveOneOwner`, `PacketsKeepTheirOrder`, and the action properties
`ListIsHeldStill`, `LockedListsAreCurrent`, `OnlyOldPacketsAreDropped`.

The argument. `CallsOK` says of every thread where its call can be, and that the
critical section of a process and the mutex of the machine belong to exactly the
threads whose calls are at the places inside (`LocksOwned`): from this alone,
nobody else is inside while a list is locked, and `ListHeldStill` is read off the
steps. `GamesOK` is an invariant about time: the entries of the list are of
different hosts and carry the time at which the host was last heard of, and a host
without an entry has been silent for the lifetime of an advertisement, so that pruning by
the entries' times is pruning by the hosts'. `Orderly` says that a queue holds packets
that came, by the number of their arrival, in ascending order, each once; for a packet on its way
from the socket (`InHand`) or in a row (`RowsOrdered`) it must be `Before`: newer than
everything the process has. Where two threads share the receive buffer of `DirectIP`, or a row is
counted beyond its end, these claims are lost for that process, and `Sound` says so;
`RowsHeld` likewise excepts a row that was marked at tick count zero, which the code
takes for free. `PrunedKeeps` and `AdvertisedKeeps` are the lemmas about the model's list
operators, `InOrderIs` that about listing a finite set of numbers in ascending order.

**Only model-checked.** Liveness (`Drains`, `TurnReturns`, `DeadClientIsDropped`,
`ClientsAreServed`, `CallsReturn`) is out of the prover's reach.

## 6. Disagreements between code and documentation

* **A command is accepted and lost** (`queue_loses_append`). The adapter's
  heartbeat writes back the header it read; an append in between returns
  `appended = true` and is erased from the header
  (`RuntimeResidentBridge.cpp:1242`). The load test states that a submitted
  command is consumed (`tests/runtime_resident_adapter_load_test.cpp:729`). The
  comparison of ready file and queues does not exclude it: a submitter passes it
  and appends while the next ensure is under way.
* **Minerals that are not accessible** (`units_minerals`). `extractUnitData` turns
  a unit that has become inaccessible into one of unknown type and neutral owner
  before `computeSecondaryUnitSets` uses both to find the sets it should leave
  (`GameUnits.cpp:231`), so `getMinerals` keeps it, against
  `include/BWAPI/Game.h:76`. Geysers and the owner's units keep it as well.
* **The older of two commands stands** (`optimizer_order`). `add` inserts at the
  front, `flush` sends from the front and type by type, so at level 1 a unit told
  to right-click two targets in one frame goes to the first, although
  `include/BWAPI/Game.h:1515` says of the level that it does not alter behaviour.

* **The price of the wrong unit is given back** (`latency_slot`). The compensation
  treats a cancellation of slot 0 as one of the last slot
  (`include/BWAPI/Client/CommandTemp.h:468`): it gives back the price of the last
  unit of the queue, while Brood War cancels the first, which
  `include/BWAPI/Unit.h:1849` promises. The compensation exists "to protect bots from
  overspending" (`CommandTemp.h:157`); here it makes them overspend.
* **A weapon's range holds what it cannot hit** (`weapon_range`). The tests for air
  and ground, and those for what a weapon is limited to, are the wrong way round
  (`BWAPILIB/Source/Unit.cpp:71`), against `include/BWAPI/Unit.h:829`.
* **The player joins the first game** (`provider_joins`). `passAdvertisement`
  numbers the entries of the list and then overwrites the number with the host's
  own, which is 0 (`SNP_DirectIP/SNP/SNPModule.cpp:105`), so that the search by number
  finds the first entry, against the comment at `SNPModule.cpp:374`.

## 7. Other observations

What the models do because the code does, and what limits the properties:

* After one append all submissions are rejected until the next ready file;
  routed overlay actions make ready file and overlay queue differ, which rejects
  submissions for one more beat. The overlay queue is not drained by anything but
  a renderer; when it is full, further actions are dropped although the command
  that carried them is acknowledged.
* A killed submitter can leave a slot that never becomes readable, and the queue
  is then stuck. Commands that were queued for one game are consumed by the next
  that uses the directory. If no resident sink is found at the time of
  submission, commands go to `commands.log` and are reported as submitted.
* An adapter stopped and started in one process counts heartbeats from 1 again
  (`docs/remastered-porting.md:211` calls the heartbeat a monotonic counter);
  submissions are rejected until it passes the recorded maximum.
* The state file of the heartbeat is shared by submitters without a lock
  (`RuntimeExecutor.cpp:1825`), and the ready file is removed before it is
  replaced where it cannot be renamed over (`RuntimeResidentAdapterEntry.cpp:4442`).
  If the audit file cannot be opened, a batch is acknowledged without having been
  routed (`RuntimeResidentAdapterEntry.cpp:3683`).
* A client picks the free row refreshed *longest ago*; the comment at
  `Client.cpp:50` says the most recent. Rows of games that have exited are
  therefore preferred, which the premise `Promising` of `ClientsAreServed` leaves
  out. A client that died between opening the pipe and the next
  `checkForConnections` leaves the pipe closing for good. A client of another
  version blocks the game. With two clients for three games and two rows,
  `ClientsAreServed` fails even under its premise: displaced rows hide games.
* The events of the turn in which a client connects are never dispatched to it
  (`missed` in `ClientServer`).
* A client's death in its turn does not undo the commands it has already written:
  they are carried out.
* A siege tank that morphs is said to be completed again; `neutralUnits` is not
  maintained when a neutral unit changes hands; units that die unseen stay in
  the sets; unit numbers are never used again, and there are 10 000.
* Two equal commands of one unit join one group and are executed once (training
  twice). `Stop` for a reaver or carrier in a list becomes a plain stop, and
  attacks of a mixed group use the kind of the front unit: `DependsOnFront`
  names these. Commands that the optimizer refuses overtake those it took. At
  level 4 a spell on a unit is turned into one on a position that is not aligned,
  since the type is compared as it was given (`CommandOptimizer.cpp:142`), and
  a merge of templars loses its target. The `Unload` branches for units without a
  selection are dead code from level 2 on. `Unload_All` is grouped from level 1
  on, though the documentation lists it at level 3. For a set, `issueCommand`
  answers false when no command was left for the shared selection
  (`GameImpl.cpp:715`), against `include/BWAPI/Game.h:951`.
* *Bridge, further.* The heartbeat that starts again and the overlay queue that
  nobody drains (above) have no property of their own: the properties of the bridge
  hold with both. A write-back of an old header (by `ensure`, `RuntimeResidentBridge.cpp:1242`, by
  an acknowledgement, `:1448`, or by another submitter, `:1321`) makes the ready file describe
  the queue again, so that a submitter who has appended on that file may pass on it once more;
  and a second submitter that writes an old copy takes an acknowledgement back, so
  that records are consumed twice and an admitted batch is cut short.
* *Legality.* The optimizer makes commands of legal ones that are not: an attack by a
  sieged tank, a burrowed lurker or a cannon becomes a right click, which
  `canRightClickUnit` refuses for them (`include/BWAPI/Unit.h:1783`); likewise a rally
  point on an enemy and an infestation; cloaking a unit that an arbiter cloaks
  becomes a decloak; a reaver's scarab becomes an interceptor
  (`CommandOptimizer.cpp:93`). `Misjudged` names these five kinds. The question for a reaver and
  a flying target sets an error without returning false (`Templates.h:690`);
  `canTargetUnit` for an unseen unit, and the grouped questions for Build and Lift,
  return false without an error. `canResearch` and `canUpgrade` with a type do
  not ask whether the unit can be commanded. `canTrain` never asks whether the
  queue is full. Edmund Duke's tank in siege mode and the floor and wall traps of the
  installations (`BWAPILIB/Source/UnitType.cpp:646`, `:824`) are armed, cannot move and are no
  buildings: alone they may attack, in a group `canAttackUnitGrouped` refuses them, since
  `Templates.h:720` makes an exception for `Terran_Siege_Tank_Siege_Mode` only. These are
  the `Emplaced` units.
* *Search.* For the radius the rectangle is wider by one on the right than on
  the left (`Templates.h:103`), so units that are adjacent on the right may be
  found where those on the left are not. An omitted filter of
  `getUnitsInWeaponRange` calls an empty function (`Unit.h:832`).
  `getClosestUnit` of the library takes a unit as a point (`Unit.cpp:37`).
* *Direct sink.* It takes the buffer to hold 512 bytes, the game sends at 500
  (`SNPNetwork.h:13`, `DLLMain.cpp:40`). A submission that overlaps a command of the
  game or a turn loses bytes or sends them twice (`DLLMain.cpp:44`, `:65`): the
  history `overlapped`.
* *Latency.* Two cancellations in one frame give the price of the last unit
  back twice; a sixth unit is written behind the array of five (`UnitData.h:46`);
  `canCancelTrain` asks only whether something is trained, so that a second
  cancellation reads the slot before the first (`CommandTemp.h:471`).
  `isResearching` is not cleared by a cancellation. Once the queue was full, a cancelled
  slot may lie behind the end of the queue that is shown, and the price given back
  is that of what the array held there (`CommandTemp.h:453`); the instance is
  too small for it, and the theorems say nothing of what follows a full queue.
* *Provider.* The list is linked before outdated entries are taken out of it
  (`SNPModule.cpp:181`). Packets and entries age by tick counts, which wrap: what
  `SameLap` excepts. Two threads share the receive buffer (`overwritten`). A row is
  tested for being free before the mutex is taken (`LocalPC.cpp:140`), its count may
  pass 16 (`:146`), rows of crashed processes are never free again, and a row marked
  when the tick count is zero looks free (`zeroTouch`).

## 8. What is not modelled

`PROJECT.json` has a note on each of these. In short:

* *Views of the game's memory* — players, forces, bullets, regions, the map, most
  data of units: recomputed from Brood War's structures in every frame, without
  state that outlives it.
* *Tables* — unit types, techs, weapons, filters: constants and functions of
  them. What the legality of commands asks about a type is in `CommandLegality`.
* *Menus played by themselves*: driven by dialogs that belong to Brood War; what
  a click does, and which menu comes next, is not in the repository.
* *AI modules and tournament modules*: a DLL that is loaded and called.
* *Contract, manifest, readiness, gap report, the runtime command queue, encoder
  and surface*: sequential checks and conversions; each looks at a list once and
  passes or refuses. They come before `ReadReady` of `ResidentBridge`.
* *Launch, installation, process memory, injection, code patches, routes into the
  game, drawing*: operating system and binary layout.
* *Tools, tests, examples, vendored code*: read as evidence, not modelled. Much of
  the repository's volume is of this kind: tables of types and their tests, and a
  tool that probes the adapter.

Within the modelled parts: errors of single file accesses (queue and bridge);
gas, supply, orders and morphs (latency compensation); replays, nukes, selection and
unit counts (unit sets); which error is reported (legality); searches for the
closest or best unit (unit search); the settings dialog, `spiFree` and errors of the
socket (provider).

## 9. Plan

The order in which the models were written: queue, turns and table, because they
carry every command; bridge, units and optimizer, which hang on them; then direct
sink, latency compensation, search, provider and legality. The proofs followed the
same order. What would add most next:

1. In `LatencyCompensation`, gas and supply beside minerals, and morphs.
2. Runtime contract and command queue as the gate before `ResidentBridge`, once
   they keep state of their own.
