---------------------------- MODULE ClientServer ----------------------------
(***************************************************************************)
(* The classic interprocess interface: a game with BWAPI injected (Server) *)
(* and the client processes that want to play it (BWAPIClient).  They      *)
(* share one block of memory and pass the right to use it to and fro over  *)
(* a named pipe: the game writes 2 and waits for a 1, the client writes 1  *)
(* and waits for a 2.  Clients may die at any point, the game may exit.    *)
(*                                                                         *)
(* The match is modelled as far as it decides who is served: a client is   *)
(* only accepted between matches, the first frame of a match chooses       *)
(* between the client and the AI library, and the end of a match is told   *)
(* in two updates.                                                         *)
(***************************************************************************)
EXTENDS Naturals, Sequences

CONSTANTS
  Clients,        \* client processes
  Compatible,     \* those whose CLIENT_VERSION is the server's
  Game,           \* the game, as the holder of the shared memory
  MaxCommands     \* bound: commands a client issues in one turn

ASSUME ClientsAssumption == Compatible \subseteq Clients /\ Game \notin Clients
ASSUME MaxCommandsAssumption == MaxCommands \in Nat

VARIABLES
  stage,          \* "menu", "match", or "over": MatchEnd has been announced
  started,        \* GameImpl::startedClient
  module,         \* GameImpl::client: none, the blank module, the AI library
  plan,           \* server.update calls the game is about to make
  spc,            \* "game", "waiting" in callOnFrame, or "commands"
  connected,      \* Server::connected
  waits,          \* the server's end of the pipe blocks (PIPE_WAIT)
  row,            \* isConnected in the game table
  data,           \* the shared memory
  pipe,           \* the named pipe
  cpc,            \* what each client does
  mapped,         \* the client has mapped this game's shared memory
  cInGame,        \* GameImpl::inGame of each client
  missed          \* history: the client's first turn was a MatchStart

gameVars   == <<stage, started, module, plan>>
serverVars == <<spc, connected, waits, row>>
clientVars == <<cpc, mapped, cInGame, missed>>
vars == <<gameVars, serverVars, data, pipe, clientVars>>

-----------------------------------------------------------------------------
\* One server.update: the events queued for it, and isInGame() while it runs.
Updates == [start : BOOLEAN, inGame : BOOLEAN]

MenuUpdate  == [start |-> FALSE, inGame |-> FALSE]
StartUpdate == [start |-> TRUE,  inGame |-> TRUE]
FrameUpdate == [start |-> FALSE, inGame |-> TRUE]
EndUpdates  == <<FrameUpdate, MenuUpdate>>

\* The pipe: its state, the client at the other end, unread codes each way.
Pipe(state, owner) ==
  [state |-> state, owner |-> owner, toClient |-> 0, toServer |-> 0]
FreshPipe == Pipe("listening", Game)

\* The shared memory: what the published events and isInGame say, and the
\* commands with the client that wrote each and whether it was carried out.
FreshData == [start |-> FALSE, inGame |-> FALSE, commands |-> << >>]

Commands == [from : Clients, done : BOOLEAN]
Memories == [start : BOOLEAN, inGame : BOOLEAN, commands : Seq(Commands)]
Pipes == [state : {"listening", "open", "closing", "disconnected"},
          owner : Clients \cup {Game}, toClient : 0 .. 1, toServer : 0 .. 1]

\* The client holds the other end of this game's pipe.
Linked(c) == pipe.state = "open" /\ pipe.owner = c

Init ==
  /\ stage = "menu" /\ started = FALSE /\ module = "none" /\ plan = << >>
  /\ spc = "game" /\ connected = FALSE /\ waits = FALSE /\ row = FALSE
  /\ data = FreshData
  /\ pipe = FreshPipe
  /\ cpc = [c \in Clients |-> "out"]
  /\ mapped = [c \in Clients |-> FALSE]
  /\ cInGame = [c \in Clients |-> FALSE]
  /\ missed = [c \in Clients |-> FALSE]

-----------------------------------------------------------------------------
(* The game: each of these decides on the updates of one pass through the  *)
(* hooks; Update below carries them out.                                   *)

Idle == spc = "game" /\ plan = << >>

\* GameImpl::onMenuFrame
MenuFrame ==
  /\ Idle /\ stage = "menu"
  /\ plan' = <<MenuUpdate>>
  /\ UNCHANGED <<stage, started, module, serverVars, data, pipe, clientVars>>

\* GameImpl::update on the first frame: initializeAIModule asks the server
\* whether a client is connected, and loads the AI library if none is.
MatchStart ==
  /\ Idle /\ stage = "menu"
  /\ stage' = "match"
  /\ module' = IF connected THEN "blank" ELSE "library"
  /\ started' = TRUE
  /\ plan' = <<StartUpdate>>
  /\ UNCHANGED <<serverVars, data, pipe, clientVars>>

MatchFrame ==
  /\ Idle /\ stage = "match"
  /\ plan' = <<FrameUpdate>>
  /\ UNCHANGED <<stage, started, module, serverVars, data, pipe, clientVars>>

\* The match is decided, or left: MatchEnd, then a MenuFrame with inGame
\* already false.  Until the game is left, update() makes no more calls.
MatchEnd ==
  /\ Idle /\ stage = "match"
  /\ stage' = "over"
  /\ plan' = EndUpdates
  /\ UNCHANGED <<started, module, serverVars, data, pipe, clientVars>>

\* The rest of onGameEnd: initializeData.
LeaveGame ==
  /\ Idle /\ stage = "over"
  /\ stage' = "menu"
  /\ started' = FALSE
  /\ module' = "none"
  /\ UNCHANGED <<plan, serverVars, data, pipe, clientVars>>

\* The game process ends, and another starts: a pipe, a memory and a row of
\* the table of its own.
GameExits ==
  /\ stage' = "menu" /\ started' = FALSE /\ module' = "none" /\ plan' = << >>
  /\ spc' = "game" /\ connected' = FALSE /\ waits' = FALSE /\ row' = FALSE
  /\ data' = FreshData
  /\ pipe' = FreshPipe
  /\ mapped' = [c \in Clients |-> FALSE]
  /\ UNCHANGED <<cpc, cInGame, missed>>

-----------------------------------------------------------------------------
(* Server::update.                                                         *)

\* Mutant: the counts of the last turn are not reset.
Reset_Nothing == data.commands

Reset == << >>

\* Mutant: a client is accepted whenever none is connected.
Accepting_Always == TRUE

Accepting == ~ started

\* Mutant: the server's end of the pipe is left in non-blocking mode.
WaitMode_Unset == FALSE

\* setWaitForResponse(true)
WaitMode == TRUE

\* checkForConnections, with the pipe in non-blocking mode: a client that has
\* opened the pipe is connected; a pipe disconnected before begins to listen;
\* otherwise ConnectNamedPipe fails and nothing happens.
CheckForConnections ==
  /\ connected' = (Accepting /\ pipe.state = "open")
  /\ waits' = IF connected' THEN WaitMode ELSE waits
  /\ pipe' = IF Accepting /\ pipe.state = "disconnected" THEN FreshPipe ELSE pipe

\* No client: the events go to the module, and somebody may connect.
UpdateAlone ==
  /\ spc = "game" /\ plan # << >> /\ ~ connected
  /\ data' = [data EXCEPT !.commands = Reset]
  /\ row' = FALSE
  /\ CheckForConnections
  /\ plan' = Tail(plan)
  /\ UNCHANGED <<stage, started, module, spc, clientVars>>

\* updateSharedMemory, and the first half of callOnFrame: write 2.
UpdateClient ==
  /\ spc = "game" /\ plan # << >> /\ connected
  /\ data' = [start |-> Head(plan).start, inGame |-> Head(plan).inGame, commands |-> Reset]
  /\ row' = TRUE
  /\ pipe' = IF pipe.state = "open" THEN [pipe EXCEPT !.toClient = @ + 1] ELSE pipe
  /\ spc' = "waiting"
  /\ UNCHANGED <<gameVars, connected, waits, clientVars>>

\* callOnFrame reads a 1.
ReadReply ==
  /\ spc = "waiting" /\ pipe.toServer > 0
  /\ pipe' = [pipe EXCEPT !.toServer = @ - 1]
  /\ spc' = "commands"
  /\ UNCHANGED <<gameVars, connected, waits, row, data, clientVars>>

\* Mutant: the lost client is not forgotten.
Dropped_Never == connected

Dropped == FALSE

\* Mutant: the loop goes on reading.
ReadFails_Retries ==
  /\ spc = "waiting" /\ pipe.toServer = 0
  /\ pipe.state # "open" \/ ~ waits
  /\ UNCHANGED vars

\* ReadFile fails: the client closed its end, or there is nothing to read and
\* the pipe does not block.  DisconnectNamedPipe.
ReadFails ==
  /\ spc = "waiting" /\ pipe.toServer = 0
  /\ pipe.state # "open" \/ ~ waits
  /\ pipe' = Pipe("disconnected", Game)
  /\ connected' = Dropped
  /\ waits' = FALSE
  /\ spc' = "commands"
  /\ UNCHANGED <<gameVars, row, data, clientVars>>

\* processCommands runs whether or not the client came back; then the events
\* are cleared.
ProcessCommands ==
  /\ spc = "commands"
  /\ data' = [data EXCEPT !.start = FALSE,
                          !.commands = [i \in 1 .. Len(@) |-> [@[i] EXCEPT !.done = TRUE]]]
  /\ plan' = Tail(plan)
  /\ spc' = "game"
  /\ UNCHANGED <<stage, started, module, connected, waits, row, pipe, clientVars>>

ServerStep == UpdateAlone \/ UpdateClient \/ ReadReply \/ ReadFails \/ ProcessCommands

-----------------------------------------------------------------------------
(* The client.                                                             *)

\* connect(): a row that is not connected, and a pipe that can be opened.
\* A client of another version gives up here, but disconnect() does nothing
\* before "connected" is set, so that it keeps the pipe open.
Connect(c) ==
  /\ cpc[c] = "out"
  /\ ~ row
  /\ pipe.state = "listening"
  /\ pipe' = Pipe("open", c)
  /\ cpc' = [cpc EXCEPT ![c] = IF c \in Compatible THEN "connecting" ELSE "refused"]
  /\ mapped' = [mapped EXCEPT ![c] = TRUE]
  /\ cInGame' = [cInGame EXCEPT ![c] = FALSE]
  /\ UNCHANGED <<gameVars, serverVars, data, missed>>

\* connect() is given its first 2 and returns; the events are not dispatched.
FirstTurn(c) ==
  /\ cpc[c] = "connecting" /\ Linked(c) /\ pipe.toClient > 0
  /\ pipe' = [pipe EXCEPT !.toClient = @ - 1]
  /\ cpc' = [cpc EXCEPT ![c] = "turn"]
  /\ missed' = [missed EXCEPT ![c] = data.inGame]
  /\ UNCHANGED <<gameVars, serverVars, data, mapped, cInGame>>

\* addCommand, addUnitCommand
IssueCommand(c) ==
  /\ cpc[c] = "turn" /\ mapped[c]
  /\ Len(data.commands) < MaxCommands
  /\ data' = [data EXCEPT !.commands = Append(@, [from |-> c, done |-> FALSE])]
  /\ UNCHANGED <<gameVars, serverVars, pipe, clientVars>>

\* update() writes 1 ...
EndTurn(c) ==
  /\ cpc[c] = "turn"
  /\ pipe' = IF Linked(c) THEN [pipe EXCEPT !.toServer = @ + 1] ELSE pipe
  /\ cpc' = [cpc EXCEPT ![c] = "update"]
  /\ UNCHANGED <<gameVars, serverVars, data, mapped, cInGame, missed>>

\* Mutant: the end of the match is not noticed.
InGameAfter_NoMatchEnd(c) == cInGame[c] \/ data.start

\* onMatchStart for the event, onMatchEnd when isInGame has gone false
InGameAfter(c) == (cInGame[c] \/ data.start) /\ data.inGame

\* ... and reads a 2: the events are dispatched.
NextTurn(c) ==
  /\ cpc[c] = "update" /\ Linked(c) /\ pipe.toClient > 0
  /\ pipe' = [pipe EXCEPT !.toClient = @ - 1]
  /\ cpc' = [cpc EXCEPT ![c] = "turn"]
  /\ cInGame' = [cInGame EXCEPT ![c] = InGameAfter(c)]
  /\ missed' = [missed EXCEPT ![c] = @ /\ data.inGame]
  /\ UNCHANGED <<gameVars, serverVars, data, mapped>>

\* ReadFile fails, in connect() or in update(): the game is gone.
LoseGame(c) ==
  /\ cpc[c] \in {"connecting", "update"} /\ ~ Linked(c)
  /\ cpc' = [cpc EXCEPT ![c] = "out"]
  /\ mapped' = [mapped EXCEPT ![c] = FALSE]
  /\ UNCHANGED <<gameVars, serverVars, data, pipe, cInGame, missed>>

\* The client process ends, and another may be started.
ClientDies(c) ==
  /\ cpc[c] # "out"
  /\ cpc' = [cpc EXCEPT ![c] = "out"]
  /\ mapped' = [mapped EXCEPT ![c] = FALSE]
  /\ pipe' = IF Linked(c) THEN [pipe EXCEPT !.state = "closing"] ELSE pipe
  /\ UNCHANGED <<gameVars, serverVars, data, cInGame, missed>>

ClientStep(c) == FirstTurn(c) \/ EndTurn(c) \/ NextTurn(c) \/ LoseGame(c)

-----------------------------------------------------------------------------
GameStep == MenuFrame \/ MatchStart \/ MatchFrame \/ MatchEnd \/ LeaveGame

Next ==
  \/ GameStep \/ ServerStep \/ GameExits
  \/ \E c \in Clients : Connect(c) \/ ClientStep(c) \/ IssueCommand(c) \/ ClientDies(c)

Spec == Init /\ [][Next]_vars

\* The game's thread runs the update it has begun to its end; a client that
\* waits reads what there is to read; a bot returns from its frame.
FairSpec ==
  /\ Spec
  /\ WF_vars(ServerStep)
  /\ \A c \in Clients : WF_vars(ClientStep(c))

-----------------------------------------------------------------------------
(* Properties.                                                             *)

TypeOK ==
  /\ stage \in {"menu", "match", "over"}
  /\ started \in BOOLEAN
  /\ module \in {"none", "blank", "library"}
  /\ plan \in Seq(Updates)
  /\ spc \in {"game", "waiting", "commands"}
  /\ connected \in BOOLEAN
  /\ waits \in BOOLEAN
  /\ row \in BOOLEAN
  /\ data \in Memories
  /\ pipe \in Pipes
  /\ cpc \in [Clients -> {"out", "connecting", "refused", "turn", "update"}]
  /\ mapped \in [Clients -> BOOLEAN]
  /\ cInGame \in [Clients -> BOOLEAN]
  /\ missed \in [Clients -> BOOLEAN]

\* While a client holds the turn the game is blocked in callOnFrame, so that
\* the two never use the shared memory at the same time, and no code is left
\* in the pipe that could wake the game before the client is done.
TurnExclusion ==
  \A c \in Clients : cpc[c] = "turn" /\ mapped[c] =>
    /\ spc = "waiting" /\ Linked(c)
    /\ pipe.toServer = 0 /\ pipe.toClient = 0

\* The commands the game carries out were all written in the turn that has
\* just ended, by the client that had it: none of an earlier turn is carried
\* out again, and none of an earlier client, however clients come and go.
CommandsAreFresh ==
  spc = "commands" =>
    \A i \in 1 .. Len(data.commands) :
      /\ ~ data.commands[i].done
      /\ pipe.state # "disconnected" => data.commands[i].from = pipe.owner

\* A client at its turn has prepared its copy of the match exactly while the
\* game is in one, unless it was connected by the very update that started
\* the match: then the event was published and never dispatched to it.
MatchStateAgrees ==
  \A c \in Clients : cpc[c] = "turn" /\ mapped[c] =>
    \/ cInGame[c] = data.inGame
    \/ missed[c]

\* A match that was given to the AI library is never also given to a client.
OnePlayer == module = "library" => ~ connected

\* A client that died, or a bot that returned, does not keep the game blocked.
\* The premise leaves out a client of another version, which keeps the pipe
\* open and never answers: it blocks the game for as long as it lives.
TurnReturns == spc = "waiting" /\ pipe.owner \in Compatible ~> spc = "game"

\* A client whose end of the pipe is closed is forgotten the next time it is
\* to be served, so that its row is free again.
Serving == spc = "game" /\ plan # << >> /\ connected /\ pipe.state = "closing"
DeadClientIsDropped == Serving ~> ~ connected

-----------------------------------------------------------------------------
(* What else an inductive argument for the safety properties needs.        *)

\* Only a client whose end is open, or was when it died, is connected, and
\* then the server's end blocks; who has opened the pipe is alive and mapped.
Connection ==
  /\ spc = "waiting" => connected
  /\ connected => waits /\ pipe.state \in {"open", "closing"}
  /\ spc = "commands" => pipe.state # "listening"
  /\ pipe.state \in {"open", "closing"} => pipe.owner \in Clients
  /\ pipe.state = "open" => cpc[pipe.owner] # "out" /\ mapped[pipe.owner]

\* There is one token: the game runs, the client has the turn, or one code is
\* on its way.
OneToken ==
  /\ pipe.toClient + pipe.toServer <= 1
  /\ spc # "waiting" => pipe.toServer = 0
  /\ spc # "waiting" /\ pipe.state = "open" => pipe.toClient = 0
  /\ pipe.state = "listening" => pipe.toClient = 0

\* What CommandsAreFresh says already holds while the game waits.
CommandsOfOwner ==
  spc = "waiting" =>
    \A i \in 1 .. Len(data.commands) :
      ~ data.commands[i].done /\ data.commands[i].from = pipe.owner

PlanPending == spc # "game" => plan # << >>

LibraryStarted == module = "library" => started

IInv ==
  /\ TypeOK
  /\ Connection
  /\ OneToken
  /\ TurnExclusion
  /\ CommandsAreFresh
  /\ CommandsOfOwner
  /\ PlanPending
  /\ LibraryStarted
  /\ OnePlayer

-----------------------------------------------------------------------------
\* The interface implements the taking of turns: the memory is the client's
\* from the update that writes 2 to the moment the game has read the answer.
Holder == IF spc = "waiting" THEN pipe.owner ELSE Game
Writers(cmds) == [i \in 1 .. Len(cmds) |-> cmds[i].from]
Orders == IF spc = "game" THEN << >> ELSE Writers(data.commands)

Turns == INSTANCE TurnTaking WITH
  MaxOrders <- MaxCommands, holder <- Holder, orders <- Orders

\* Deaths of clients, exits of the game and reconnections included, game and
\* client take turns on the memory, and orders are carried out once.
ImplementsTurnTaking == Turns!Spec
=============================================================================
