------------------------- MODULE ClientServerProofs -------------------------
(***************************************************************************)
(* Proofs about ClientServer, for any set of clients of any versions and   *)
(* any number of commands: the invariant IInv is inductive, its parts that *)
(* matter follow, and with it every step is a step of TurnTaking.          *)
(***************************************************************************)
EXTENDS ClientServer, SequenceTheorems, TLAPS

-----------------------------------------------------------------------------
(* Types of the values that the actions build.                             *)

Marked(cmds) == [i \in 1 .. Len(cmds) |-> [cmds[i] EXCEPT !.done = TRUE]]

\* Marking commands as carried out gives a sequence of commands again.
LEMMA MarkedType ==
  ASSUME NEW cmds \in Seq(Commands)
  PROVE  Marked(cmds) \in Seq(Commands)
<1>1. ASSUME NEW r \in Commands PROVE [r EXCEPT !.done = TRUE] \in Commands
  BY DEF Commands
<1>2. Len(cmds) \in Nat /\ \A i \in 1 .. Len(cmds) : cmds[i] \in Commands
  OBVIOUS
<1>3. Marked(cmds) \in [1 .. Len(cmds) -> Commands]
  BY <1>1, <1>2 DEF Marked
<1>4. QED
  BY <1>2, <1>3

\* The pipe that nobody has opened, and what is made of it.
LEMMA FreshPipeType ==
  /\ FreshPipe \in Pipes
  /\ Pipe("disconnected", Game) \in Pipes
  /\ \A c \in Clients : Pipe("open", c) \in Pipes
BY DEF FreshPipe, Pipe, Pipes

LEMMA FreshDataType == FreshData \in Memories
<1>1. << >> \in Seq(Commands)
  OBVIOUS
<1>2. QED
  BY <1>1 DEF FreshData, Memories

LEMMA UpdatesType ==
  /\ <<MenuUpdate>> \in Seq(Updates) /\ <<StartUpdate>> \in Seq(Updates)
  /\ <<FrameUpdate>> \in Seq(Updates) /\ EndUpdates \in Seq(Updates)
<1>1. MenuUpdate \in Updates /\ StartUpdate \in Updates /\ FrameUpdate \in Updates
  BY DEF MenuUpdate, StartUpdate, FrameUpdate, Updates
<1>2. QED
  BY <1>1 DEF EndUpdates

-----------------------------------------------------------------------------
(* The invariant holds initially.                                          *)

LEMMA InitIInv == Init => IInv
<1> SUFFICES ASSUME Init PROVE IInv
  OBVIOUS
<1>0. << >> \in Seq(Updates)
  OBVIOUS
<1>1. TypeOK
  BY <1>0, FreshDataType, FreshPipeType DEF Init, TypeOK
<1>2. pipe.state = "listening" /\ pipe.toClient = 0 /\ pipe.toServer = 0
  BY DEF Init, FreshPipe, Pipe
<1>3. Connection /\ OneToken
  BY <1>2 DEF Init, Connection, OneToken
<1>4. TurnExclusion /\ CommandsAreFresh /\ CommandsOfOwner
  BY DEF Init, TurnExclusion, CommandsAreFresh, CommandsOfOwner
<1>5. QED
  BY <1>1, <1>3, <1>4 DEF Init, IInv, PlanPending, LibraryStarted, OnePlayer

-----------------------------------------------------------------------------
(* Each part of the invariant is kept.                                     *)

\* The cases of a step.
LEMMA StepCases ==
  ASSUME [Next]_vars
  PROVE  \/ GameStep
         \/ UpdateAlone \/ UpdateClient \/ ReadReply \/ ReadFails \/ ProcessCommands
         \/ GameExits
         \/ \E c \in Clients : Connect(c)
         \/ \E c \in Clients : ClientStep(c)
         \/ \E c \in Clients : IssueCommand(c)
         \/ \E c \in Clients : ClientDies(c)
         \/ UNCHANGED vars
BY DEF Next, ServerStep

\* Every variable keeps its type.
LEMMA TypeStep ==
  ASSUME IInv, [Next]_vars
  PROVE  TypeOK'
<1>0. TypeOK /\ OneToken /\ Connection /\ TurnExclusion /\ PlanPending
  BY DEF IInv
<1>1. CASE GameStep
  <2>0. plan' \in {plan, <<MenuUpdate>>, <<StartUpdate>>, <<FrameUpdate>>, EndUpdates}
    BY <1>1 DEF GameStep, MenuFrame, MatchStart, MatchFrame, MatchEnd, LeaveGame
  <2>1. plan' \in Seq(Updates)
    BY <1>0, <2>0, UpdatesType DEF TypeOK
  <2>2. /\ stage' \in {"menu", "match", "over"} /\ started' \in BOOLEAN
        /\ module' \in {"none", "blank", "library"}
    BY <1>0, <1>1 DEF TypeOK, GameStep, MenuFrame, MatchStart, MatchFrame, MatchEnd, LeaveGame
  <2>3. UNCHANGED <<spc, connected, waits, row, data, pipe, cpc, mapped, cInGame, missed>>
    BY <1>1 DEF GameStep, MenuFrame, MatchStart, MatchFrame, MatchEnd, LeaveGame,
       serverVars, clientVars
  <2>4. QED
    BY <1>0, <2>1, <2>2, <2>3 DEF TypeOK
<1>2. CASE UpdateAlone
  <2>0. << >> \in Seq(Commands)
    OBVIOUS
  <2>1. data' \in Memories
    BY <1>0, <1>2, <2>0 DEF TypeOK, UpdateAlone, Reset, Memories
  <2>2. pipe' \in Pipes
    BY <1>0, <1>2, FreshPipeType DEF TypeOK, UpdateAlone, CheckForConnections
  <2>3. connected' \in BOOLEAN /\ waits' \in BOOLEAN
    BY <1>0, <1>2 DEF TypeOK, UpdateAlone, CheckForConnections, WaitMode
  <2>4. plan' \in Seq(Updates)
    BY <1>0, <1>2 DEF TypeOK, UpdateAlone
  <2>5. QED
    BY <1>0, <1>2, <2>1, <2>2, <2>3, <2>4 DEF TypeOK, UpdateAlone, clientVars
<1>3. CASE UpdateClient
  <2>1. Head(plan) \in Updates
    BY <1>0, <1>3 DEF TypeOK, UpdateClient
  <2>2. << >> \in Seq(Commands)
    OBVIOUS
  <2>3. data' \in Memories
    BY <1>3, <2>1, <2>2 DEF UpdateClient, Updates, Reset, Memories
  <2>4. pipe.state = "open" => pipe.toClient = 0
    BY <1>0, <1>3 DEF UpdateClient, OneToken
  <2>5. pipe' \in Pipes
    BY <1>0, <1>3, <2>4 DEF TypeOK, UpdateClient, Pipes
  <2>6. QED
    BY <1>0, <1>3, <2>3, <2>5 DEF TypeOK, UpdateClient, gameVars, clientVars
<1>4. CASE ReadReply
  <2>1. pipe' \in Pipes
    BY <1>0, <1>4 DEF TypeOK, ReadReply, Pipes
  <2>2. QED
    BY <1>0, <1>4, <2>1 DEF TypeOK, ReadReply, gameVars, clientVars
<1>5. CASE ReadFails
  BY <1>0, <1>5, FreshPipeType DEF TypeOK, ReadFails, Dropped, gameVars, clientVars
<1>6. CASE ProcessCommands
  <2>1. Marked(data.commands) \in Seq(Commands)
    BY <1>0, MarkedType DEF TypeOK, Memories
  <2>2. data' = [data EXCEPT !.start = FALSE, !.commands = Marked(data.commands)]
    BY <1>6 DEF ProcessCommands, Marked
  <2>3. data' \in Memories
    BY <1>0, <2>1, <2>2 DEF TypeOK, Memories
  <2>4. plan' \in Seq(Updates)
    BY <1>0, <1>6 DEF TypeOK, ProcessCommands, PlanPending
  <2>5. QED
    BY <1>0, <1>6, <2>3, <2>4 DEF TypeOK, ProcessCommands, clientVars
<1>7. CASE GameExits
  <2>1. << >> \in Seq(Updates)
    OBVIOUS
  <2>2. QED
    BY <1>0, <1>7, <2>1, FreshPipeType, FreshDataType DEF TypeOK, GameExits
<1>8. CASE \E c \in Clients : Connect(c)
  BY <1>0, <1>8, FreshPipeType DEF TypeOK, Connect, gameVars, serverVars
<1>9. CASE \E c \in Clients : ClientStep(c)
  <2> SUFFICES ASSUME NEW c \in Clients, ClientStep(c) PROVE TypeOK'
    BY <1>9
  <2>1. CASE FirstTurn(c)
    <3>1. pipe' \in Pipes
      BY <1>0, <2>1 DEF TypeOK, FirstTurn, Pipes
    <3>2. data.inGame \in BOOLEAN
      BY <1>0 DEF TypeOK, Memories
    <3>3. QED
      BY <1>0, <2>1, <3>1, <3>2 DEF TypeOK, FirstTurn, gameVars, serverVars
  <2>2. CASE EndTurn(c)
    <3>1. Linked(c) => pipe.toServer = 0
      BY <1>0, <2>2 DEF EndTurn, Linked, Connection, TurnExclusion
    <3>2. pipe' \in Pipes
      BY <1>0, <2>2, <3>1 DEF TypeOK, EndTurn, Pipes
    <3>3. QED
      BY <1>0, <2>2, <3>2 DEF TypeOK, EndTurn, gameVars, serverVars
  <2>3. CASE NextTurn(c)
    <3>1. pipe' \in Pipes
      BY <1>0, <2>3 DEF TypeOK, NextTurn, Pipes
    <3>2. InGameAfter(c) \in BOOLEAN /\ (missed[c] /\ data.inGame) \in BOOLEAN
      BY DEF InGameAfter
    <3>3. cInGame' \in [Clients -> BOOLEAN] /\ missed' \in [Clients -> BOOLEAN]
      BY <1>0, <2>3, <3>2 DEF TypeOK, NextTurn
    <3>4. QED
      BY <1>0, <2>3, <3>1, <3>3 DEF TypeOK, NextTurn, gameVars, serverVars
  <2>4. CASE LoseGame(c)
    BY <1>0, <2>4 DEF TypeOK, LoseGame, gameVars, serverVars
  <2>5. QED
    BY <2>1, <2>2, <2>3, <2>4 DEF ClientStep
<1>10. CASE \E c \in Clients : IssueCommand(c)
  <2> SUFFICES ASSUME NEW c \in Clients, IssueCommand(c) PROVE TypeOK'
    BY <1>10
  <2>1. [from |-> c, done |-> FALSE] \in Commands
    BY DEF Commands
  <2>2. Append(data.commands, [from |-> c, done |-> FALSE]) \in Seq(Commands)
    BY <1>0, <2>1 DEF TypeOK, Memories
  <2>3. data' \in Memories
    BY <1>0, <2>2 DEF TypeOK, IssueCommand, Memories
  <2>4. QED
    BY <1>0, <2>3 DEF TypeOK, IssueCommand, gameVars, serverVars, clientVars
<1>11. CASE \E c \in Clients : ClientDies(c)
  <2> SUFFICES ASSUME NEW c \in Clients, ClientDies(c) PROVE TypeOK'
    BY <1>11
  <2>1. pipe' \in Pipes
    BY <1>0 DEF TypeOK, ClientDies, Pipes
  <2>2. QED
    BY <1>0, <2>1 DEF TypeOK, ClientDies, gameVars, serverVars
<1>12. CASE UNCHANGED vars
  BY <1>0, <1>12 DEF TypeOK, vars, gameVars, serverVars, clientVars
<1>13. QED
  BY StepCases, <1>1, <1>2, <1>3, <1>4, <1>5, <1>6, <1>7, <1>8, <1>9, <1>10, <1>11, <1>12

\* No game step touches the server, the memory, the pipe or a client.
LEMMA GameStepFrame ==
  ASSUME GameStep
  PROVE  /\ spc = "game"
         /\ UNCHANGED <<spc, connected, waits, row, data, pipe, cpc, mapped, cInGame, missed>>
BY DEF GameStep, MenuFrame, MatchStart, MatchFrame, MatchEnd, LeaveGame, Idle,
   serverVars, clientVars

\* What the invariant says about the client at the other end of the pipe.
LEMMA LinkedFacts ==
  ASSUME IInv, NEW c \in Clients, Linked(c)
  PROVE  /\ mapped[c]
         /\ cpc[c] # "out"
         /\ cpc[c] = "turn" => /\ spc = "waiting"
                               /\ pipe.toServer = 0 /\ pipe.toClient = 0
         /\ pipe.toClient > 0 => spc = "waiting"
BY DEF IInv, TypeOK, Linked, Connection, OneToken, TurnExclusion, Pipes

\* Who is connected, and whose the pipe is.
LEMMA ConnectionStep ==
  ASSUME IInv, [Next]_vars
  PROVE  Connection'
<1>0. TypeOK /\ Connection
  BY DEF IInv
<1>1. CASE GameStep
  BY <1>0, <1>1, GameStepFrame DEF Connection
<1>2. CASE UpdateAlone
  <2>1. /\ spc = "game" /\ spc' = "game" /\ cpc' = cpc /\ mapped' = mapped
    BY <1>2 DEF UpdateAlone, clientVars
  <2>2. connected' => pipe.state = "open" /\ pipe' = pipe /\ waits'
    BY <1>2 DEF UpdateAlone, CheckForConnections, WaitMode
  <2>3. pipe' = pipe \/ pipe'.state = "listening"
    BY <1>2 DEF UpdateAlone, CheckForConnections, FreshPipe, Pipe
  <2>4. QED
    BY <1>0, <2>1, <2>2, <2>3 DEF Connection
<1>3. CASE UpdateClient
  <2>1. pipe'.state = pipe.state /\ pipe'.owner = pipe.owner
    BY <1>0, <1>3 DEF TypeOK, Pipes, UpdateClient
  <2>2. QED
    BY <1>0, <1>3, <2>1 DEF Connection, UpdateClient, gameVars, clientVars
<1>4. CASE ReadReply
  <2>1. pipe'.state = pipe.state /\ pipe'.owner = pipe.owner
    BY <1>0, <1>4 DEF TypeOK, Pipes, ReadReply
  <2>2. QED
    BY <1>0, <1>4, <2>1 DEF Connection, ReadReply, gameVars, clientVars
<1>5. CASE ReadFails
  <2>1. pipe'.state = "disconnected" /\ connected' = FALSE /\ spc' = "commands"
    BY <1>5 DEF ReadFails, Pipe, Dropped
  <2>2. QED
    BY <2>1 DEF Connection
<1>6. CASE ProcessCommands
  BY <1>0, <1>6 DEF Connection, ProcessCommands, clientVars
<1>7. CASE GameExits
  <2>1. pipe'.state = "listening" /\ connected' = FALSE /\ spc' = "game"
    BY <1>7 DEF GameExits, FreshPipe, Pipe
  <2>2. QED
    BY <2>1 DEF Connection
<1>8. CASE \E c \in Clients : Connect(c)
  <2> SUFFICES ASSUME NEW c \in Clients, Connect(c) PROVE Connection'
    BY <1>8
  <2>1. pipe'.state = "open" /\ pipe'.owner = c
    BY DEF Connect, Pipe
  <2>2. cpc'[c] # "out" /\ mapped'[c]
    BY <1>0 DEF TypeOK, Connect
  <2>3. ~ connected /\ spc # "waiting" /\ UNCHANGED <<connected, spc>>
    BY <1>0 DEF Connection, Connect, serverVars
  <2>4. QED
    BY <2>1, <2>2, <2>3 DEF Connection
<1>9. CASE \E c \in Clients : ClientStep(c)
  <2> SUFFICES ASSUME NEW c \in Clients, ClientStep(c) PROVE Connection'
    BY <1>9
  <2>1. UNCHANGED <<spc, connected, waits>>
    BY DEF ClientStep, FirstTurn, EndTurn, NextTurn, LoseGame, serverVars
  <2>2. pipe'.state = pipe.state /\ pipe'.owner = pipe.owner
    BY <1>0 DEF TypeOK, Pipes, ClientStep, FirstTurn, EndTurn, NextTurn, LoseGame
  <2>3. ASSUME Linked(pipe.owner), pipe.owner \in Clients
        PROVE  cpc'[pipe.owner] # "out" /\ mapped'[pipe.owner]
    <3>1. cpc[pipe.owner] # "out" /\ mapped[pipe.owner]
      BY <2>3, LinkedFacts
    <3>2. QED
      BY <1>0, <2>3, <3>1 DEF TypeOK, ClientStep, FirstTurn, EndTurn, NextTurn, LoseGame
  <2>4. QED
    BY <1>0, <2>1, <2>2, <2>3 DEF Connection, Linked
<1>10. CASE \E c \in Clients : IssueCommand(c)
  BY <1>0, <1>10 DEF Connection, IssueCommand, serverVars, clientVars
<1>11. CASE \E c \in Clients : ClientDies(c)
  <2> SUFFICES ASSUME NEW c \in Clients, ClientDies(c) PROVE Connection'
    BY <1>11
  <2>1. UNCHANGED <<spc, connected, waits>>
    BY DEF ClientDies, serverVars
  <2>2. CASE Linked(c)
    <3>1. pipe'.state = "closing" /\ pipe'.owner = c
      BY <1>0, <2>2 DEF TypeOK, Pipes, ClientDies, Linked
    <3>2. QED
      BY <1>0, <2>1, <2>2, <3>1 DEF Connection, Linked
  <2>3. CASE ~ Linked(c)
    <3>1. pipe' = pipe
      BY <2>3 DEF ClientDies
    <3>2. pipe.state = "open" => pipe.owner # c
      BY <2>3 DEF Linked
    <3>3. pipe.state = "open" => cpc'[pipe.owner] # "out" /\ mapped'[pipe.owner]
      BY <1>0, <3>2 DEF TypeOK, Connection, ClientDies
    <3>4. QED
      BY <1>0, <2>1, <3>1, <3>3 DEF Connection
  <2>4. QED
    BY <2>2, <2>3
<1>12. CASE UNCHANGED vars
  BY <1>0, <1>12 DEF Connection, vars, serverVars, clientVars
<1>13. QED
  BY StepCases, <1>1, <1>2, <1>3, <1>4, <1>5, <1>6, <1>7, <1>8, <1>9, <1>10, <1>11, <1>12

\* There is never more than one code on its way.
LEMMA TokenStep ==
  ASSUME IInv, [Next]_vars
  PROVE  OneToken'
<1>0. TypeOK /\ OneToken /\ Connection
  BY DEF IInv
<1> DEFINE Same == UNCHANGED <<pipe, spc>>
<1>1. ASSUME Same PROVE OneToken'
  BY <1>0, <1>1 DEF OneToken
<1>2. ASSUME pipe'.toClient = 0, pipe'.toServer = 0 PROVE OneToken'
  BY <1>2 DEF OneToken
<1>3. CASE GameStep \/ (\E c \in Clients : IssueCommand(c)) \/ UNCHANGED vars
  BY <1>1, <1>3, GameStepFrame DEF IssueCommand, vars, serverVars
<1>4. CASE UpdateAlone
  <2>1. pipe' = pipe \/ (pipe'.toClient = 0 /\ pipe'.toServer = 0)
    BY <1>4 DEF UpdateAlone, CheckForConnections, FreshPipe, Pipe
  <2>2. spc' = spc
    BY <1>4 DEF UpdateAlone
  <2>3. QED
    BY <1>1, <1>2, <2>1, <2>2
<1>5. CASE UpdateClient
  <2>1. CASE pipe.state = "open"
    <3>1. /\ pipe'.toClient = pipe.toClient + 1 /\ pipe'.toServer = pipe.toServer
          /\ pipe'.state = "open" /\ spc' = "waiting"
      BY <1>0, <1>5, <2>1 DEF TypeOK, Pipes, UpdateClient
    <3>2. pipe.toClient = 0 /\ pipe.toServer = 0
      BY <1>0, <1>5, <2>1 DEF OneToken, UpdateClient
    <3>3. QED
      BY <3>1, <3>2 DEF OneToken
  <2>2. CASE pipe.state # "open"
    BY <1>0, <1>5, <2>2 DEF OneToken, UpdateClient
  <2>3. QED
    BY <2>1, <2>2
<1>6. CASE ReadReply
  <2>1. /\ pipe'.toServer = pipe.toServer - 1 /\ pipe'.toClient = pipe.toClient
        /\ pipe.toServer > 0
    BY <1>0, <1>6 DEF TypeOK, Pipes, ReadReply
  <2>2. pipe.toServer \in 0 .. 1 /\ pipe.toClient \in 0 .. 1
    BY <1>0 DEF TypeOK, Pipes
  <2>3. QED
    BY <1>0, <2>1, <2>2, <1>2 DEF OneToken
<1>7. CASE ReadFails \/ GameExits \/ \E c \in Clients : Connect(c)
  BY <1>2, <1>7 DEF ReadFails, GameExits, Connect, FreshPipe, Pipe
<1>8. CASE ProcessCommands
  BY <1>0, <1>8 DEF OneToken, ProcessCommands
<1>9. CASE \E c \in Clients : ClientStep(c)
  <2> SUFFICES ASSUME NEW c \in Clients, ClientStep(c) PROVE OneToken'
    BY <1>9
  <2>1. CASE FirstTurn(c) \/ NextTurn(c)
    <3>1. /\ pipe'.toClient = pipe.toClient - 1 /\ pipe'.toServer = pipe.toServer
          /\ pipe.toClient > 0
      BY <1>0, <2>1 DEF TypeOK, Pipes, FirstTurn, NextTurn
    <3>2. pipe.toServer \in 0 .. 1 /\ pipe.toClient \in 0 .. 1
      BY <1>0 DEF TypeOK, Pipes
    <3>3. QED
      BY <1>0, <1>2, <3>1, <3>2 DEF OneToken
  <2>2. CASE EndTurn(c) /\ Linked(c)
    <3>1. /\ pipe'.toServer = pipe.toServer + 1 /\ pipe'.toClient = pipe.toClient
          /\ pipe'.state = "open" /\ spc' = spc
      BY <1>0, <2>2 DEF TypeOK, Pipes, EndTurn, Linked, serverVars
    <3>2. pipe.toServer = 0 /\ pipe.toClient = 0 /\ spc = "waiting"
      BY <2>2, LinkedFacts DEF EndTurn
    <3>3. QED
      BY <3>1, <3>2 DEF OneToken
  <2>3. CASE (EndTurn(c) /\ ~ Linked(c)) \/ LoseGame(c)
    BY <1>1, <2>3 DEF EndTurn, LoseGame, serverVars
  <2>4. QED
    BY <2>1, <2>2, <2>3 DEF ClientStep
<1>10. CASE \E c \in Clients : ClientDies(c)
  <2>1. /\ pipe'.toClient = pipe.toClient /\ pipe'.toServer = pipe.toServer /\ spc' = spc
        /\ pipe' = pipe \/ pipe'.state = "closing"
    BY <1>0, <1>10 DEF TypeOK, Pipes, ClientDies, serverVars
  <2>2. QED
    BY <1>0, <2>1 DEF OneToken
<1>11. QED
  BY StepCases, <1>3, <1>4, <1>5, <1>6, <1>7, <1>8, <1>9, <1>10

\* The turn is where the token is not.
LEMMA ExclusionStep ==
  ASSUME IInv, [Next]_vars
  PROVE  TurnExclusion'
<1>0. TypeOK /\ OneToken /\ Connection /\ TurnExclusion
  BY DEF IInv
<1> SUFFICES ASSUME NEW c \in Clients, cpc'[c] = "turn", mapped'[c]
             PROVE  spc' = "waiting" /\ Linked(c)' /\ pipe'.toServer = 0 /\ pipe'.toClient = 0
  BY DEF TurnExclusion
<1> DEFINE Goal == /\ spc' = "waiting" /\ Linked(c)'
                   /\ pipe'.toServer = 0 /\ pipe'.toClient = 0
\* A client that already had the turn and keeps it.
<1>1. ASSUME cpc' = cpc, mapped' = mapped
      PROVE  spc = "waiting" /\ Linked(c) /\ pipe.toServer = 0 /\ pipe.toClient = 0
  BY <1>0, <1>1 DEF TurnExclusion
<1>2. CASE GameStep
  BY <1>1, <1>2, GameStepFrame
<1>3. CASE UpdateAlone \/ UpdateClient \/ ProcessCommands
  <2>1. cpc' = cpc /\ mapped' = mapped /\ spc # "waiting"
    BY <1>3 DEF UpdateAlone, UpdateClient, ProcessCommands, clientVars
  <2>2. QED
    BY <1>1, <2>1
<1>4. CASE ReadReply \/ ReadFails
  <2>1. cpc' = cpc /\ mapped' = mapped
    BY <1>4 DEF ReadReply, ReadFails, clientVars
  <2>2. ~ (pipe.toServer > 0) /\ (pipe.state # "open" \/ ~ waits)
    BY <1>1, <1>4, <2>1 DEF ReadReply, ReadFails
  <2>3. waits /\ pipe.state = "open"
    BY <1>0, <1>1, <2>1 DEF Connection, Linked
  <2>4. QED
    BY <2>2, <2>3
<1>5. CASE GameExits
  BY <1>5 DEF GameExits
<1>6. CASE \E d \in Clients : Connect(d)
  <2> SUFFICES ASSUME NEW d \in Clients, Connect(d) PROVE Goal
    BY <1>6
  <2>1. d # c
    BY <1>0 DEF TypeOK, Connect
  <2>2. cpc[c] = "turn" /\ mapped[c]
    BY <1>0, <2>1 DEF TypeOK, Connect
  <2>3. pipe.state = "open"
    BY <1>0, <2>2 DEF TurnExclusion, Linked
  <2>4. QED
    BY <2>3 DEF Connect
<1>7. CASE \E d \in Clients : ClientStep(d)
  <2> SUFFICES ASSUME NEW d \in Clients, ClientStep(d) PROVE Goal
    BY <1>7
  <2>1. CASE d = c
    <3>1. FirstTurn(c) \/ NextTurn(c)
      BY <1>0, <2>1 DEF TypeOK, ClientStep, EndTurn, LoseGame
    <3>2. Linked(c) /\ pipe.toClient > 0
      BY <3>1 DEF FirstTurn, NextTurn
    <3>3. /\ pipe'.state = pipe.state /\ pipe'.owner = pipe.owner /\ spc' = spc
          /\ pipe'.toClient = pipe.toClient - 1 /\ pipe'.toServer = pipe.toServer
      BY <1>0, <3>1 DEF TypeOK, Pipes, FirstTurn, NextTurn, serverVars
    <3>4. pipe.toServer \in 0 .. 1 /\ pipe.toClient \in 0 .. 1
      BY <1>0 DEF TypeOK, Pipes
    <3>5. spc = "waiting"
      BY <3>2, LinkedFacts
    <3>6. pipe'.toClient = 0 /\ pipe'.toServer = 0
      BY <1>0, <3>2, <3>3, <3>4 DEF OneToken
    <3>7. QED
      BY <3>2, <3>3, <3>5, <3>6 DEF Linked
  <2>2. CASE d # c
    <3>1. cpc[c] = "turn" /\ mapped[c]
      BY <1>0, <2>2 DEF TypeOK, ClientStep, FirstTurn, EndTurn, NextTurn, LoseGame
    <3>2. spc = "waiting" /\ Linked(c) /\ pipe.toServer = 0 /\ pipe.toClient = 0
      BY <1>0, <3>1 DEF TurnExclusion
    <3>3. ~ Linked(d)
      BY <2>2, <3>2 DEF Linked
    <3>4. pipe' = pipe /\ spc' = spc
      BY <3>3 DEF ClientStep, FirstTurn, EndTurn, NextTurn, LoseGame, serverVars
    <3>5. QED
      BY <3>2, <3>4 DEF Linked
  <2>3. QED
    BY <2>1, <2>2
<1>8. CASE (\E d \in Clients : IssueCommand(d)) \/ UNCHANGED vars
  <2>1. UNCHANGED <<cpc, mapped, spc, pipe>>
    BY <1>8 DEF IssueCommand, vars, serverVars, clientVars
  <2>2. QED
    BY <1>1, <2>1 DEF Linked
<1>9. CASE \E d \in Clients : ClientDies(d)
  <2> SUFFICES ASSUME NEW d \in Clients, ClientDies(d) PROVE Goal
    BY <1>9
  <2>1. d # c
    BY <1>0 DEF TypeOK, ClientDies
  <2>2. cpc[c] = "turn" /\ mapped[c]
    BY <1>0, <2>1 DEF TypeOK, ClientDies
  <2>3. spc = "waiting" /\ Linked(c) /\ pipe.toServer = 0 /\ pipe.toClient = 0
    BY <1>0, <2>2 DEF TurnExclusion
  <2>4. pipe' = pipe /\ spc' = spc
    BY <2>1, <2>3 DEF ClientDies, Linked, serverVars
  <2>5. QED
    BY <2>3, <2>4 DEF Linked
<1>10. QED
  BY StepCases, <1>2, <1>3, <1>4, <1>5, <1>6, <1>7, <1>8, <1>9

\* Only the client that has the turn writes commands.
LEMMA WriterHasTheTurn ==
  ASSUME IInv, NEW c \in Clients, IssueCommand(c)
  PROVE  spc = "waiting" /\ pipe.state = "open" /\ pipe.owner = c
BY DEF IInv, IssueCommand, TurnExclusion, Linked

\* What the memory holds when the game has it back.
LEMMA CommandsStep ==
  ASSUME IInv, [Next]_vars
  PROVE  CommandsAreFresh' /\ CommandsOfOwner'
<1>0. TypeOK /\ Connection /\ CommandsAreFresh /\ CommandsOfOwner
  BY DEF IInv
<1> DEFINE Goal == CommandsAreFresh' /\ CommandsOfOwner'
<1>1. ASSUME spc' = "game" PROVE Goal
  BY <1>1 DEF CommandsAreFresh, CommandsOfOwner
<1>2. ASSUME data' = data, spc' = spc, pipe'.owner = pipe.owner,
             pipe'.state = "disconnected" <=> pipe.state = "disconnected"
      PROVE  Goal
  BY <1>0, <1>2 DEF CommandsAreFresh, CommandsOfOwner
<1>3. CASE GameStep \/ UpdateAlone \/ ProcessCommands \/ GameExits
  <2>1. spc' = "game"
    BY <1>3, GameStepFrame DEF UpdateAlone, ProcessCommands, GameExits
  <2>2. QED
    BY <1>1, <2>1
<1>4. CASE UpdateClient
  <2>1. data'.commands = << >> /\ spc' = "waiting"
    BY <1>4 DEF UpdateClient, Reset
  <2>2. QED
    BY <2>1 DEF CommandsAreFresh, CommandsOfOwner
<1>5. CASE ReadReply
  <2>1. pipe'.owner = pipe.owner /\ data' = data /\ spc = "waiting" /\ spc' = "commands"
    BY <1>0, <1>5 DEF TypeOK, Pipes, ReadReply
  <2>2. QED
    BY <1>0, <2>1 DEF CommandsAreFresh, CommandsOfOwner
<1>6. CASE ReadFails
  <2>1. /\ pipe'.state = "disconnected" /\ data' = data
        /\ spc = "waiting" /\ spc' = "commands"
    BY <1>6 DEF ReadFails, Pipe
  <2>2. QED
    BY <1>0, <2>1 DEF CommandsAreFresh, CommandsOfOwner
<1>7. CASE \E c \in Clients : Connect(c)
  <2>1. spc = "game" /\ spc' = "game"
    BY <1>0, <1>7 DEF TypeOK, Connection, Connect, serverVars
  <2>2. QED
    BY <1>1, <2>1
<1>8. CASE \E c \in Clients : ClientStep(c) \/ ClientDies(c)
  <2>1. data' = data /\ spc' = spc
    BY <1>8 DEF ClientStep, FirstTurn, EndTurn, NextTurn, LoseGame, ClientDies, serverVars
  <2>2. /\ pipe'.owner = pipe.owner
        /\ pipe'.state = "disconnected" <=> pipe.state = "disconnected"
    BY <1>0, <1>8 DEF TypeOK, Pipes, Linked, ClientStep, FirstTurn, EndTurn, NextTurn,
       LoseGame, ClientDies
  <2>3. QED
    BY <1>2, <2>1, <2>2
<1>9. CASE \E c \in Clients : IssueCommand(c)
  <2> SUFFICES ASSUME NEW c \in Clients, IssueCommand(c) PROVE Goal
    BY <1>9
  <2>1. spc = "waiting" /\ pipe.owner = c /\ spc' = "waiting" /\ pipe' = pipe
    BY WriterHasTheTurn DEF IssueCommand, serverVars
  <2>2. data'.commands = Append(data.commands, [from |-> c, done |-> FALSE])
    BY <1>0 DEF TypeOK, Memories, IssueCommand
  <2>3. data.commands \in Seq(Commands)
    BY <1>0 DEF TypeOK, Memories
  <2>4. ASSUME NEW i \in 1 .. Len(data'.commands)
        PROVE  ~ data'.commands[i].done /\ data'.commands[i].from = c
    <3>1. CASE i = Len(data.commands) + 1
      BY <2>2, <2>3, <3>1
    <3>2. CASE i \in 1 .. Len(data.commands)
      BY <1>0, <2>1, <2>2, <2>3, <3>2 DEF CommandsOfOwner
    <3>3. QED
      BY <2>2, <2>3, <3>1, <3>2
  <2>5. QED
    BY <2>1, <2>4 DEF CommandsAreFresh, CommandsOfOwner
<1>10. CASE UNCHANGED vars
  BY <1>2, <1>10 DEF vars, serverVars
<1>11. QED
  BY StepCases, <1>3, <1>4, <1>5, <1>6, <1>7, <1>8, <1>9, <1>10

\* Who plays the match.
LEMMA PlayerStep ==
  ASSUME IInv, [Next]_vars
  PROVE  PlanPending' /\ LibraryStarted' /\ OnePlayer'
<1>0. TypeOK /\ PlanPending /\ LibraryStarted /\ OnePlayer
  BY DEF IInv
<1>1. CASE GameStep
  <2>1. PlanPending'
    BY <1>1, GameStepFrame DEF PlanPending
  <2>2. LibraryStarted' /\ OnePlayer'
    BY <1>0, <1>1 DEF GameStep, MenuFrame, MatchStart, MatchFrame, MatchEnd, LeaveGame,
       LibraryStarted, OnePlayer, serverVars
  <2>3. QED
    BY <2>1, <2>2
<1>2. CASE UpdateAlone
  BY <1>0, <1>2 DEF UpdateAlone, CheckForConnections, Accepting, PlanPending,
     LibraryStarted, OnePlayer
<1>3. CASE UpdateClient \/ ReadReply \/ ProcessCommands
  BY <1>0, <1>3 DEF UpdateClient, ReadReply, ProcessCommands, gameVars, PlanPending,
     LibraryStarted, OnePlayer
<1>4. CASE ReadFails
  BY <1>0, <1>4 DEF ReadFails, Dropped, gameVars, PlanPending, LibraryStarted, OnePlayer
<1>5. CASE GameExits
  BY <1>5 DEF GameExits, PlanPending, LibraryStarted, OnePlayer
<1>6. CASE \/ \E c \in Clients : Connect(c)
           \/ \E c \in Clients : ClientStep(c)
           \/ \E c \in Clients : IssueCommand(c)
           \/ \E c \in Clients : ClientDies(c)
           \/ UNCHANGED vars
  <2>1. UNCHANGED <<started, module, plan, spc, connected>>
    BY <1>6 DEF Connect, ClientStep, FirstTurn, EndTurn, NextTurn, LoseGame, IssueCommand,
       ClientDies, vars, gameVars, serverVars
  <2>2. QED
    BY <1>0, <2>1 DEF PlanPending, LibraryStarted, OnePlayer
<1>7. QED
  BY StepCases, <1>1, <1>2, <1>3, <1>4, <1>5, <1>6

-----------------------------------------------------------------------------
(* The invariant, and what follows from it.                                *)

\* IInv holds in every reachable state.
THEOREM Invariance == Spec => []IInv
<1>1. IInv /\ [Next]_vars => IInv'
  BY TypeStep, ConnectionStep, TokenStep, ExclusionStep, CommandsStep, PlayerStep DEF IInv
<1>2. QED
  BY InitIInv, <1>1, PTL DEF Spec

\* Every variable keeps its type; at most one code is unread in each
\* direction of the pipe.
THEOREM TypeCorrect == Spec => []TypeOK
<1>1. IInv => TypeOK
  BY DEF IInv
<1>2. QED
  BY Invariance, <1>1, PTL

\* While a client has the turn, the game is blocked and the pipe is empty:
\* game and client never use the shared memory at the same time.
THEOREM MemoryHasOneUser == Spec => []TurnExclusion
<1>1. IInv => TurnExclusion
  BY DEF IInv
<1>2. QED
  BY Invariance, <1>1, PTL

\* The commands the game carries out are those of the turn that just ended.
THEOREM CommandsOnce == Spec => []CommandsAreFresh
<1>1. IInv => CommandsAreFresh
  BY DEF IInv
<1>2. QED
  BY Invariance, <1>1, PTL

\* A match that the AI library plays is never also played by a client.
THEOREM MatchHasOnePlayer == Spec => []OnePlayer
<1>1. IInv => OnePlayer
  BY DEF IInv
<1>2. QED
  BY Invariance, <1>1, PTL

-----------------------------------------------------------------------------
(* Every step is a step of TurnTaking, or changes nothing there.           *)

\* The orders of a turn, one for each command.
LEMMA WritersOf ==
  ASSUME NEW cmds \in Seq(Commands), NEW c \in Clients, NEW done \in BOOLEAN
  PROVE  /\ Writers(cmds) \in Seq(Clients)
         /\ Len(Writers(cmds)) = Len(cmds)
         /\ Writers(Append(cmds, [from |-> c, done |-> done])) = Append(Writers(cmds), c)
<1>0. Len(cmds) \in Nat /\ \A i \in 1 .. Len(cmds) : cmds[i] \in Commands
  OBVIOUS
<1>1. Len(cmds) \in Nat /\ \A i \in 1 .. Len(cmds) : cmds[i].from \in Clients
  BY <1>0 DEF Commands
<1>2. Writers(cmds) \in [1 .. Len(cmds) -> Clients]
  BY <1>1 DEF Writers
<1>3. Writers(cmds) \in Seq(Clients) /\ Len(Writers(cmds)) = Len(cmds)
  BY <1>1, <1>2
<1> DEFINE r    == [from |-> c, done |-> done]
           more == Append(cmds, r)
<1>4. r \in Commands
  BY DEF Commands
<1> HIDE DEF r
<1>5. /\ more \in Seq(Commands) /\ Len(more) = Len(cmds) + 1 /\ more[Len(cmds) + 1] = r
      /\ \A i \in 1 .. Len(cmds) : more[i] = cmds[i]
  BY <1>4, AppendProperties
<1>6. /\ Append(Writers(cmds), c) \in Seq(Clients)
      /\ Len(Append(Writers(cmds), c)) = Len(cmds) + 1
      /\ Append(Writers(cmds), c)[Len(cmds) + 1] = c
      /\ \A i \in 1 .. Len(cmds) : Append(Writers(cmds), c)[i] = cmds[i].from
  <2>1. \A i \in 1 .. Len(cmds) : Writers(cmds)[i] = cmds[i].from
    BY DEF Writers
  <2> DEFINE w == Writers(cmds)
  <2>2. w \in Seq(Clients) /\ Len(w) = Len(cmds) /\ c \in Clients
    BY <1>3
  <2>3. \A i \in 1 .. Len(cmds) : w[i] = cmds[i].from
    BY <2>1
  <2> HIDE DEF w
  <2>4. /\ Append(w, c) \in Seq(Clients) /\ Len(Append(w, c)) = Len(w) + 1
        /\ Append(w, c)[Len(w) + 1] = c /\ \A i \in 1 .. Len(w) : Append(w, c)[i] = w[i]
    BY <2>2, AppendProperties
  <2>5. /\ Append(w, c) \in Seq(Clients) /\ Len(Append(w, c)) = Len(cmds) + 1
        /\ Append(w, c)[Len(cmds) + 1] = c
        /\ \A i \in 1 .. Len(cmds) : Append(w, c)[i] = cmds[i].from
    BY <2>2, <2>3, <2>4
  <2>6. QED
    BY <2>5 DEF w
<1>7. \A i \in 1 .. Len(cmds) + 1 : more[i].from = Append(Writers(cmds), c)[i]
  <2> SUFFICES ASSUME NEW i \in 1 .. Len(cmds) + 1
               PROVE  more[i].from = Append(Writers(cmds), c)[i]
    OBVIOUS
  <2>1. CASE i = Len(cmds) + 1
    BY <1>5, <1>6, <2>1 DEF r
  <2>2. CASE i \in 1 .. Len(cmds)
    BY <1>5, <1>6, <2>2
  <2>3. i = Len(cmds) + 1 \/ i \in 1 .. Len(cmds)
    BY <1>1
  <2>4. QED
    BY <2>1, <2>2, <2>3
<1>8. /\ Writers(more) \in Seq(Clients) /\ Len(Writers(more)) = Len(cmds) + 1
      /\ \A i \in 1 .. Len(cmds) + 1 : Writers(more)[i] = Append(Writers(cmds), c)[i]
  <2> HIDE DEF more
  <2>1. \A i \in 1 .. Len(cmds) + 1 : Append(Writers(cmds), c)[i] \in Clients
    BY <1>1, <1>6
  <2>2. Writers(more) = [i \in 1 .. Len(cmds) + 1 |-> more[i].from]
    BY <1>5 DEF Writers
  <2>3. Writers(more) \in [1 .. Len(cmds) + 1 -> Clients]
    BY <1>7, <2>1, <2>2
  <2> DEFINE n == Len(cmds) + 1
             v == Writers(more)
  <2>4. n \in Nat /\ v \in [1 .. n -> Clients]
    BY <1>1, <2>3
  <2>5. \A i \in 1 .. n : v[i] = Append(Writers(cmds), c)[i]
    BY <1>7, <2>2
  <2> HIDE DEF n, v
  <2>6. v \in Seq(Clients) /\ Len(v) = n
    BY <2>4
  <2>7. QED
    BY <2>5, <2>6 DEF n, v
<1>9. Writers(more) = Append(Writers(cmds), c)
  BY <1>6, <1>8, SeqEqual
<1>10. QED
  BY <1>3, <1>9 DEF r

LEMMA InitRefines == Init => Turns!Init
BY DEF Init, Turns!Init, Holder, Orders

LEMMA StepRefines ==
  ASSUME IInv, [Next]_vars
  PROVE  [Turns!Next]_<<Holder, Orders>>
<1>0. TypeOK /\ Connection
  BY DEF IInv
<1> DEFINE Same == Holder' = Holder /\ Orders' = Orders
<1>1. ASSUME spc' = spc, data' = data, spc = "waiting" => pipe'.owner = pipe.owner
      PROVE  Same
  BY <1>1 DEF Holder, Orders
<1>2. CASE GameStep \/ UNCHANGED vars
  BY <1>1, <1>2, GameStepFrame DEF vars, serverVars
<1>3. CASE UpdateAlone
  <2>1. spc = "game" /\ spc' = "game"
    BY <1>3 DEF UpdateAlone
  <2>2. QED
    BY <2>1 DEF Holder, Orders
<1>4. CASE UpdateClient
  <2>1. spc = "game" /\ spc' = "waiting" /\ data'.commands = << >>
    BY <1>4 DEF UpdateClient, Reset
  <2>2. pipe'.owner = pipe.owner /\ pipe.owner \in Clients
    BY <1>0, <1>4 DEF TypeOK, Pipes, Connection, UpdateClient
  <2>3. Holder = Game /\ Orders = << >> /\ Holder' = pipe.owner
    BY <2>1, <2>2 DEF Holder, Orders
  <2>4. Orders' = << >>
    BY <2>1 DEF Orders, Writers
  <2>5. Turns!HandOver(pipe.owner)
    BY <2>3, <2>4 DEF Turns!HandOver
  <2>6. QED
    BY <2>2, <2>5 DEF Turns!Next
<1>5. CASE ReadReply \/ ReadFails
  <2>1. spc = "waiting" /\ spc' = "commands" /\ data' = data
    BY <1>5 DEF ReadReply, ReadFails
  <2>2. pipe.owner \in Clients
    BY <1>0, <2>1 DEF Connection
  <2>3. Holder \in Clients /\ Holder' = Game /\ Orders' = Orders
    BY <2>1, <2>2 DEF Holder, Orders
  <2>4. Turns!GiveBack
    BY <2>3 DEF Turns!GiveBack
  <2>5. QED
    BY <2>4 DEF Turns!Next
<1>6. CASE ProcessCommands
  <2>1. spc = "commands" /\ spc' = "game"
    BY <1>6 DEF ProcessCommands
  <2>2. Holder = Game /\ Holder' = Game /\ Orders' = << >>
    BY <2>1 DEF Holder, Orders
  <2>3. CASE Orders = << >>
    BY <2>2, <2>3
  <2>4. CASE Orders # << >>
    BY <2>2, <2>4 DEF Turns!CarryOut, Turns!Next
  <2>5. QED
    BY <2>3, <2>4
<1>7. CASE GameExits
  <2>1. spc' = "game"
    BY <1>7 DEF GameExits
  <2>2. QED
    BY <2>1 DEF Holder, Orders, Turns!Gone, Turns!Next
<1>8. CASE \E c \in Clients : Connect(c) \/ ClientStep(c) \/ ClientDies(c)
  <2>1. data' = data /\ spc' = spc
    BY <1>8 DEF Connect, ClientStep, FirstTurn, EndTurn, NextTurn, LoseGame, ClientDies,
       serverVars
  <2>2. spc = "waiting" => pipe'.owner = pipe.owner
    BY <1>0, <1>8 DEF TypeOK, Pipes, Connection, Connect, ClientStep, FirstTurn, EndTurn,
       NextTurn, LoseGame, ClientDies
  <2>3. QED
    BY <1>1, <2>1, <2>2
<1>9. CASE \E c \in Clients : IssueCommand(c)
  <2> SUFFICES ASSUME NEW c \in Clients, IssueCommand(c)
               PROVE  Turns!Order(c)
    BY <1>9 DEF Turns!Next
  <2>1. spc = "waiting" /\ pipe.owner = c /\ spc' = "waiting" /\ pipe' = pipe
    BY WriterHasTheTurn DEF IssueCommand, serverVars
  <2>2. /\ data.commands \in Seq(Commands)
        /\ Len(data.commands) < MaxCommands
        /\ data'.commands = Append(data.commands, [from |-> c, done |-> FALSE])
    BY <1>0 DEF TypeOK, Memories, IssueCommand
  <2>3. Orders = Writers(data.commands) /\ Orders' = Writers(data'.commands)
    BY <2>1 DEF Orders
  <2>4. Len(Orders) < MaxCommands /\ Orders' = Append(Orders, c)
    BY <2>2, <2>3, WritersOf
  <2>5. Holder = c /\ Holder' = c
    BY <2>1 DEF Holder
  <2>6. QED
    BY <2>4, <2>5 DEF Turns!Order
<1>10. QED
  BY StepCases, <1>2, <1>3, <1>4, <1>5, <1>6, <1>7, <1>8, <1>9

\* The pipe protocol implements the taking of turns, for any number of
\* clients that connect, die and reconnect, and whatever the game does.
THEOREM Refinement == Spec => ImplementsTurnTaking
<1>1. IInv /\ [Next]_vars => [Turns!Next]_<<Holder, Orders>>
  BY StepRefines
<1>2. QED
  BY InitRefines, Invariance, <1>1, PTL DEF Spec, ImplementsTurnTaking, Turns!Spec

-----------------------------------------------------------------------------
(* The client's copy of the match.  MInv is inductive relative to IInv.    *)

\* The updates that the game is about to make at each stage.
PlanOfStage ==
  \/ plan = << >>
  \/ plan = <<MenuUpdate>> /\ stage \in {"menu", "over"}
  \/ plan \in {<<StartUpdate>>, <<FrameUpdate>>} /\ stage = "match"
  \/ plan = EndUpdates /\ stage = "over"

\* While an update is carried out the memory says what it is about.
UpdateIsPublished == spc # "game" => data.inGame = Head(plan).inGame

\* A client that has had a turn, and whose end of the pipe is open, is served.
Playing(c) == pipe.state = "open" /\ pipe.owner = c /\ cpc[c] \in {"turn", "update"}
PlayersAreServed == \A c \in Clients : Playing(c) => connected

\* Between two updates of a match the last one was of the match, too.
WithinMatch ==
  plan \in {<<FrameUpdate>>, EndUpdates} \/ (plan = << >> /\ stage = "match")
MatchIsPublished ==
  \A c \in Clients : spc = "game" /\ WithinMatch /\ Playing(c) => data.inGame

\* A client that has only connected has no copy of the match.
NewcomersHaveNone == \A c \in Clients : cpc[c] = "connecting" => ~ cInGame[c]

Agrees(c) == cInGame[c] = data.inGame \/ missed[c]

\* A client between two turns agrees with what it was last told; when the next
\* update is already there, and is not the start, it has a copy.
ClientsAgree ==
  \A c \in Clients : Playing(c) =>
    IF cpc[c] = "update" /\ spc = "waiting" /\ pipe.toClient > 0
    THEN data.inGame /\ ~ data.start => cInGame[c] \/ missed[c]
    ELSE Agrees(c)

MInv ==
  /\ PlanOfStage /\ UpdateIsPublished /\ PlayersAreServed
  /\ MatchIsPublished /\ NewcomersHaveNone /\ ClientsAgree

\* The updates of the plans, and what is left when the first has been made.
LEMMA PlansAre ==
  /\ \A u \in {MenuUpdate, StartUpdate, FrameUpdate} :
       <<u>> # << >> /\ <<u>> # EndUpdates /\ Head(<<u>>) = u /\ Tail(<<u>>) = << >>
  /\ EndUpdates # << >> /\ Head(EndUpdates) = FrameUpdate /\ Tail(EndUpdates) = <<MenuUpdate>>
  /\ <<MenuUpdate>> \notin {<<StartUpdate>>, <<FrameUpdate>>}
  /\ <<StartUpdate>> # <<FrameUpdate>>
<1>1. MenuUpdate # StartUpdate /\ MenuUpdate # FrameUpdate /\ StartUpdate # FrameUpdate
  BY DEF MenuUpdate, StartUpdate, FrameUpdate
<1>2. ASSUME NEW u PROVE <<u>> # << >> /\ <<u>> # EndUpdates /\ Head(<<u>>) = u /\ Tail(<<u>>) = << >>
  <2>1. Len(<<u>>) = 1 /\ Len(EndUpdates) = 2 /\ Len(<< >>) = 0
    BY DEF EndUpdates
  <2>2. QED
    BY <2>1
<1>3. ASSUME NEW u, NEW v, <<u>> = <<v>> PROVE u = v
  BY <1>3
<1>4. EndUpdates # << >> /\ Head(EndUpdates) = FrameUpdate /\ Tail(EndUpdates) = <<MenuUpdate>>
  BY DEF EndUpdates
<1>5. QED
  BY <1>1, <1>2, <1>3, <1>4

LEMMA InitMInv == Init => MInv
<1> SUFFICES ASSUME Init PROVE MInv
  OBVIOUS
<1>1. pipe.state = "listening"
  BY DEF Init, FreshPipe, Pipe
<1>2. \A c \in Clients : ~ Playing(c)
  BY <1>1 DEF Playing
<1>3. QED
  BY <1>2 DEF Init, MInv, PlanOfStage, UpdateIsPublished, PlayersAreServed, MatchIsPublished,
     NewcomersHaveNone, ClientsAgree

\* How plans change.
LEMMA PlanStep ==
  ASSUME IInv, MInv, [Next]_vars
  PROVE  PlanOfStage'
<1>0. PlanOfStage /\ PlanPending
  BY DEF MInv, IInv
<1>1. CASE GameStep
  BY <1>0, <1>1 DEF GameStep, MenuFrame, MatchStart, MatchFrame, MatchEnd, LeaveGame, Idle,
     PlanOfStage
<1>2. CASE UpdateAlone \/ ProcessCommands
  <2>1. plan' = Tail(plan) /\ stage' = stage
    BY <1>2 DEF UpdateAlone, ProcessCommands
  <2>2. plan # << >>
    BY <1>0, <1>2 DEF UpdateAlone, ProcessCommands, PlanPending
  <2>3. QED
    BY <1>0, <2>1, <2>2, PlansAre DEF PlanOfStage
<1>3. CASE GameExits
  BY <1>3 DEF GameExits, PlanOfStage
<1>4. CASE \/ UpdateClient \/ ReadReply \/ ReadFails
           \/ \E c \in Clients : Connect(c)
           \/ \E c \in Clients : ClientStep(c)
           \/ \E c \in Clients : IssueCommand(c)
           \/ \E c \in Clients : ClientDies(c)
           \/ UNCHANGED vars
  <2>1. plan' = plan /\ stage' = stage
    BY <1>4 DEF UpdateClient, ReadReply, ReadFails, Connect, ClientStep, FirstTurn, EndTurn,
       NextTurn, LoseGame, IssueCommand, ClientDies, vars, gameVars
  <2>2. QED
    BY <1>0, <2>1 DEF PlanOfStage
<1>5. QED
  BY StepCases, <1>1, <1>2, <1>3, <1>4

\* What the memory says while an update is carried out.
LEMMA PublishedStep ==
  ASSUME IInv, MInv, [Next]_vars
  PROVE  UpdateIsPublished'
<1>0. UpdateIsPublished /\ TypeOK
  BY DEF MInv, IInv
<1>1. CASE GameStep \/ UpdateAlone \/ ProcessCommands \/ GameExits
  <2>1. spc' = "game"
    BY <1>1, GameStepFrame DEF UpdateAlone, ProcessCommands, GameExits
  <2>2. QED
    BY <2>1 DEF UpdateIsPublished
<1>2. CASE UpdateClient
  <2>1. data'.inGame = Head(plan).inGame /\ plan' = plan
    BY <1>2 DEF UpdateClient, gameVars
  <2>2. QED
    BY <2>1 DEF UpdateIsPublished
<1>3. CASE \/ ReadReply \/ ReadFails
           \/ \E c \in Clients : Connect(c)
           \/ \E c \in Clients : ClientStep(c)
           \/ \E c \in Clients : IssueCommand(c)
           \/ \E c \in Clients : ClientDies(c)
           \/ UNCHANGED vars
  <2>1. plan' = plan /\ (spc' # "game" => spc # "game")
    BY <1>3 DEF ReadReply, ReadFails, Connect, ClientStep, FirstTurn, EndTurn,
       NextTurn, LoseGame, IssueCommand, ClientDies, vars, gameVars, serverVars
  <2>2. data'.inGame = data.inGame
    BY <1>0, <1>3 DEF TypeOK, Memories, ReadReply, ReadFails, Connect, ClientStep, FirstTurn,
       EndTurn, NextTurn, LoseGame, IssueCommand, ClientDies, vars
  <2>3. QED
    BY <1>0, <2>1, <2>2 DEF UpdateIsPublished
<1>4. QED
  BY StepCases, <1>1, <1>2, <1>3

\* Who plays after a step: who played before it, or a client in its first turn.
LEMMA PlayersAre ==
  ASSUME IInv, MInv, [Next]_vars, NEW c \in Clients, Playing(c)'
  PROVE  \/ (Playing(c) /\ ~ GameExits /\ ~ ReadFails)
         \/ (FirstTurn(c) /\ Linked(c))
<1>0. TypeOK
  BY DEF IInv
<1>1. ~ GameExits /\ ~ ReadFails
  BY DEF GameExits, ReadFails, FreshPipe, Pipe, Playing
<1>2. ASSUME pipe'.state = "open" => pipe.state = "open" /\ pipe'.owner = pipe.owner,
             cpc' = cpc
      PROVE  Playing(c)
  BY <1>2 DEF Playing
<1>3. CASE GameStep \/ UNCHANGED vars \/ \E d \in Clients : IssueCommand(d)
  BY <1>1, <1>2, <1>3, GameStepFrame DEF vars, clientVars, IssueCommand
<1>4. CASE UpdateAlone
  BY <1>1, <1>2, <1>4 DEF UpdateAlone, CheckForConnections, FreshPipe, Pipe, clientVars
<1>5. CASE UpdateClient \/ ReadReply
  BY <1>1, <1>0, <1>2, <1>5 DEF TypeOK, Pipes, UpdateClient, ReadReply, clientVars
<1>6. CASE ProcessCommands
  BY <1>1, <1>2, <1>6 DEF ProcessCommands, clientVars
<1>7. ASSUME NEW d \in Clients, Connect(d) PROVE FALSE
  <2>1. pipe'.owner = d /\ cpc'[d] \in {"connecting", "refused"}
    BY <1>0, <1>7 DEF TypeOK, Connect, Pipe
  <2>2. QED
    BY <2>1 DEF Playing
<1>8. ASSUME NEW d \in Clients, ClientStep(d) PROVE Playing(c) \/ (FirstTurn(c) /\ Linked(c))
  <2>1. pipe'.state = pipe.state /\ pipe'.owner = pipe.owner
    BY <1>0, <1>8 DEF TypeOK, Pipes, ClientStep, FirstTurn, EndTurn, NextTurn, LoseGame
  <2>2. CASE c # d
    BY <1>0, <1>8, <2>1, <2>2 DEF TypeOK, Playing, ClientStep, FirstTurn, EndTurn, NextTurn,
       LoseGame
  <2>3. CASE c = d
    BY <1>0, <1>8, <2>1, <2>3 DEF TypeOK, Playing, Linked, ClientStep, FirstTurn, EndTurn,
       NextTurn, LoseGame
  <2>4. QED
    BY <2>2, <2>3
<1>9. ASSUME NEW d \in Clients, ClientDies(d) PROVE Playing(c)
  BY <1>0, <1>9 DEF TypeOK, Pipes, Playing, ClientDies, Linked
<1>10. QED
  BY StepCases, <1>1, <1>3, <1>4, <1>5, <1>6, <1>7, <1>8, <1>9

LEMMA ServedStep ==
  ASSUME IInv, MInv, [Next]_vars
  PROVE  PlayersAreServed'
<1> SUFFICES ASSUME NEW c \in Clients, Playing(c)' PROVE connected'
  BY DEF PlayersAreServed
<1>1. CASE Playing(c) /\ ~ GameExits /\ ~ ReadFails
  <2>1. connected
    BY <1>1 DEF MInv, PlayersAreServed
  <2>2. connected' = connected
    BY <1>1, <2>1, StepCases, GameStepFrame DEF UpdateAlone, UpdateClient, ReadReply,
       ProcessCommands, Connect, ClientStep, FirstTurn, EndTurn, NextTurn, LoseGame,
       IssueCommand, ClientDies, vars, serverVars
  <2>3. QED
    BY <2>1, <2>2
<1>2. CASE FirstTurn(c) /\ Linked(c)
  <2>1. connected
    BY <1>2, LinkedFacts DEF FirstTurn, IInv, Connection
  <2>2. QED
    BY <1>2, <2>1 DEF FirstTurn, serverVars
<1>3. QED
  BY <1>1, <1>2, PlayersAre

\* A match goes on from one update to the next.
LEMMA MatchStep ==
  ASSUME IInv, MInv, [Next]_vars
  PROVE  MatchIsPublished'
<1> SUFFICES ASSUME NEW c \in Clients, spc' = "game", WithinMatch', Playing(c)'
             PROVE  data'.inGame
  BY DEF MatchIsPublished
<1>0. TypeOK /\ PlanOfStage /\ UpdateIsPublished /\ MatchIsPublished /\ PlanPending
  BY DEF IInv, MInv
<1>1. Playing(c) /\ ~ GameExits /\ ~ ReadFails
  <2>1. FirstTurn(c) /\ Linked(c) => spc' = "waiting"
    BY LinkedFacts DEF FirstTurn, serverVars
  <2>2. QED
    BY <2>1, PlayersAre
<1>2. connected
  BY <1>1 DEF MInv, PlayersAreServed
<1>3. CASE GameStep
  <2>1. spc = "game" /\ data' = data
    BY <1>3, GameStepFrame
  <2>2. WithinMatch
    BY <1>3, PlansAre DEF GameStep, MenuFrame, MatchStart, MatchFrame, MatchEnd, LeaveGame,
       Idle, WithinMatch
  <2>3. QED
    BY <1>0, <1>1, <2>1, <2>2 DEF MatchIsPublished
<1>4. CASE ProcessCommands
  <2>1. spc # "game" /\ plan # << >> /\ plan' = Tail(plan) /\ stage' = stage
    BY <1>0, <1>4 DEF ProcessCommands, PlanPending
  <2>2. data'.inGame = Head(plan).inGame
    BY <1>0, <1>4, <2>1 DEF TypeOK, Memories, UpdateIsPublished, ProcessCommands
  <2>3. plan # <<MenuUpdate>>
    <3>1. ASSUME plan = <<MenuUpdate>> PROVE FALSE
      BY <1>0, <2>1, <3>1, PlansAre DEF PlanOfStage, WithinMatch
    <3>2. QED
      BY <3>1
  <2>4. Head(plan) \in {StartUpdate, FrameUpdate}
    BY <1>0, <2>1, <2>3, PlansAre DEF PlanOfStage
  <2>5. QED
    BY <2>2, <2>4 DEF StartUpdate, FrameUpdate
<1>5. CASE UpdateAlone \/ UpdateClient \/ ReadReply
  BY <1>2, <1>5 DEF UpdateAlone, UpdateClient, ReadReply
<1>6. CASE \/ \E d \in Clients : Connect(d)
           \/ \E d \in Clients : ClientStep(d)
           \/ \E d \in Clients : IssueCommand(d)
           \/ \E d \in Clients : ClientDies(d)
           \/ UNCHANGED vars
  <2>1. UNCHANGED <<spc, plan, stage>>
    BY <1>6 DEF Connect, ClientStep, FirstTurn, EndTurn,
       NextTurn, LoseGame, IssueCommand, ClientDies, vars, gameVars, serverVars
  <2>2. data'.inGame = data.inGame
    BY <1>0, <1>6 DEF TypeOK, Memories, Connect, ClientStep, FirstTurn,
       EndTurn, NextTurn, LoseGame, IssueCommand, ClientDies, vars
  <2>3. QED
    BY <1>0, <1>1, <2>1, <2>2 DEF MatchIsPublished, WithinMatch
<1>7. QED
  BY StepCases, <1>1, <1>3, <1>4, <1>5, <1>6

LEMMA NewcomersStep ==
  ASSUME IInv, MInv, [Next]_vars
  PROVE  NewcomersHaveNone'
<1>0. TypeOK /\ NewcomersHaveNone
  BY DEF IInv, MInv
<1> SUFFICES ASSUME NEW c \in Clients, cpc'[c] = "connecting" PROVE ~ cInGame'[c]
  BY DEF NewcomersHaveNone
<1>1. CASE \/ GameStep \/ UpdateAlone \/ UpdateClient \/ ReadReply \/ ReadFails
           \/ ProcessCommands \/ GameExits \/ UNCHANGED vars
           \/ \E d \in Clients : IssueCommand(d)
  <2>1. cpc' = cpc /\ cInGame' = cInGame
    BY <1>1, GameStepFrame DEF UpdateAlone, UpdateClient, ReadReply, ReadFails,
       ProcessCommands, GameExits, IssueCommand, vars, clientVars
  <2>2. QED
    BY <1>0, <2>1 DEF NewcomersHaveNone
<1>2. ASSUME NEW d \in Clients, Connect(d) PROVE ~ cInGame'[c]
  BY <1>0, <1>2 DEF TypeOK, NewcomersHaveNone, Connect
<1>3. ASSUME NEW d \in Clients, ClientStep(d) \/ ClientDies(d) PROVE ~ cInGame'[c]
  <2>1. cpc'[d] # "connecting"
    BY <1>0, <1>3 DEF TypeOK, ClientStep, FirstTurn, EndTurn, NextTurn, LoseGame, ClientDies
  <2>2. c # d /\ cpc'[c] = cpc[c] /\ cInGame'[c] = cInGame[c]
    BY <1>0, <1>3, <2>1 DEF TypeOK, ClientStep, FirstTurn, EndTurn, NextTurn, LoseGame,
       ClientDies
  <2>3. QED
    BY <1>0, <2>2 DEF NewcomersHaveNone
<1>4. QED
  BY StepCases, <1>1, <1>2, <1>3

\* What a client has at hand in its turn, and between turns.
LEMMA AgreementStep ==
  ASSUME IInv, MInv, [Next]_vars
  PROVE  ClientsAgree'
<1> DEFINE Announced(c) == cpc[c] = "update" /\ spc = "waiting" /\ pipe.toClient > 0
           Copied(c) == data.inGame /\ ~ data.start => cInGame[c] \/ missed[c]
<1> SUFFICES ASSUME NEW c \in Clients, Playing(c)'
             PROVE  IF Announced(c)' THEN Copied(c)' ELSE Agrees(c)'
  BY DEF ClientsAgree
<1>0. TypeOK /\ OneToken /\ TurnExclusion /\ PlanOfStage /\ MatchIsPublished
  BY DEF IInv, MInv
<1>1. /\ data.inGame \in BOOLEAN /\ cInGame[c] \in BOOLEAN /\ missed[c] \in BOOLEAN
      /\ pipe.toClient \in 0 .. 1 /\ pipe.toServer \in 0 .. 1
  BY <1>0 DEF TypeOK, Memories, Pipes
<1>2. CASE FirstTurn(c) /\ Linked(c)
  <2>1. ~ cInGame[c]
    BY <1>2 DEF MInv, NewcomersHaveNone, FirstTurn
  <2>2. data' = data /\ cInGame' = cInGame /\ missed'[c] = data.inGame /\ cpc'[c] = "turn"
    BY <1>0, <1>2 DEF TypeOK, FirstTurn
  <2>3. Agrees(c)'
    BY <1>1, <2>1, <2>2 DEF Agrees
  <2>4. QED
    BY <2>2, <2>3
<1>3. CASE Playing(c) /\ ~ GameExits /\ ~ ReadFails
  <2>0. /\ connected /\ Linked(c)
        /\ IF Announced(c) THEN Copied(c) ELSE Agrees(c)
    BY <1>3 DEF MInv, PlayersAreServed, ClientsAgree, Playing, Linked
  <2>1. cpc[c] = "turn" => spc = "waiting" /\ pipe.toClient = 0
    BY <2>0, LinkedFacts
  <2> HIDE DEF Announced, Copied
  <2>2. ASSUME UNCHANGED <<cpc[c], spc, pipe.toClient, data.inGame, data.start, cInGame[c], missed[c]>>
        PROVE  IF Announced(c)' THEN Copied(c)' ELSE Agrees(c)'
    BY <2>0, <2>2 DEF Announced, Copied, Agrees
  <2>3. ASSUME ~ Announced(c), ~ Announced(c)',
               UNCHANGED <<data.inGame, cInGame[c], missed[c]>>
        PROVE  IF Announced(c)' THEN Copied(c)' ELSE Agrees(c)'
    BY <2>0, <2>3 DEF Agrees
  <2>4. CASE GameStep \/ UNCHANGED vars
    BY <2>2, <2>4, GameStepFrame DEF vars, serverVars, clientVars
  <2>5. CASE UpdateClient
    <3>1. cpc' = cpc /\ cInGame' = cInGame /\ missed' = missed /\ spc = "game" /\ spc' = "waiting"
      BY <2>5 DEF UpdateClient, clientVars
    <3>2. pipe'.toClient = pipe.toClient + 1
      BY <1>0, <2>0, <2>5 DEF TypeOK, Pipes, UpdateClient, Linked
    <3>3. Agrees(c) /\ Announced(c)'
      BY <1>1, <1>3, <2>0, <2>1, <3>1, <3>2 DEF Announced, Playing
    <3>4. ASSUME data'.inGame, ~ data'.start PROVE cInGame[c] \/ missed[c]
      <4>1. Head(plan).inGame /\ ~ Head(plan).start /\ plan # << >>
        BY <2>5, <3>4 DEF UpdateClient
      <4>2. plan \in {<<FrameUpdate>>, EndUpdates}
        BY <1>0, <4>1, PlansAre DEF PlanOfStage, MenuUpdate, StartUpdate
      <4>3. data.inGame
        BY <1>0, <1>3, <3>1, <4>2 DEF MatchIsPublished, WithinMatch
      <4>4. QED
        BY <1>1, <3>3, <4>3 DEF Agrees
    <3>5. QED
      BY <3>1, <3>3, <3>4 DEF Copied
  <2>6. CASE ReadReply
    <3>1. data' = data /\ cInGame' = cInGame /\ missed' = missed /\ spc' = "commands"
      BY <2>6 DEF ReadReply, clientVars
    <3>2. pipe.toClient = 0
      BY <1>0, <1>1, <2>6 DEF ReadReply, OneToken
    <3>3. QED
      BY <2>3, <3>1, <3>2 DEF Announced
  <2>7. CASE ProcessCommands
    <3>1. /\ spc = "commands" /\ spc' = "game" /\ cInGame' = cInGame /\ missed' = missed
          /\ data'.inGame = data.inGame
      BY <1>0, <2>7 DEF TypeOK, Memories, ProcessCommands, clientVars
    <3>2. QED
      BY <2>3, <3>1 DEF Announced
  <2>8. CASE UpdateAlone \/ GameExits \/ ReadFails \/ \E d \in Clients : Connect(d)
    BY <1>3, <2>0, <2>8 DEF UpdateAlone, Connect, Linked
  <2>9. ASSUME NEW d \in Clients, IssueCommand(d)
        PROVE  IF Announced(c)' THEN Copied(c)' ELSE Agrees(c)'
    <3>1. data'.inGame = data.inGame /\ data'.start = data.start
      BY <1>0, <2>9 DEF TypeOK, Memories, IssueCommand
    <3>2. QED
      BY <2>2, <2>9, <3>1 DEF IssueCommand, serverVars, clientVars
  <2>10. ASSUME NEW d \in Clients, ClientStep(d) \/ ClientDies(d), d # c
         PROVE  IF Announced(c)' THEN Copied(c)' ELSE Agrees(c)'
    <3>1. ~ Linked(d)
      BY <2>0, <2>10 DEF Linked
    <3>2. UNCHANGED <<cpc[c], cInGame[c], missed[c], spc, pipe, data>>
      BY <1>0, <2>10, <3>1 DEF TypeOK, ClientStep, FirstTurn, EndTurn, NextTurn, LoseGame,
         ClientDies, serverVars
    <3>3. QED
      BY <2>2, <3>2
  <2>11. CASE EndTurn(c)
    <3>1. cpc[c] = "turn" /\ pipe.toClient = 0
      BY <2>1, <2>11 DEF EndTurn
    <3>2. data' = data /\ cInGame' = cInGame /\ missed' = missed
      BY <2>11 DEF EndTurn
    <3>3. pipe'.toClient = pipe.toClient
      BY <1>0, <2>11 DEF TypeOK, Pipes, EndTurn
    <3>4. QED
      BY <2>3, <3>1, <3>2, <3>3 DEF Announced
  <2>12. CASE NextTurn(c)
    <3>1. Copied(c)
      BY <2>0, <2>12, LinkedFacts DEF NextTurn, Announced
    <3>2. /\ data' = data /\ cInGame'[c] = InGameAfter(c)
          /\ missed'[c] = (missed[c] /\ data.inGame) /\ cpc'[c] = "turn"
      BY <1>0, <2>12 DEF TypeOK, NextTurn
    <3>3. Agrees(c)'
      BY <1>1, <3>1, <3>2 DEF Copied, Agrees, InGameAfter
    <3>4. QED
      BY <3>2, <3>3 DEF Announced
  <2>13. CASE FirstTurn(c) \/ LoseGame(c) \/ ClientDies(c)
    <3>1. FALSE
      BY <1>0, <1>3, <2>0, <2>13 DEF TypeOK, Playing, FirstTurn, LoseGame, ClientDies
    <3>2. QED
      BY <3>1
  <2>14. QED
    BY StepCases, <2>4, <2>5, <2>6, <2>7, <2>8, <2>9, <2>10, <2>11, <2>12, <2>13
       DEF ClientStep
<1>4. QED
  BY <1>2, <1>3, PlayersAre

\* However clients come and go and matches begin and end, a client at its turn
\* has prepared its copy of the match exactly while the game is in one, unless
\* the update that connected it started the match (GameImpl::update of the client).
THEOREM ClientKnowsTheMatch == Spec => []MatchStateAgrees
<1>1. IInv /\ MInv /\ [Next]_vars => MInv'
  BY PlanStep, PublishedStep, ServedStep, MatchStep, NewcomersStep, AgreementStep DEF MInv
<1>2. IInv /\ MInv => MatchStateAgrees
  BY DEF IInv, MInv, TurnExclusion, ClientsAgree, Playing, Linked, Agrees, MatchStateAgrees
<1>3. QED
  BY Invariance, InitMInv, <1>1, <1>2, PTL DEF Spec
=============================================================================
