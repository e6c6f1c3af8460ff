----------------------------- MODULE GameTable -----------------------------
(***************************************************************************)
(* The table by which clients find games: one block of shared memory with  *)
(* a row per game, written by every game and read by every client, without *)
(* any lock.  A game claims a row when it starts (Server::Server) and      *)
(* refreshes it on every update; nothing clears the row when it exits.  A  *)
(* client that wants to play reads the table, chooses a row and opens the  *)
(* pipe of the process named in it (Client::connect).                      *)
(*                                                                         *)
(* A game is its process id: one that starts again has the id of an        *)
(* earlier process.  Turns on the pipe are the subject of ClientServer.    *)
(***************************************************************************)
EXTENDS Naturals, FiniteSets

CONSTANTS
  Games,        \* process ids of games
  Clients,
  Rows,         \* 1 .. GameTable::MAX_GAME_INSTANCES
  Nobody,       \* serverProcessID 0
  Leaving,      \* the games that may exit
  Mortal        \* the clients that may die

ASSUME NobodyAssumption == Nobody \notin Games
ASSUME RowsAssumption == Rows \subseteq Nat /\ IsFiniteSet(Rows) /\ Rows # {}
ASSUME EndsAssumption == Leaving \subseteq Games /\ Mortal \subseteq Clients

VARIABLES
  rows,         \* gameTable->gameInstances
  gpc,          \* "off", "fresh", "search", "claim", "setup" or "up"
  index,        \* gameTableIndex of each game
  connected,    \* Server::connected of each game
  pipe,         \* the pipe of each game: the client that opened it, or "none",
                \* "listening", "closing" (opened, client gone), "disconnected"
  cpc,          \* "out", "chosen" or "linked"
  target,       \* serverProcID chosen by each client
  views,        \* the clients that have the table mapped
  raced,        \* history: two games were starting at the same time
  displaced     \* history: a row in use was taken over

gameVars   == <<gpc, index, connected>>
clientVars == <<cpc, target, views>>
vars == <<rows, gameVars, pipe, clientVars, raced, displaced>>

-----------------------------------------------------------------------------
(* lastKeepAliveTime is a tick count.  Only the order of the rows by it    *)
(* matters, so it is kept as a rank: 0 for never, then 1, 2, ... without   *)
(* gaps.  A row refreshed in the tick of the last refresh gets its rank.   *)

EmptyRow == [pid |-> Nobody, isConnected |-> FALSE, alive |-> 0]

Alive(table) == {table[i].alive : i \in DOMAIN table}

Ranked(table) ==
  [i \in DOMAIN table |->
     [table[i] EXCEPT !.alive = Cardinality(Alive(table) \cap (1 .. @))]]

\* The values GetTickCount() may have now.
Now == {a \in 1 .. Cardinality(Rows) + 1 : \A i \in Rows : rows[i].alive <= a}

Oldest(table, among) ==
  {i \in among : \A j \in among : \/ table[i].alive < table[j].alive
                                  \/ table[i].alive = table[j].alive /\ i <= j}

Starting(g) == gpc[g] \in {"fresh", "search", "claim"}

\* The mapping lasts as long as any process has it open.
TableExists == views # {} \/ \E g \in Games : gpc[g] # "off"

Init ==
  /\ rows = [i \in Rows |-> EmptyRow]
  /\ gpc = [g \in Games |-> "off"]
  /\ index = [g \in Games |-> 0]
  /\ connected = [g \in Games |-> FALSE]
  /\ pipe = [g \in Games |-> "none"]
  /\ cpc = [c \in Clients |-> "out"]
  /\ target = [c \in Clients |-> Nobody]
  /\ views = {}
  /\ raced = FALSE
  /\ displaced = FALSE

-----------------------------------------------------------------------------
(* A game.                                                                 *)

\* Mutant: every game that opens the table initialises it.
OpenTable_Always(g) ==
  /\ gpc[g] = "off"
  /\ gpc' = [gpc EXCEPT ![g] = "fresh"]
  /\ rows' = IF TableExists THEN rows ELSE [i \in Rows |-> EmptyRow]
  /\ raced' = (raced \/ \E h \in Games : Starting(h))
  /\ UNCHANGED <<index, connected, pipe, clientVars, displaced>>

\* CreateFileMapping: creates the table, or opens the one there is.
OpenTable(g) ==
  /\ gpc[g] = "off"
  /\ gpc' = [gpc EXCEPT ![g] = IF TableExists THEN "search" ELSE "fresh"]
  /\ rows' = IF TableExists THEN rows ELSE [i \in Rows |-> EmptyRow]
  /\ raced' = (raced \/ \E h \in Games : Starting(h))
  /\ UNCHANGED <<index, connected, pipe, clientVars, displaced>>

\* The creator fills in the empty rows; others may have opened it by then.
InitTable(g) ==
  /\ gpc[g] = "fresh"
  /\ rows' = [i \in Rows |-> EmptyRow]
  /\ gpc' = [gpc EXCEPT ![g] = "search"]
  /\ UNCHANGED <<index, connected, pipe, clientVars, raced, displaced>>

\* Mutant: a game does not look for a row with its own process id.
RowFor_Forgets(g) ==
  LET empty == {i \in Rows : rows[i].pid = Nobody}
  IN  IF empty # {} THEN CHOOSE i \in empty : \A j \in empty : i <= j
      ELSE CHOOSE i \in Oldest(rows, Rows) : TRUE

\* The row with this process id, else the first empty row, else the row
\* with the oldest keep alive time.
RowFor(g) ==
  LET mine  == {i \in Rows : rows[i].pid = g}
      empty == {i \in Rows : rows[i].pid = Nobody}
      first(S) == CHOOSE i \in S : \A j \in S : i <= j
  IN  CASE mine # {} -> first(mine)
        [] mine = {} /\ empty # {} -> first(empty)
        [] OTHER -> CHOOSE i \in Oldest(rows, Rows) : TRUE

FindRow(g) ==
  /\ gpc[g] = "search"
  /\ index' = [index EXCEPT ![g] = RowFor(g)]
  /\ displaced' = (displaced \/ rows[RowFor(g)].pid \notin {g, Nobody})
  /\ gpc' = [gpc EXCEPT ![g] = "claim"]
  /\ UNCHANGED <<rows, connected, pipe, clientVars, raced>>

ClaimRow(g) ==
  /\ gpc[g] = "claim"
  /\ \E t \in Now :
       rows' = Ranked([rows EXCEPT ![index[g]] =
                         [pid |-> g, isConnected |-> FALSE, alive |-> t]])
  /\ gpc' = [gpc EXCEPT ![g] = "setup"]
  /\ UNCHANGED <<index, connected, pipe, clientVars, raced, displaced>>

\* The shared memory and the pipe are made after the row is written.
CreatePipe(g) ==
  /\ gpc[g] = "setup"
  /\ pipe' = [pipe EXCEPT ![g] = "listening"]
  /\ gpc' = [gpc EXCEPT ![g] = "up"]
  /\ UNCHANGED <<rows, index, connected, clientVars, raced, displaced>>

\* The start of every update: the row is found by its index alone.
RefreshRow(g) ==
  \E t \in Now :
    rows' = Ranked([rows EXCEPT ![index[g]].isConnected = connected[g],
                                ![index[g]].alive = t])

\* An update with a client: the turn fails if the client is no more.
UpdateServing(g) ==
  /\ gpc[g] = "up" /\ connected[g]
  /\ RefreshRow(g)
  /\ connected' = [connected EXCEPT ![g] = pipe[g] \in Clients]
  /\ pipe' = [pipe EXCEPT ![g] = IF @ \in Clients THEN @ ELSE "disconnected"]
  /\ UNCHANGED <<gpc, index, clientVars, raced, displaced>>

\* Mutant: a pipe that was disconnected is not listened on again.
Polled_Deaf(p) == p

\* What ConnectNamedPipe finds, or makes of it, in the mode without waiting.
\* A client that opened the pipe and is gone leaves it closing for good.
Polled(p) == IF p = "disconnected" THEN "listening" ELSE p

\* An update between matches: checkForConnections.
UpdateMenu(g) ==
  /\ gpc[g] = "up" /\ ~connected[g]
  /\ RefreshRow(g)
  /\ connected' = [connected EXCEPT ![g] = pipe[g] \in Clients]
  /\ pipe' = [pipe EXCEPT ![g] = Polled(@)]
  /\ UNCHANGED <<gpc, index, clientVars, raced, displaced>>

\* An update of a match that the AI library plays.
UpdateMatch(g) ==
  /\ gpc[g] = "up" /\ ~connected[g]
  /\ RefreshRow(g)
  /\ UNCHANGED <<gameVars, pipe, clientVars, raced, displaced>>

\* The row stays as it is.
Exit(g) ==
  /\ g \in Leaving /\ gpc[g] # "off"
  /\ gpc' = [gpc EXCEPT ![g] = "off"]
  /\ index' = [index EXCEPT ![g] = 0]
  /\ connected' = [connected EXCEPT ![g] = FALSE]
  /\ pipe' = [pipe EXCEPT ![g] = "none"]
  /\ UNCHANGED <<rows, clientVars, raced, displaced>>

-----------------------------------------------------------------------------
(* A client.                                                               *)

\* The rows a client may play on.
Free == {i \in Rows : rows[i].pid # Nobody /\ ~rows[i].isConnected}

ChosenRows == Oldest(rows, Free)

\* Map the table, and keep it mapped: connect() never unmaps its view.
ScanTable(c) ==
  /\ cpc[c] = "out" /\ TableExists
  /\ views' = views \cup {c}
  /\ IF Free = {} THEN UNCHANGED <<cpc, target>>
     ELSE \E i \in ChosenRows :
            /\ target' = [target EXCEPT ![c] = rows[i].pid]
            /\ cpc' = [cpc EXCEPT ![c] = "chosen"]
  /\ UNCHANGED <<rows, gameVars, pipe, raced, displaced>>

OpenPipe(c) ==
  /\ cpc[c] = "chosen"
  /\ IF pipe[target[c]] = "listening"
       THEN /\ pipe' = [pipe EXCEPT ![target[c]] = c]
            /\ cpc' = [cpc EXCEPT ![c] = "linked"]
            /\ UNCHANGED target
       ELSE /\ cpc' = [cpc EXCEPT ![c] = "out"]
            /\ target' = [target EXCEPT ![c] = Nobody]
            /\ UNCHANGED pipe
  /\ UNCHANGED <<rows, gameVars, views, raced, displaced>>

\* Reading the pipe fails: the game has exited.
LoseGame(c) ==
  /\ cpc[c] = "linked" /\ pipe[target[c]] # c
  /\ cpc' = [cpc EXCEPT ![c] = "out"]
  /\ target' = [target EXCEPT ![c] = Nobody]
  /\ UNCHANGED <<rows, gameVars, pipe, views, raced, displaced>>

ClientDies(c) ==
  /\ c \in Mortal /\ c \in views
  /\ cpc' = [cpc EXCEPT ![c] = "out"]
  /\ target' = [target EXCEPT ![c] = Nobody]
  /\ views' = views \ {c}
  /\ pipe' = [g \in Games |-> IF pipe[g] = c THEN "closing" ELSE pipe[g]]
  /\ UNCHANGED <<rows, gameVars, raced, displaced>>

-----------------------------------------------------------------------------
Update(g) == UpdateServing(g) \/ UpdateMenu(g) \/ UpdateMatch(g)

Start(g) == OpenTable(g) \/ InitTable(g) \/ FindRow(g) \/ ClaimRow(g) \/ CreatePipe(g)

Next ==
  \/ \E g \in Games : Start(g) \/ Update(g) \/ Exit(g)
  \/ \E c \in Clients : ScanTable(c) \/ OpenPipe(c) \/ LoseGame(c) \/ ClientDies(c)

Spec == Init /\ [][Next]_vars

\* Games start, run and come back to their menus; clients keep trying.
FairSpec ==
  /\ Spec
  /\ \A g \in Games : /\ WF_vars(OpenTable(g)) /\ WF_vars(InitTable(g))
                      /\ WF_vars(FindRow(g)) /\ WF_vars(ClaimRow(g))
                      /\ WF_vars(CreatePipe(g))
                      /\ WF_vars(UpdateServing(g)) /\ WF_vars(UpdateMenu(g))
  /\ \A c \in Clients : /\ WF_vars(ScanTable(c)) /\ WF_vars(OpenPipe(c))
                        /\ WF_vars(LoseGame(c))

-----------------------------------------------------------------------------
(* Properties.                                                             *)

\* A process is listed at most once, whatever games race for rows, exit and
\* start again: the search for the process's own row comes first.
ListedOnce ==
  \A i, j \in Rows : rows[i].pid = rows[j].pid /\ i # j => rows[i].pid = Nobody

\* A game that is up is in the table, in the row it refreshes, unless two
\* games once started at the same time or a full table displaced one.  Both
\* of these leave a game that no client can find.
ListedUnlessRace ==
  \A g \in Games : gpc[g] \in {"setup", "up"} =>
     rows[index[g]].pid = g \/ raced \/ displaced

\* A row is only taken from another process when every row was in use, or
\* in a race: rows of games that have exited are otherwise kept for good.
RowsAreKept ==
  [][\A i \in Rows : rows'[i].pid = rows[i].pid
                   \/ rows[i].pid = Nobody
                   \/ raced
                   \/ displaced
                   \/ (\A g \in Games : gpc[g] = "off")]_vars

\* Every free row leads to a game that can be joined.
Promising ==
  \A i \in Free : gpc[rows[i].pid] = "up" /\ pipe[rows[i].pid] # "closing"

\* As long as the free rows all lead to games that can be joined, and clients
\* no longer die, a client that keeps trying joins a game unless all are
\* taken.  A single row of a game that has exited, or that a client opened
\* and left, voids the premise: it may be chosen again and again.
ClientsAreServed ==
  <>[]Promising /\ <>[][views \subseteq views']_vars =>
     \A c \in Clients : []<>(cpc[c] = "linked" \/ Free = {})
=============================================================================
