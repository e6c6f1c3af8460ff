----------------------------- MODULE TurnTaking -----------------------------
(***************************************************************************)
(* What a game promises to the client process that plays it: the shared    *)
(* memory belongs to one of the two at a time; the game hands it over      *)
(* empty, the client fills in orders while it holds it, and the game       *)
(* carries out what it finds when it has it back, once.                    *)
(***************************************************************************)
EXTENDS Naturals, Sequences

CONSTANTS
  Clients,      \* client processes
  Game,         \* the game, as the holder of the memory
  MaxOrders     \* bound: orders of one turn

VARIABLES
  holder,       \* who may read and write the shared memory
  orders        \* orders given in this turn and not yet carried out

Init == holder = Game /\ orders = << >>

HandOver(c) ==
  /\ holder = Game
  /\ orders = << >>
  /\ holder' = c
  /\ UNCHANGED orders

Order(c) ==
  /\ holder = c
  /\ Len(orders) < MaxOrders
  /\ orders' = Append(orders, c)
  /\ UNCHANGED holder

\* The client gives the memory back, or is gone.
GiveBack ==
  /\ holder \in Clients
  /\ holder' = Game
  /\ UNCHANGED orders

CarryOut ==
  /\ holder = Game
  /\ orders # << >>
  /\ orders' = << >>
  /\ UNCHANGED holder

\* The game process ends; the memory ends with it.
Gone == holder' = Game /\ orders' = << >>

Next ==
  \/ \E c \in Clients : HandOver(c) \/ Order(c)
  \/ GiveBack \/ CarryOut \/ Gone

Spec == Init /\ [][Next]_<<holder, orders>>
=============================================================================
