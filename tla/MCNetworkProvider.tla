------------------------- MODULE MCNetworkProvider -------------------------
(* Small instances of NetworkProvider: two or three games, the first with  *)
(* a thread for the user interface and one for the network.                *)
EXTENDS NetworkProvider

CONSTANTS u1, n1, u2, u3

MCHome == [t \in Threads |-> CASE t \in {u1, n1} -> 1 [] t = u2 -> 2 [] OTHER -> 3]
MCHostIP == [p \in Processes |-> IF p = 1 THEN 2 ELSE 1]

Scene(network, listers, hosts, senders, receivers, bounds) ==
  [network |-> network, listers |-> listers, hosts |-> hosts,
   senders |-> senders, receivers |-> receivers, maxNow |-> bounds[1],
   maxLists |-> bounds[2], maxSends |-> bounds[3], maxCopies |-> bounds[4],
   maxLives |-> bounds[5], mortal |-> bounds[6]]

MCScenes ==
  { \* the second game hosts, the first looks for it
    Scene("DRIP", {u1}, {u2}, {}, {n1, u2}, <<3, 2, 0, 1, 2, {}>>),
    Scene("DRIP", {u1}, {u2}, {n1}, {u2}, <<1, 2, 1, 0, 2, {}>>),
    Scene("SMEM", {u1}, {u2}, {}, {}, <<4, 2, 0, 0, 3, {1, 2}>>),
    \* the second game sends, the first receives and looks for games
    Scene("DRIP", {u1}, {}, {u2}, {n1}, <<1, 1, 2, 1, 2, {}>>),
    Scene("SMEM", {u1}, {}, {u2}, {n1}, <<3, 1, 2, 0, 2, {}>>) }

(* Two games to choose from.                                               *)
MCTwoHosts == { Scene("SMEM", {u1}, {u2, u3}, {}, {}, <<1, 2, 0, 0, 3, {}>>) }
=============================================================================
