---------------------------- MODULE MCGameTable ----------------------------
(* A small instance of GameTable.                                          *)
EXTENDS GameTable

CONSTANTS g1, g2, g3, c1

ThreeGames == {g1, g2, g3}
OneGame    == {g1}
OneClient  == {c1}
TwoRows    == 1 .. 2
=============================================================================
