\* Three processes compete for two rows; one of them exits and starts again,
\* and a client that may die keeps trying.
SPECIFICATION FairSpec
CONSTANTS
  g1 = g1
  g2 = g2
  g3 = g3
  c1 = c1
  Nobody = Nobody
  Games <- ThreeGames
  Clients <- OneClient
  Rows <- TwoRows
  Leaving <- OneGame
  Mortal <- OneClient
INVARIANTS
  ListedOnce
  ListedUnlessRace
PROPERTIES
  RowsAreKept
  ClientsAreServed
