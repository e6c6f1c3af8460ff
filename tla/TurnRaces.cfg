\* Clients of two versions that come, go and die; matches; exits of the game.
SPECIFICATION FairSpec
CONSTANTS
  c1 = c1
  c2 = c2
  old = old
  Clients <- AnyVersion
  Compatible <- SameVersion
  Game = Game
  MaxCommands = 2
INVARIANTS
  TurnExclusion
  CommandsAreFresh
  MatchStateAgrees
  OnePlayer
PROPERTIES
  ImplementsTurnTaking
  TurnReturns
  DeadClientIsDropped
