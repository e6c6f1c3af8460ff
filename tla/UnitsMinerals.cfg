\* The minerals are said to be the accessible ones.
SPECIFICATION UnitsSpec
CONSTANTS
  me = me
  foe = foe
  land = land
  NoPlayer = NoPlayer
  Players <- ThreePlayers
  Self <- me
  Neutral <- land
  Slots = {1}
  MaxUnits = 2
INVARIANTS
  MineralsAreAccessible
