SPECIFICATION Spec
CONSTANTS
  m1 = m1
  m2 = m2
  m3 = m3
  car = car
  tank = tank
  bar = bar
  drop = drop
  bunker = bunker
  hatch = hatch
  l1 = l1
  l2 = l2
  t1 = t1
  t2 = t2
  foe = foe
  ally = ally
  Units <- AllUnits
  Kind <- Kinds
  Armies <- OneArmy
  Larvae <- LarvaeOf
  Nobody = Nobody
  Enemies = {foe}
  Containers = {}
  TargetKind <- TargetKinds
  TargetPos <- Spots
  NoPos = NoPos
  Cell = 32
  GroupMax = 2
  Levels = {1}
  Requests <- ClickRequests
  MaxGiven = 2
INVARIANTS
  LastCommandStands
