SPECIFICATION MCSpec
CONSTANTS
  p1 = p1
  p2 = p2
  Producers = {p1, p2}
  Capacity = 2
  MaxRead = 2
  MaxAppends = 4
  MaxTogether = 4
  MaxDeaths = 1
  MaxRestarts = 1
SYMMETRY ProducerSymmetry
INVARIANTS
  WindowInv
  BatchInSequence
  AcknowledgedWereDelivered
  WindowReadable
