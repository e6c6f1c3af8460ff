\* The bridge with two submitters and with games that die, the direct sink, and the
\* queue file without overlaps and with a single producer.
SPECIFICATION MCSpec
CHECK_DEADLOCK FALSE
CONSTANTS
  s1 = s1
  s2 = s2
  w1 = w1
  w2 = w2
  Writers = {w1, w2}
  BufferSize = 3
  MaxMessage = 2
  Lengths = {1, 2}
  MaxCalls <- MCCalls
  Settings <- MCSettings
  Producers = {p1, p2}
  OneProducer = p1
INVARIANTS
  OneBatchPerReady
  NobodyIsCutShort
  FreshIsNotCalledStalled
  TurnIsWhole
PROPERTIES
  ImplementsRecordQueue
  Drains
