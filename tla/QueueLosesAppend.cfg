SPECIFICATION FairSpec
CONSTANTS
  p1 = p1
  Producers = {p1}
  Capacity = 2
  MaxRead = 2
  MaxAppends = 1
  MaxTogether = 1
  MaxDeaths = 0
  MaxRestarts = 0
PROPERTIES
  AppendedIsConsumed
