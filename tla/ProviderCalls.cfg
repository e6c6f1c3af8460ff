\* Two games, on either network.
SPECIFICATION Spec
CONSTANTS
  u1 = u1
  n1 = n1
  u2 = u2
  u3 = u3
  Nobody = Nobody
  Processes = {1, 2}
  Addresses = {1, 2}
  Threads = {u1, n1, u2}
  Home <- MCHome
  HostIP <- MCHostIP
  AdLife = 1
  PacketLife = 1
  TickRange = 4
  Scenes <- MCScenes
  Room = 1
INVARIANTS
  TypeOK
  InArrivalOrder
  RowsAreOwned
PROPERTIES
  ListHeldStill
  ListIsCurrent
  DroppedIsOld
  CallsReturn
CHECK_DEADLOCK FALSE
