\* Three games, two of which host.
SPECIFICATION Spec
CONSTANTS
  u1 = u1
  n1 = n1
  u2 = u2
  u3 = u3
  Nobody = Nobody
  Processes = {1, 2, 3}
  Addresses = {1, 2, 3}
  Threads = {u1, u2, u3}
  Home <- MCHome
  HostIP <- MCHostIP
  AdLife = 1
  PacketLife = 1
  TickRange = 4
  Scenes <- MCTwoHosts
  Room = 1
INVARIANT JoinsThePickedGame
CHECK_DEADLOCK FALSE
