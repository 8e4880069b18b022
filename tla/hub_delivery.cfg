CONSTANTS
  a = a b = b c1 = c1 c2 = c2 c3 = c3 alice = alice w1 = w1 w2 = w2 None = None
  Rooms = {a, b}
  Seeded = {a}
  ExtraRooms = 1
  Clients = {c1, c2, c3}
  RoomOf <- LastElsewhere
  PidOf <- Alice
  MaxClients = 2
  PerPid = 1
  Workers = {w1, w2}
  JobCap = 1
  MaxEpoch = 2
  MaxVersion = 2
  MaxFailures = 0
SPECIFICATION AloneOrCrowded
SYMMETRY Alike
CHECK_DEADLOCK FALSE
INVARIANTS OneRefreshPerRoom OnlyOwnEpoch WakeupNotForgotten
PROPERTIES NeverBackwards
