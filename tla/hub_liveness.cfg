CONSTANTS
  a = a b = b c1 = c1 c2 = c2 c3 = c3 alice = alice w1 = w1 w2 = w2 None = None
  Rooms = {a}
  Seeded = {a}
  ExtraRooms = 0
  Clients = {c1}
  RoomOf <- LastElsewhere
  PidOf <- Alice
  MaxClients = 2
  PerPid = 2
  Workers = {w1}
  JobCap = 2
  MaxEpoch = 2
  MaxVersion = 1
  MaxFailures = 1
SPECIFICATION AloneFairly
CHECK_DEADLOCK FALSE
PROPERTIES BoardArrives StaleClientIsReleased CloseReturns
