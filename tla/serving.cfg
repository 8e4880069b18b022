CONSTANTS
  h1 = h1 h2 = h2 alice = alice bob = bob a1 = a1 a2 = a2 NoOne = NoOne
  x = x y = y z = z Garbage = Garbage
  Requests = {h1, h2}
  MaxProbes = 2
  MaxRejections = 1
  MaxItems = 2
  MaxParts = 2
  Owners = {alice, bob}
  Questions = 1
  Actions = {a1, a2}
  MaxIntents = 1
  MaxReports = 1
  RecentReports = 1
  MaxEpoch = 2
  MaxMade = 2
  MaxExpiries = 1
  Addresses = {x, y, z}
  Trusted = {z}
  MaxForwarded = 2
  Rate = 1
  Burst = 2
  Table = 2
  IdleTime = 2
  SweepGap = 1
  MaxMinutes = 5
SPECIFICATION Serving
CHECK_DEADLOCK FALSE
INVARIANTS OneLessonPerLife IntentNamesOneRequest OnlyCurrent TextIsOne ClaimsIgnored
PROPERTIES FreshVerdictStands EveryRequestTold KeepsRate
