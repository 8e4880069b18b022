CONSTANTS
  c1 = c1 c2 = c2 c3 = c3 k1 = k1 k2 = k2 k3 = k3 alice = alice bob = bob
  Callers = {c1, c2}
  Keys = {k1}
  KindOf <- TextKeys
  OwnerOf <- AliceOrBob
  MaxWaiting = 2
  MaxWaiters = 2
  MaxFlights = 2
  Slots = 1
  CacheEntries = 1
  OwnerCap = 2
  WindowCap = 2
  HourCap = 2
  MaxStarted = 2
SPECIFICATION Spec
CHECK_DEADLOCK FALSE
INVARIANT CancellationIsPrivate
