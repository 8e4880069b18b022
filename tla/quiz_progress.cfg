CONSTANTS
  t1 = t1 t2 = t2 t3 = t3
  Questions = 2
  Threads = {t1, t2}
  MaxEpoch = 1
  MaxOther = 1
  MaxFailures = 1
SPECIFICATION FairSpec
CHECK_DEADLOCK FALSE
PROPERTIES PlayerGetsOn
