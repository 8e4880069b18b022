CONSTANTS
  t1 = t1 t2 = t2 t3 = t3
  Questions = 1
  Threads = {t1, t2}
  MaxEpoch = 2
  MaxOther = 0
  MaxFailures = 1
SPECIFICATION FairSpec
CHECK_DEADLOCK FALSE
PROPERTIES RetryHelps
