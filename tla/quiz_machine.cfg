CONSTANTS
  t1 = t1 t2 = t2 t3 = t3
  Questions = 2
  Threads = {t1, t2}
  MaxEpoch = 2
  MaxOther = 1
  MaxFailures = 0
SPECIFICATION Spec
SYMMETRY AnyThread
CHECK_DEADLOCK FALSE
INVARIANTS ShownTogether DismissedStaysAway OwnAnswerNotReoffered
