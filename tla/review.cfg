CONSTANTS
  h1 = h1 h2 = h2
  Missed = 2
  Handlers = {h1, h2}
  MaxActionIds = 5
  MaxCards = 3
  MaxIntents = 6
  MaxTries = 2
  MaxEpoch = 2
  MaxBirths = 2
SPECIFICATION ReviewSpec
SYMMETRY Interchangeable
CHECK_DEADLOCK FALSE
INVARIANTS EveryChangeOnce AnsweredInOrder
PROPERTIES SessionOnlyGrows
