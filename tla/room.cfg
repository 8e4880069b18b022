CONSTANTS
  p1 = p1 p2 = p2 q1 = q1 q2 = q2 right = right wrong = wrong s1 = s1 s2 = s2 c1 = c1 c2 = c2
  NoOne = NoOne
  Participants <- TwoPlayers
  Questions <- TwoQuestions
  Manifest <- InOrder
  Options <- RightWrong
  CorrectOption <- AnswerKey
  Submissions <- TwoSubmissions
  Callers <- TwoCallers
  Capacities <- OneOrTwo
  Duration = 1
  MaxEpoch = 2
  MaxTime = 3
SPECIFICATION RaceOrDuel
SYMMETRY Interchangeable
CHECK_DEADLOCK FALSE
INVARIANTS TypeOK PreflightNeverTrips RequestsMatchAnswers RetryGetsOriginalReceipt ScoredAgainstStandingDeadline LedgerBalances FairPlansExactRanks
PROPERTIES FirstWriteStands VersionNamesBoard KeepsPromise
