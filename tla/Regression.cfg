SPECIFICATION Spec
CONSTANTS
  CONTEXT = 5
  random = random
  directed = directed
  Tests <- MCTests
  Directed <- MCDirected
  Outcomes <- MCOutcomes
  Vcs = FALSE
  MaxSessions = 2
  MaxCrashes = 1
  MaxEdits = 1
INVARIANTS RegressionInv PassEarned FirstVerdictExact
PROPERTIES ReportsAfterChecks SessionEnds
CHECK_DEADLOCK FALSE
