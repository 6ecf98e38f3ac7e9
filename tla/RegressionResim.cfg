SPECIFICATION Spec
CONSTANTS
  CONTEXT = 5
  random = random
  directed = directed
  Tests <- MCTests
  Directed <- MCDirected
  Outcomes <- MCOutcomes
  Vcs = TRUE
  MaxSessions = 2
  MaxCrashes = 0
  MaxEdits = 1
INVARIANT ReportsLastRun
CHECK_DEADLOCK FALSE
