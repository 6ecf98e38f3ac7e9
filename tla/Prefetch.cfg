CONSTANTS
  NUM_REQS = 2
  WORDS = 4
  ResetAll = TRUE
  Targets <- MCTargets
SPECIFICATION FairSpec
INVARIANTS
  Contiguous
  FetchInv
PROPERTIES
  ImplementsInstrStream
  CalmNotStarved
