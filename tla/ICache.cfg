CONSTANTS
  NUM_FB = 3
  WAYS = 1
  BEATS = 2
  INDEXES = 1
  LINES = 2
  ICacheECC = FALSE
  ICacheScramble = TRUE
  Targets = {1}
  Faults = {3}
  Enables = {TRUE}
  Fences = {FALSE, TRUE}
  Readies = {TRUE}
  MAX_OUTSTANDING = 2
  MAX_ABANDONED = 0
  MAX_UNASKED = 1
SPECIFICATION Spec
INVARIANT
  CacheInv
PROPERTY
  ImplementsWordStream
