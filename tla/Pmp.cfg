SPECIFICATION Spec
CONSTANTS
  PMPNumRegions = 2
  PMPGranularity = 0
  WIDTH = 3
  DmWords <- MCDm
  Programs <- MCPrograms
INVARIANTS
  DecidesAsSpecified
  NoReservedRule
PROPERTIES
  LockedRuleKept
  NoNewMExec
