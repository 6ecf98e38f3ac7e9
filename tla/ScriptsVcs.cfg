SPECIFICATION TaskSpec
CONSTANTS
  Selections <- MCSelections
  Relocations <- MCRelocations
  Configurations <- MCConfigurations
  VcsVersions <- AllVcsVersions
  SourceLists <- MCSourceLists
INVARIANT VcsOrdered
CHECK_DEADLOCK FALSE
