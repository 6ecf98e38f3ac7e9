SPECIFICATION TaskSpec
CONSTANTS
  Selections <- MCSelections
  Relocations <- MCRelocations
  Configurations <- MCConfigurations
  VcsVersions <- MCVcsVersions
  SourceLists <- MCSourceLists
INVARIANTS
  SelectionExact
  GeneratedTestsImport
  CommandsComplete
  TestCommandsClosed
  ConfigurationBuilt
  ToolsChecked
  ReplacedAfterAllConverted
  ReportsAgree
CHECK_DEADLOCK FALSE
