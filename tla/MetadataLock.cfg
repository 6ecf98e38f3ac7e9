SPECIFICATION Spec
CONSTANTS
  Scripts <- MCScripts
  Does <- MCDoes
  Before <- MCBefore
  MaxKills = 1
INVARIANTS NoLostUpdate TornOnlyInExport
PROPERTIES ImplementsMetadataStore EveryoneEnds
CHECK_DEADLOCK FALSE
