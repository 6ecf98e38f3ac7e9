CONSTANTS
  WORDS = 4
  Denied <- MCDenied
  Accesses <- MCAccesses
SPECIFICATION FairSpec
INVARIANTS
  AccessInv
PROPERTIES
  PortRespected
  EveryAccessAnswered
