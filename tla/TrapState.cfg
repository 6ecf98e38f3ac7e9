SPECIFICATION Spec
CONSTANTS
  Pcs = {p1, p2}
  MaxDepth = 2
SYMMETRY Symmetry
INVARIANTS
  TypeOK
  DoubleFaultInHandler
  MprvOnlyInM
PROPERTY
  ImplementsTrapStack
