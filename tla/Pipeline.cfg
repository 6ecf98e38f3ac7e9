CONSTANTS
  Configurations <- SmallAndOpentitan
  PCS = 3
  Vector <- MCVector
  Instrs <- MCPrograms
  Trigger = {1}
  DcsrValues <- MCDcsr
  IrqLines = {"timer"}
  NmiLine = {FALSE, TRUE}
  DebugReqLine = {FALSE, TRUE}
  FetchEnable = {FALSE, TRUE}
  HoldDebugReq = TRUE
SPECIFICATION Spec
INVARIANTS
  PipelineInv
PROPERTIES
  ImplementsHart
  IntegrityErrorNotLost
