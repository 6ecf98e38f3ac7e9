CONSTANTS
  Configurations <- OnlyMaxperf
  PCS = 3
  Vector <- MCVector
  Instrs <- MCProgress
  Trigger = {}
  DcsrValues <- MCStep
  IrqLines = {"timer"}
  NmiLine = {FALSE}
  DebugReqLine = {FALSE, TRUE}
  FetchEnable = {TRUE}
  HoldDebugReq = TRUE
SPECIFICATION FairSpec
PROPERTIES
  NeverStuck
  RequestsServed
  Wakes
