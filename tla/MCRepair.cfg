SPECIFICATION RepairSpec
CONSTANTS
  FunctionOrder <- MCFunctionOrder
  Sids <- MCSids
  LockOf <- MCLockOf
  NoLock = "none"
  Control <- MCControl
  ControlTargets <- MCTargets
  Inputs <- MCInputs
  None = None
INVARIANTS
  ReplayAccepts
  RepairIsShortest
  StopReasonTrue
  FileLoopFindsFirst
PROPERTIES
  Terminates
CHECK_DEADLOCK FALSE
