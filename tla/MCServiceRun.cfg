SPECIFICATION FairRunSpec
CONSTANTS
  Fns = {a, b}
  MaxReg = 2
  ErrKinds <- Kinds
  MaxLevel = 2
  Faults <- AllFaults
INVARIANTS
  RunTypeOK
  HooksCleanUp
  CanceledRunShieldsHooks
  SuccessIsClean
  ReasonReported
PROPERTY RunEnds
CHECK_DEADLOCK FALSE
