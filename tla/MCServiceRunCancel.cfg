SPECIFICATION RunSpec
CONSTANTS
  Fns = {a, b}
  MaxReg = 2
  ErrKinds <- Kinds
  MaxLevel = 2
  Faults = {}
INVARIANT CancellationCleansUp
CHECK_DEADLOCK FALSE
