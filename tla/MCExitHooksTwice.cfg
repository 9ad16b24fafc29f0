SPECIFICATION Spec
CONSTANTS
  Fns = {f, g}
  MaxReg = 3
  ErrKinds = {bad}
INVARIANT CalledOnce
CHECK_DEADLOCK FALSE
