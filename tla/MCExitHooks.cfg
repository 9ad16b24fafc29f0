SPECIFICATION Spec
CONSTANTS
  Fns = {f, g}
  MaxReg = 5
  ErrKinds = {bad}
INVARIANTS
  NoNilHook
  LifoOnce
PROPERTIES
  AtExitSpec
CHECK_DEADLOCK FALSE
