SPECIFICATION FairGetSpec
CONSTANTS
  N = 4
  MaxConcurrency <- Limits
  MaxCap = 5
INVARIANTS
  EachFactoryOnce
  GetIsComplete
  KeepsLevel
  ValuesInOrder
  FailuresKeepElement
  
PROPERTIES
  GetReturns
  PoolSpec
CHECK_DEADLOCK FALSE
