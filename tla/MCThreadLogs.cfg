SPECIFICATION FairCoSpec
CONSTANTS
  Lengths <- SomeLengths
  DefaultLen = 2
  MaxThreads = 3
  MaxLines = 9
  MaxWork = 6
INVARIANTS
  LogsAreLatest
  LengthWithinLimits
  ResultsAgree
  ReportsFollowResults
PROPERTY RunSettles
CHECK_DEADLOCK FALSE
