SPECIFICATION Spec
CONSTANTS
  Runs <- MCRuns
  Free = {1, 2}
  MaxRestarts = 2
  Width = 16
  Nap = 2
INVARIANTS
  ReplayStable
  SeededPastReplay
  TimeAsAsked
CHECK_DEADLOCK FALSE
