SPECIFICATION Spec
CONSTANTS
  Runs <- MCRuns
  Free = {1, 2}
  MaxRestarts = 2
  Width = 16
  Nap = 2
INVARIANT SeedIsReproducible
CHECK_DEADLOCK FALSE
