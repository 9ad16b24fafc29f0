SPECIFICATION FairSpec
CONSTANTS
  Names <- MCNames
  Root <- MCRoot
  Longer = {"r2"}
  Trees <- MCTrees
  Entries <- MCEntries
  Cwds <- MCCwds
  MaxDepth = 4
INVARIANTS
  PackageIsClosed
  PackageIsMinimal
  NestsOnce
  PackageSuffices
  InsideOpens
PROPERTY RunEnds
CHECK_DEADLOCK FALSE
