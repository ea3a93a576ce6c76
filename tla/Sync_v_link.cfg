SPECIFICATION FairSpec
CONSTANTS
  Paths <- MCPaths
  Files <- MCFiles
  SourceTrees <- MCSourceTrees
  DestTrees <- LinkTrees
  Chains <- PlainChain
  JobOptions <- UpdateOptions
  Tolerance = 1
  Hour = 3
  Workers = 2
  MaxAttempts = 2
  MaxLate = 1
  Faults = FALSE
  Cancels = FALSE
INVARIANT NothingThroughLinks
CHECK_DEADLOCK FALSE
