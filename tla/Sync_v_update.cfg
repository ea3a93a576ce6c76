SPECIFICATION FairSpec
CONSTANTS
  Paths <- MCPaths
  Files <- MCFiles
  SourceTrees <- MCSourceTrees
  DestTrees <- FileTrees
  Chains <- PlainChain
  JobOptions <- UpdateOptions
  Tolerance = 1
  Hour = 3
  Workers = 2
  MaxAttempts = 2
  MaxLate = 1
  Faults = TRUE
  Cancels = FALSE
PROPERTY UpdateCopiesOnlyNewer
CHECK_DEADLOCK FALSE
