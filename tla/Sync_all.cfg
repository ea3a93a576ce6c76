SPECIFICATION FairSpec
CONSTANTS
  Paths <- MCPaths
  Files <- MCFiles
  SourceTrees <- MCSourceTrees
  DestTrees <- MCDestTrees
  Chains <- MCChains
  JobOptions <- MCOptions
  Tolerance = 1
  Hour = 3
  Workers = 2
  MaxAttempts = 2
  MaxLate = 1
  Faults = TRUE
  Cancels = TRUE
INVARIANT DeletesOnlyWhatSourceLacks
INVARIANT DeletesFollowCopies
INVARIANT SuccessMeansInSync
PROPERTY UpdateLosesNothing
PROPERTY ExcludedStays
CHECK_DEADLOCK FALSE
PROPERTY ExecuteAdvances
PROPERTY ExecuteReturns
