SPECIFICATION Spec
CONSTANTS
  NumDests = 2
  JobConfigs <- RunJobs
  Humans = {h1}
  Requests = {}
  MaxCrashes = 0
  MaxFaults = 0
INVARIANT EveryDestHasOutcome
CHECK_DEADLOCK FALSE
