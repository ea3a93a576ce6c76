SPECIFICATION FairSpec
CONSTANTS
  NumDests = 2
  JobConfigs <- CoveringJobs
  Humans = {h1, h2}
  Requests = {"cancel", "confirm", "retry", "create"}
  MaxCrashes = 2
  MaxFaults = 1
INVARIANT AbortStopsTheRest
INVARIANT PreviewTouchesNothing
INVARIANT RunStatusIsHonest
INVARIANT CancelledOnlyOnRequest
INVARIANT AnswerIsForThisQuestion
INVARIANT RebootSettlesRows
PROPERTY ImplementsRunLife
PROPERTY RunEnds
CHECK_DEADLOCK FALSE
