SPECIFICATION FairSpec
CONSTANTS
  Hooks = {chat}
  BestEffort = {chat}
  Rows <- SomeRow
  Runs = {r1}
  QueueDepth = 2
  MaxAttempts = 2
  MaxTicks = 2
  MaxEdits = 1
  StoreFaults = TRUE
INVARIANT DrainLosesNothing
INVARIANT ForgottenStays
PROPERTY LandsInOrder
PROPERTY ImplementsOutbox
PROPERTY HearsTheEnd
PROPERTY DrainEnds
CHECK_DEADLOCK FALSE
