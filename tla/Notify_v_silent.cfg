SPECIFICATION Spec
CONSTANTS
  Hooks = {chat}
  BestEffort = {chat}
  Rows <- AllRow
  Runs = {r1}
  QueueDepth = 2
  MaxAttempts = 2
  MaxTicks = 1
  MaxEdits = 0
  StoreFaults = FALSE
INVARIANT StartedIsConcluded
CHECK_DEADLOCK FALSE
