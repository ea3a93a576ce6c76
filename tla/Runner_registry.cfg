SPECIFICATION FairSpec
CONSTANTS
  Jobs = {j1}
  Runs = {r1, r2}
  Clients = {c1, c2}
  Ops = {"schedule", "hookq", "previewq", "confirm", "cancel", "delete"}
  StoreFaults = TRUE
  MaxDowns = 1
INVARIANT OneRunPerJob
INVARIANT NoOrphanRow
INVARIANT NoLeakedSlot
INVARIANT ShutdownSettlesRegistered
PROPERTY QueuedHasRunAhead
PROPERTY ImplementsJobSlots
PROPERTY ImplementsRunLife
PROPERTY RunsEnd
PROPERTY QueuedRunFollows
CHECK_DEADLOCK FALSE
