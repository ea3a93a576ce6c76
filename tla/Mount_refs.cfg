SPECIFICATION FairSpec
CONSTANTS
  Users = {u1, u2}
  Sources = {s1, s2}
  MaxEntries = 2
  MaxEdits = 2
  Deletes = TRUE
  Faults = TRUE
INVARIANT UnusedIsReapable
INVARIANT RefsCountHolders
INVARIANT OneMounter
PROPERTY HeldMountStays
PROPERTY MountIsReclaimed
CHECK_DEADLOCK FALSE
