SPECIFICATION Spec
CONSTANTS
  Users = {u1, u2}
  Sources = {s1, s2}
  MaxEntries = 1
  MaxEdits = 1
  Deletes = FALSE
  Faults = FALSE
SYMMETRY Symmetry
INVARIANT BusyTargetKeepsMount
CHECK_DEADLOCK FALSE
