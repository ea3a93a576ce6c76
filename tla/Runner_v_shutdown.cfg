SPECIFICATION Spec
CONSTANTS
  Jobs = {j1}
  Runs = {r1, r2}
  Clients = {c1, c2}
  Ops = {"run"}
  StoreFaults = FALSE
  MaxDowns = 0
SYMMETRY Symmetry
INVARIANT ShutdownLeavesNoLiveRow
CHECK_DEADLOCK FALSE
