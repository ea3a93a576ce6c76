SPECIFICATION FairSpec
CONSTANTS
  hourly = hourly
  nightly = nightly
  Jobs = {j1}
  Clients = {c1}
  Exprs = {hourly, nightly}
  Broken = broken
  Forms <- SomeForms
  NextFiring <- MCNextFiring
  MaxTime = 3
  MaxSaves = 2
  MaxDowns = 1
  MaxFaults = 1
INVARIANT FiringRunsOnce
PROPERTY MissedDoNotRun
PROPERTY RunsWithItsRules
PROPERTY DueIsHandled
PROPERTY ForeignHeals
CHECK_DEADLOCK FALSE
