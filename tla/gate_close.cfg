SPECIFICATION FairSpec
CONSTANTS
  Starters = {p1, p2}
  Modes <- AllModes
  ConcurrentClose = FALSE
  FirewallFaults = TRUE
  MaxKnocks = 2
CHECK_DEADLOCK FALSE
INVARIANTS
  CloseReleases
  StopAllStops
PROPERTY CloseTerminates
