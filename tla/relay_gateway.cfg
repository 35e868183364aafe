SPECIFICATION FairSpec
CONSTANTS
  MaxConns = 2
  Sources = {s1, s2}
  Workers = {w1}
  MaxPendingAuth = 1
  MaxPerSource = 1
  KnockMethod = TRUE
  IdleTimeout = TRUE
INVARIANTS
  ReturnsClean
  CloseAllReaches
  ClosedIsNeverReported
PROPERTIES
  CancelReturns
  NoStarvation
  HalfClosedEnds
CHECK_DEADLOCK FALSE
