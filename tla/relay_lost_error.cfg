SPECIFICATION Spec
CONSTANTS
  MaxConns = 1
  Sources = {s1}
  Workers = {w1}
  MaxPendingAuth = 1
  MaxPerSource = 1
  KnockMethod = TRUE
  IdleTimeout = TRUE
INVARIANT
  NilMeansCancelled
CHECK_DEADLOCK FALSE
