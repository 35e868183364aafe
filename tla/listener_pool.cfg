SPECIFICATION FairSpec
CONSTANTS
  c1 = c1
  c2 = c2
  c3 = c3
  s1 = s1
  s2 = s2
  Conns <- MCConns
  Sources <- MCSources
  SourceOf <- MCSourceOf
  Workers = {w1, w2}
  Callers = {a1}
  MaxPending = 1
  MaxPerSource = 1
CHECK_DEADLOCK FALSE
INVARIANTS
  SlotsExact
  OneOwner
  CloseInterruptsAuth
PROPERTY ShutdownCompletes
