SPECIFICATION Spec
CONSTANTS
  Remotes = {r1, r2}
  Clients = {c1}
  Conns = {x1}
  TTL = 1
  MaxConnectionsPerKnock = 2
  MaxEntries = 2
  UseFirewall = TRUE
  ManualRevoke = TRUE
  BoundSessions = TRUE
  RemoveAfterAuth = FALSE
  FirewallFaults = FALSE
  MaxKnocks = 2
  MaxTime = 4
INVARIANT NoOrphanRule
CHECK_DEADLOCK FALSE
