SPECIFICATION Spec
CONSTANTS
  Remotes = {r1}
  Clients = {c1}
  Conns = {x1}
  TTL = 1
  MaxConnectionsPerKnock = 1
  MaxEntries = 2
  UseFirewall = TRUE
  ManualRevoke = TRUE
  BoundSessions = TRUE
  RemoveAfterAuth = FALSE
  FirewallFaults = FALSE
  MaxKnocks = 3
  MaxTime = 5
INVARIANT RenewedLeaseKeepsRule
CHECK_DEADLOCK FALSE
