SPECIFICATION RulesSpec
CONSTANTS
  Remotes = {r1, r2}
  Clients = {c1}
  Conns = {x1, x2}
  TTL = 2
  MaxConnectionsPerKnock = 0
  MaxEntries = 1
  UseFirewall = TRUE
  ManualRevoke = TRUE
  BoundSessions = TRUE
  RemoveAfterAuth = TRUE
  FirewallFaults = TRUE
  MaxKnocks = 2
  MaxTime = 5
INVARIANTS LeaseHasTimer AdmissionsBounded
PROPERTIES LeaseKept KeepsTickets RulesAccounted EventuallyClean
CHECK_DEADLOCK FALSE
