SPECIFICATION AuthSpec
CONSTANTS
  Dials = {d1, d2, d3}
  Keys = {s1, s2}
  RequireServerProof = TRUE
  ServerProof = TRUE
  Limit = 1
  Every = 2
  BanTTL = 1
  MaxBuckets = 1
  MaxBans = 1
  MaxStall = 1
  MaxTime = 2
SYMMETRY Symmetry
CONSTRAINT OneDialFails
INVARIANTS
  SessionBound
  Agreement
  LimiterBound
PROPERTIES
  BansKept
CHECK_DEADLOCK FALSE
