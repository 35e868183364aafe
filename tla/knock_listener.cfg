SPECIFICATION MCSpec
CONSTANTS
  Clients = {c1, c2}
  Strangers = {}
  Sources = {s1, s2}
  Methods = {"udp", "udp-passive", "udp-seq", "udp-passive-seq", "tcp-syn", "tcp-syn-seq"}
  Port = p1
  OtherPort = p2
  Requests <- MCRequests
  RequireSessionID = TRUE
  Length = 2
  SeqWindow = 1
  MaxInflightPerIP = 1
  MaxTotalInflight = 2
  TimeWindow = 1
  SlotSeconds = 1
  AllowLegacySYNSeq = FALSE
  GivenCache = FALSE
  MinReplayTTL = 1
  NonceTTL = 2
  MaxSkew = 1
  MaxSends = 2
  MaxTime = 3
SYMMETRY Symmetry
INVARIANTS
  InflightExact
  FiresOnce
PROPERTIES
  CompleteNeedsAllParts
  InflightKept
CHECK_DEADLOCK FALSE
