SPECIFICATION ProxySpec
CONSTANTS
  Remotes4 = {a4}
  Remotes6 = {a6}
  Files <- MCFiles
  Toolboxes <- MCToolboxes
  MaxParts = 8
  HeaderSize = 28
  NoFile = NoFile
  TTL = 1
  PerSecond = 2
  MaxCleanupDeletes = 4
  MaxStarts = 2
  MaxFaults = 2
  MaxTime = 3
CONSTRAINT FewAccidents
INVARIANTS OnlyAllowedEnter CleanupLeavesNothing 
PROPERTY AccessKept
CHECK_DEADLOCK FALSE
