SPECIFICATION Spec
CONSTANTS
  Base = 6
  FixedSize = 1
  SessionMin = 2
  MaxParts = 4
  Overhead = 1
  PrefixSize = 2
  HintSize = 1
  HeaderSize = 2
  SupportedBuckets = {16, 18, 22, 32}
  DefaultMaxSize = 32
  NoSecret = none
  k1 = k1
  k2 = k2
  Inputs <- MCInputs
INVARIANTS
  AuthenticOnly
  Canonical
  CompatibleAccepted
  ValidSegment
  
CHECK_DEADLOCK FALSE
