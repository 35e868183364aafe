SPECIFICATION Spec
CONSTANTS
  NoFrame = NoFrame
  Keys = {k1, k2, k3}
  Workers = {w1, w2}
  TTL = 4
  Window = 1
  MaxEntries = 2
  SweepEvery = 2
  MaxStall = 1
  MaxTime = 6
SYMMETRY Symmetry
INVARIANTS ActiveBoundsStored AcceptedOnce
PROPERTIES KeepsLiveNonces FullOnlyWhenFull
CHECK_DEADLOCK FALSE
