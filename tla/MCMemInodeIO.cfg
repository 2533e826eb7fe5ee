CONSTANTS
  Threads = {t1, t2, t3}
  Offsets <- MCOffsets
  Lens <- MCLens
  InitSize = 2
  WRAP <- MCWrap
  MaxCalls = 4
SPECIFICATION Spec
INVARIANT CopiesInBounds
PROPERTY WriteNeverShrinks
PROPERTY CallsComplete
CHECK_DEADLOCK FALSE
