CONSTANTS
  Procs = {p1, p2}
  Lens = {1, 2}
  MemTop = 10
  Foreign = {1, 5}
  InitBase = 2
  Snapshot <- MCSnapshot
  MaxCalls = 2
  NoOne = NoOne
SPECIFICATION Spec
INVARIANT ReservationsNeverOverlap
PROPERTY AllocationProgress AllocatorSpec
CHECK_DEADLOCK FALSE
