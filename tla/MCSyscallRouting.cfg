CONSTANTS
  Ordinary <- MCOrdinary
  Raw <- MCRaw
  SYS_NR <- MCSysNr
  AllowAny <- MCAllowAny
  AllowCaladan <- MCAllowCaladan
  AllowJunction <- MCAllowJunction
  AppThreads = {a1}
  JunctionThreads = {j1}
  CaladanThreads = {c1}
SPECIFICATION Spec
INVARIANT SameHandlerEitherPath
INVARIANT UintrEverywhere
INVARIANT StackSwitchKept
\* init stops at a failed step, and syscall_exit(-1) ends the process.
CHECK_DEADLOCK FALSE
