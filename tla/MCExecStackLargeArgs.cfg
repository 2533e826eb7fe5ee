CONSTANTS
  PAGE <- MCPage
  MmStart <- MCMmStart
  MmEnd <- MCMmEnd
  NoFile = NoFile
  GUARD <- MCGuard
  STACK <- MCStack
  Argvs <- MCBigArgvs
  Envps <- MCEnvps
  Loaded <- MCLoaded
SPECIFICATION Spec
INVARIANTS
  StackWithinMapping
CHECK_DEADLOCK FALSE
