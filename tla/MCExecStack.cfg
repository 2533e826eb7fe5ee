CONSTANTS
  PAGE <- MCPage
  MmStart <- MCMmStart
  MmEnd <- MCMmEnd
  NoFile = NoFile
  GUARD <- MCGuard
  STACK <- MCStack
  Argvs <- MCArgvs
  Envps <- MCEnvps
  Loaded <- MCLoaded
SPECIFICATION Spec
INVARIANTS
  InitialStackWellFormed
  StackGuarded
  ArgStringsLaidOut
  StackLookup
CHECK_DEADLOCK FALSE
