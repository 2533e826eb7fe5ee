CONSTANTS
  PAGE <- MCPage
  MemTop <- MCMemTop
  Foreign <- MCForeign
  MmapBase <- MCMmapBase
  Headers <- MCHeaders
  Tables <- MCTables
  InterpFiles <- MCInterpFiles
  HostOutcomes = {TRUE, FALSE}
SPECIFICATION Spec
INVARIANTS
  LoadStaysInReservation
  SegmentsMatchImage
  PhdrTableVisible
  ShortTableRejected
CHECK_DEADLOCK FALSE
