CONSTANTS
  PAGE <- MCPage
  MmStart <- MCMmStart
  MmEnd <- MCMmEnd
  NoFile = NoFile
  NULL = 0
  MapProts <- MCProts
  AnonTypes = {"normal"}
  Files = {f1}
  FileOffsets = {0}
  Lengths <- MCLengths
  Hints <- MCHints
  Breaks <- MCBreaks
SPECIFICATION Spec
INVARIANTS
  TypeOK
  RegistryWellFormed
  RegistryBacked

  
