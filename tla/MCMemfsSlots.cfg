CONSTANTS
  Inodes = {i1, i2, r1}
  Restored = {r1}
  Slots <- MCSlots
  PAGE = 2
  KMAX = 4
  Lens <- MCLens
  MmapOutcomes = {TRUE, FALSE}
  RemoveOutcomes = {TRUE}
  NoSlot = NoSlot
SPECIFICATION Spec
INVARIANTS
  SlotsExclusive
  FileContents
