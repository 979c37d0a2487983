CONSTANTS
  SectorSize = 2
  InodeCount = 2
  AddCount = 2
  SingleCount = 2
  Size1Range = 4
  Size0Range = 4
  Names = {a, b}
  LongNames = {b}
  Contents = {x, y}
  Isize = 2
  MaxEntries = 3
  MaxDepth = 2
  ByteRange = 3
  SlashByte = 1
  Images <- SoundImages
SYMMETRY ContentSymmetry
SPECIFICATION Spec
INVARIANT AllAllocatedDumped
CHECK_DEADLOCK FALSE
