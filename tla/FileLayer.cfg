CONSTANTS
  SectorSize = 2
  InodeCount = 2
  AddCount = 2
  SingleCount = 2
  Size1Range = 4
  Size0Range = 4
  Faults = {"error", "short"}
  Onsets = {0, 1, 2, 3, 4, 5, 6, 7, 8}
  Junk = Junk
SPECIFICATION Spec
INVARIANTS
  TypeOK
  DigestIsOfFile
  ErrorsAreReported
CHECK_DEADLOCK FALSE
