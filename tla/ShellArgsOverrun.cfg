CONSTANTS
  LineSize = 256
  MaxCommands = 200
  MaxArgs = 100
  Wild <- OnlyKilled
  MaxLines = 1
  Texts <- OnlyCrowded
  Capacity = 1
  MayFail = FALSE
SPECIFICATION Spec
INVARIANT ArgsFit
CHECK_DEADLOCK FALSE
