CONSTANTS
  LineSize = 16
  MaxCommands = 8
  MaxArgs = 5
  Wild <- MCWild
  MaxLines = 2
  Texts <- MCTexts
  Capacity = 1
  MayFail = TRUE
SPECIFICATION FairSpec
INVARIANTS
  TypeOK
  CleanPrompt
  OutputIsWhole
  ArgumentsAsTyped
  ShortCommandsFit
PROPERTIES
  LineEnds
  OrphansEnd
CHECK_DEADLOCK FALSE
