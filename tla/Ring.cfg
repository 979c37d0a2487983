CONSTANTS
  n = 6
  c = 7
SPECIFICATION FairSpec
INVARIANTS
  TypeOK
  OneMessage
  RoundFromStart
  ResultIsWhole
PROPERTY Ends
CHECK_DEADLOCK FALSE
