CONSTANTS
  ByteBits = 1
  XZR = 1
  BranchBits = 2
  AddressBits = 2
  Addresses = {0, 3}
  ImmediateBits = 2
  Immediates = {1}
  Moves = {127, 16}
  ShiftAmounts = {0, 7}
  Inputs = {24, 129}
  Start <- MCStart
  Size <- MCSize
  TextStart = 64
  TextSize = 16
  MaxCycles = 3
  MaxInputs = 1
SPECIFICATION Spec
INVARIANTS
  TypeOK
  LatchesAgree
PROPERTIES
  BranchesOnComparison
  PcFollows
  StoresAreExact
  ZeroRegister
  HaltIsFinal
CHECK_DEADLOCK FALSE
