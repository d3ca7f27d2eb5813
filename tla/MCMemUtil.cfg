SPECIFICATION MCSpec
CONSTANTS
  WPU = 2
  Units = 3
  SWords = 3
  BPB = 2
  MuMax = 2
  MaxOps = 2
  MaxDma = 1
INVARIANTS SameAsEmulator Answered BoardsRight
CHECK_DEADLOCK FALSE
