SPECIFICATION Spec
CONSTANTS
  NumBanks = 2
  NumRows = 3
  RowsPerBlk = 2
  NumPlanes = 2
  SPP = 3
  MaxCalls = 2
INVARIANTS TypeOK WriteSequences
PROPERTIES ImplementsPages
CHECK_DEADLOCK FALSE
