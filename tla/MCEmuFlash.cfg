SPECIFICATION Spec
CONSTANTS
  NumBanks = 2
  LogBlks = 2
  PPB = 1
  SPP = 2
  NumRd = 2
  NumWr = 2
  PosSectors = 8
  MaxCalls = 3
INVARIANTS NoShortRead HostTransfers
PROPERTIES ImplementsPages
CHECK_DEADLOCK FALSE
