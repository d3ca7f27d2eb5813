SPECIFICATION Spec
CONSTANTS
  NumBanks = 2
  VBlks = 4
  Pages = 2
  MaxFaults = 3
INVARIANTS
  Charged
CHECK_DEADLOCK FALSE
