SPECIFICATION FairSpec
CONSTANTS
  NumBanks = 2
  VBlks = 4
  LogBlks = 2
  MaxServed = 2
INVARIANTS BlameIsBad
CHECK_DEADLOCK FALSE
