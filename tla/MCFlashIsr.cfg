SPECIFICATION FairSpec
CONSTANTS
  NumBanks = 2
  VBlks = 4
  LogBlks = 2
  MaxServed = 2
INVARIANTS
  TypeOK
  FormatExact
  NoInterruptLost
  FormatBlame
PROPERTIES
  FormatEnds
  IsrReturns
CHECK_DEADLOCK FALSE
