SPECIFICATION FairSpec
CONSTANTS
  NumRd = 5
  NumBanks = 3
  MaxReads = 12
INVARIANTS TypeOK
PROPERTIES ImplementsStream ReadsServed
CHECK_DEADLOCK FALSE
