SPECIFICATION FairSpec
CONSTANTS
  NumBanks = 2
  MaxRequests = 2
INVARIANTS
  DoneMeansDone
CHECK_DEADLOCK FALSE
