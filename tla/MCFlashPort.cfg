SPECIFICATION FairSpec
CONSTANTS
  NumBanks = 3
  MaxRequests = 4
INVARIANTS
  TypeOK
  SyncContract
  RecoveryNeverNests
PROPERTIES
  RoomNeverOverwritten
  ImplementsQueue
  IssueCmdReturns
CHECK_DEADLOCK FALSE
