SPECIFICATION FairSpec
CONSTANTS
  FullAt = 2
  MaxId = 5
  MaxResets = 2
CHECK_DEADLOCK FALSE
INVARIANTS
  TypeOK
  EqBounded
  HeldCommand
  Accounted
PROPERTIES
  ImplementsServer
  Answered
