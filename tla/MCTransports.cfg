CONSTANTS
  Orders <- SomeOrders
  Clients = {c1, c2}
  MaxConnections = 1
  MaxLines = 2
SPECIFICATION FairSpec
INVARIANTS
  TypeOK
  StoppedIsSilent
PROPERTIES
  CloseEnds
CHECK_DEADLOCK FALSE
