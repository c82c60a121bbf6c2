CONSTANTS
  Orders <- TcpAlone
  Clients = {c1}
  MaxConnections = 1
  MaxLines = 0
SPECIFICATION FairSpec
PROPERTIES
  RequestIsRead
CHECK_DEADLOCK FALSE
