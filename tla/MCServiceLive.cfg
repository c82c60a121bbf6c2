CONSTANTS
  Clients = {c1, c2}
  RequestIds = {r1, r2}
  Tickets = {1, 2}
  Capacity = 1
  TerminalCapacity = 1
  MotionTicks = 1
  IdleTicks = 1
  RampTicks = 1
  NoRequest = NoRequest
  NoTicket = NoTicket
SPECIFICATION FairSpec
CHECK_DEADLOCK FALSE
PROPERTIES
  AcceptedIsAnswered
  QuitStops
