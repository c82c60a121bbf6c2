CONSTANTS
  Clients = {c1, c2}
  RequestIds = {r1, r2, r3}
  Tickets = {1, 2}
  Capacity = 2
  TerminalCapacity = 2
  MotionTicks = 2
  IdleTicks = 2
  RampTicks = 2
  NoRequest = NoRequest
  NoTicket = NoTicket
SYMMETRY Symmetry
SPECIFICATION Spec
CHECK_DEADLOCK FALSE
INVARIANTS
  TypeOK
  ActiveMatchesOwner
  EstopBoundsPhysics
  EstopBoundsMutations
  StoppedIsQuiet
PROPERTIES
  ImplementsLifecycle
  NothingBeginsAfterFatal
