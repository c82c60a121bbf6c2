\* Four ids for two admission slots and two retained answers: ids are evicted
\* and used again.
CONSTANTS
  RequestIds = {r1, r2, r3, r4}
  Operations = {"guarded", "free"}
  GuardedOperations = {"guarded"}
  Tickets = {t}
  Capacity = 2
  TerminalCapacity = 2
  NoRequest = NoRequest
  NoTicket = NoTicket
SYMMETRY Symmetry
SPECIFICATION Spec
INVARIANTS
  TypeOK
  OneHome
  EstopHolds
PROPERTY NoAnswerLost
