SPECIFICATION FairSpec
CONSTANTS
  Sessions = {s1, s2}
  Hubs = {h1}
  MaxFailures = 2
  NoOwner = NoOwner
INVARIANTS
  TypeOK
  OneOwner
  RegistrationsBalanced
  SessionOutlivesProduct
PROPERTIES
  BegunCloseEnds
CHECK_DEADLOCK FALSE
