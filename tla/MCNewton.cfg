SPECIFICATION Spec
CONSTANTS
  Worlds = {w1, w2}
  MirrorWorld = w1
  Cadences <- MCCadences
  None = None
INVARIANTS
  TypeOK
  FlushDerivesEverything
  ContactsAreFresh
  HistoryAsWritten
CHECK_DEADLOCK FALSE
