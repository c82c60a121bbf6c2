CONSTANTS
  NumRobots = 2
  Modes = {"position", "effort"}
  Poses = {home, p1}
  Home = home
  Torn = Torn
  Default = Default
  Hybrid = Hybrid
  NoSnapshot = NoSnapshot
  MaxSwitches = 1
  MaxTares = 1
  MaxResets = 2
SPECIFICATION Spec
CHECK_DEADLOCK FALSE
INVARIANTS
  TypeOK
  ModeAgrees
  TareIsFresh
PROPERTIES
  IsAtomic
