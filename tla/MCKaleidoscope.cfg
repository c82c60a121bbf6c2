SPECIFICATION Spec
CONSTANTS
  Envs = {e1, e2}
  NumRobots = 2
  Values = {z, a}
  Zero = z
  Supported = {"position", "velocity", "effort"}
  Children = {action_term, views}
  Session = session
  None = none
  Torn = torn
INVARIANTS
  TypeOK
  EngineFollowsBuffers
PROPERTY
  PositionPairHolds
  FinishedRowsAreReset
CHECK_DEADLOCK FALSE
SYMMETRY RowsAreAlike
