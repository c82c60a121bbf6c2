SPECIFICATION Spec
CONSTANTS
  Envs = {e1, e2}
  NumRobots = 1
  Values = {z, a}
  Zero = z
  Supported = {"position", "velocity", "effort"}
  Children = {action_term, views}
  Session = session
  None = none
  Torn = torn
PROPERTY
  UndoneRowsKeepTarget
CHECK_DEADLOCK FALSE
