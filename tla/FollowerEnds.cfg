SPECIFICATION Spec
CONSTANTS
  Inputs = {i1, i2}
  Pauses = {p1}
  Abandons = {}
  Retries = {}
  Completions = {}
  TaskIds = {t1, t2}
  NoTask = NoTask
  NoId = NoId
  MaxResident = 2
  MaxSteps = 2
  Limit <- FailAndCancel
SYMMETRY Symmetry
INVARIANT
  FollowerSurvives
CHECK_DEADLOCK FALSE
