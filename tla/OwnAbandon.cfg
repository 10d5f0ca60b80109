SPECIFICATION Spec
CONSTANTS
  Inputs = {i1, i2}
  Pauses = {}
  Abandons = {}
  Retries = {}
  Completions = {}
  TaskIds = {t1, t2}
  NoTask = NoTask
  NoId = NoId
  MaxResident = 2
  MaxSteps = 1
  Limit <- Undisturbed0
SYMMETRY Symmetry
PROPERTY
  AbandonCoversOwnTurn
CHECK_DEADLOCK FALSE
