SPECIFICATION Spec
CONSTANTS
  Inputs = {i1, i2}
  Pauses = {p1}
  Abandons = {}
  Retries = {r1}
  Completions = {c1}
  TaskIds = {t1, t2}
  NoTask = NoTask
  NoId = NoId
  MaxResident = 1
  MaxSteps = 1
  Limit <- FailAndResend
SYMMETRY Symmetry
INVARIANTS
  ReadersAgree
PROPERTIES
  DeliveriesYield
  ImplementsPromise
CHECK_DEADLOCK FALSE
