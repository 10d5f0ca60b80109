SPECIFICATION FairSpec
CONSTANTS
  Jobs = {j1}
  Kinds <- KindsOnce
  Horizon = 0
  Interval = 1
  Grace = 0
  MaxActive = 1
  Faults = {}
  Limit = 0
PROPERTIES CancelledIsCleanedUp
CHECK_DEADLOCK FALSE
