SPECIFICATION FairSpec
CONSTANTS
  Jobs = {j1}
  Kinds <- Kinds2
  Horizon = 1
  Interval = 1
  Grace = 0
  MaxActive = 1
  Faults = {"crash", "stop", "error"}
  Limit = 1
INVARIANTS TypeOK PendingIsCurrent FiresAreHonest CountsAreDeliveries WithdrawnIsTold
PROPERTIES FiresSettleOnce DueIsFired
CHECK_DEADLOCK FALSE
