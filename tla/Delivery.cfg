SPECIFICATION FairSpec
CONSTANTS
  d1 = d1
  d2 = d2
  Deliveries <- D
  Passive <- First
  Idempotent <- First
  Guarded <- Second
  Faults = {"crash","interrupt","error","cancel","retry"}
  Limit = 2
INVARIANTS TypeOK UnsettledIsWanted SavesAreCurrent
PROPERTIES ImplementsPromise DeliverySettles
CHECK_DEADLOCK FALSE
