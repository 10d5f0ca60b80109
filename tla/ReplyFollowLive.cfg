SPECIFICATION FairSpec
CONSTANTS
  Sources = {s1}
  MaxMessages = 4
  MaxEvents = 3
  Limit <- Reloads
INVARIANTS
  NoInputStranded
PROPERTIES
  PendingSettles
CHECK_DEADLOCK FALSE
