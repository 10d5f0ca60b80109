SPECIFICATION Spec
CONSTANTS
  Sources = {s1}
  MaxMessages = 4
  MaxEvents = 3
  Limit <- Failures
INVARIANTS
  TypeOK
  RepliesAreWatched
  HeadsReachDispatch
PROPERTIES
  ImplementsPromise
CHECK_DEADLOCK FALSE
