SPECIFICATION FairSpec
CONSTANTS
  Keys = {k1, k2}
  Users = {u1, u2, u3}
  NoKey = NoKey
INVARIANTS
  TypeOK
  Exclusion
  GroupIsItsUsers
  NobodySleepsOverTurn
PROPERTIES
  NotOvertaken
  ExclusiveServed
  CloseReturns
CHECK_DEADLOCK FALSE
