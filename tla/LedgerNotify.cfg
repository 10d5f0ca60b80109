SPECIFICATION Spec
CONSTANTS
  Sessions = {s1}
  Commits = {c1, c2}
  input = input
  output = output
  f1 = f1
  Kinds = {input, output}
  Followers = {f1}
  Wakes <- TheWakes
  Direct = {}
  Pollers = {f1}
  Readers = {r1}
  MaxRewrites = 1
  NoHeads = NoHeads
  NoView = NoView
  Nobody = Nobody
SYMMETRY Symmetry
INVARIANTS
  TypeOK
  CacheIsCommitted
  NothingMissed
  ReceiptsAreTrue
  SnapshotsAreTrue
