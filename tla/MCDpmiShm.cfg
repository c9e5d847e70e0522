SPECIFICATION FairSpec
CONSTANTS
  Client = {c1, c2}
  Handle = {h1, h2}
  Objects = {1, 2, 3}
INVARIANTS RefcntExact NoOrphan
PROPERTIES ExlockReleased
CHECK_DEADLOCK FALSE
