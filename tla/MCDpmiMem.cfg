CONSTANTS
  LowPages = 1
  LinPages = 3
  PoolPages = 7
  TailPages = 0
  Total = 6
  Reserved = 1
  StackPages = 1
  Sizes <- SomeSizes
  Bases <- SomeBases
  Ranges <- SomeRanges
  MaxClients = 2
  MaxHandle = 4
  MaxFaults = 1
SPECIFICATION Spec
INVARIANTS Accounted Tiled ContentsKept Protected
CHECK_DEADLOCK FALSE
