SPECIFICATION FairSpec
CONSTANTS
  MaxTicks = 2
  MaxBurst = 2
  MaxLatches = 2
  MaxDepth = 2
  Tweaks = {TRUE, FALSE}
  AutoEoi = FALSE
  Masks <- SomeMasks
  Nobody = Nobody
INVARIANTS TickInOnePlace ServiceEnds
PROPERTIES TicksDrain
CHECK_DEADLOCK FALSE
