CONSTANTS
  Tids = {"int", "fdpp", "sig", "vc"}
  Detached = {"sig"}
  Custom = {"fdpp"}
  CtxH = {"sig", "vc"}
  SigTid = "sig"
  VcTid = "vc"
  Depth = 2
  IntDepth = 2
  FdppDepth = 1
  DosDepth = 3
  MaxSigs = 1
  MaxAcq = 1
  MaxAborts = 1
  MaxReboots = 1
  MaxMishaps = 1
  Mixed = FALSE
SPECIFICATION Spec
INVARIANTS NoFatal CountersExact FramesMatch WakeMeetsSleeper
