CONSTANTS
  Tids = {"int", "sig", "vc"}
  Detached = {"sig"}
  Custom = {}
  CtxH = {"sig", "vc"}
  SigTid = "sig"
  VcTid = "vc"
  Depth = 2
  IntDepth = 1
  FdppDepth = 1
  DosDepth = 2
  MaxSigs = 1
  MaxAcq = 1
  MaxAborts = 0
  MaxReboots = 0
  MaxMishaps = 0
  Mixed = FALSE
SPECIFICATION FairSpec
PROPERTY SwitchHappens
