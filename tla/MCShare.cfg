SPECIFICATION Spec
CONSTANTS
  p1 = p1
  p2 = p2
  fa = fa
  fb = fb
  Nobody = Nobody
  NoHandle = NoHandle
  Slot = {1}
  Proc = {p1, p2}
  File = {fa, fb}
  Access = {"R", "W", "RW"}
  Deny = {"compat", "all", "write", "read", "none"}
  Ops = {"open", "creat", "unlink", "setattr", "rename"}
  MaxCalls = 2
INVARIANTS DenyRespected MatrixExact ChecksStillHold OnlyRenamesBlock
SYMMETRY Symm
CHECK_DEADLOCK FALSE
