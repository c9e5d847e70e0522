SPECIFICATION Spec
CONSTANTS
  p1 = p1
  p2 = p2
  fa = fa
  fb = fb
  Nobody = Nobody
  NoHandle = NoHandle
  Slot = {1}
  Proc = {p1, p2, p3}
  File = {fa}
  Access = {"R", "W"}
  Deny = {"compat", "write"}
  Ops = {"open"}
  MaxCalls = 1
INVARIANTS PairsAdmitted
CHECK_DEADLOCK FALSE
