SPECIFICATION Spec
CONSTANTS
  Dev = {1, 8, 12}
  Commands = {32, 160}
  Data = {0, 20}
  Elcr = {0, 16}
INVARIANTS OutputsCurrent
PROPERTIES EoiEndsLatest SpuriousOnlyIfWithdrawn
CHECK_DEADLOCK FALSE
