SPECIFICATION FairSpec
CONSTANTS
  Size = 3
  Total = 5
  BufLen = 2
  MaxKeys = 1
  Byte <- MCByte
  Nul <- MCNul
  Lf <- MCLf
  Shown <- strdup_crlf
INVARIANTS AreaIsFree NothingLost ReturnsComplete
PROPERTIES RefinesPromise CloseReturns EveryByteShown
