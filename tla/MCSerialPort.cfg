SPECIFICATION FairSpec
CONSTANTS
  RxBufferSize = 2
  TxThreshold = 0
  TimeoutRx = 1
  Triggers = {2}
  MaxBytes = 3
  MaxTx = 1
  MaxHups = 0
  Iers <- SomeIers
  Mcrs <- SomeMcrs
  Lsrs <- SomeLsrs
  Configs <- SomeConfigs
  CtsLevels = {TRUE}
INVARIANTS NoLostInterrupt Announced
PROPERTIES EveryByteRead TransmitterReady
CHECK_DEADLOCK FALSE
