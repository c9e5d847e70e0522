SPECIFICATION FairSpec
CONSTANTS
  t1 = t1
  t2 = t2
  Nobody = Nobody
  Virq = {0, 1}
  Thread <- MCThread
  FifoLen = 2
  MaxEvents = 3
  MaxKeys = 1
  MaxReboots = 1
  Masks = {0, 128}
INVARIANTS EventsSignalled
PROPERTIES NoReentry EventsHandled
CHECK_DEADLOCK FALSE
