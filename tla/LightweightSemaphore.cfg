CONSTANTS
  Thread = {t1, t2, t3}
  Spin = 1
  MaxSignals = 3
SPECIFICATION FairSpec
INVARIANTS SemaInv
PROPERTIES ImplementsCountingSemaphore NoLostWakeup
CHECK_DEADLOCK FALSE
