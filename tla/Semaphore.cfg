CONSTANTS
  Threads = {t1, t2, t3}
  NoThread = NoThread
  Initial = 0
  MaxSignals = 5
  MaxWaits = 5
SPECIFICATION FairSpec
CHECK_DEADLOCK FALSE
INVARIANTS TypeOK NoSleeperWithPermit
PROPERTIES ImplementsAtomic WaitReturns
