CONSTANTS
  Workers = {w1, w2}
  Dispatcher = dispatcher
  Clients = {owner, client}
  Owner = owner
  NoThread = NoThread
  NoThunk = NoThunk
  MaxThunks = 3
  MaxWaits = 1
SPECIFICATION FairSpec
INVARIANTS
  TypeOK
  FifoQueue
  EachThunkOnce
  NoStrandedWait
  DtorWakesEveryone
  DestroyedIsDrained
PROPERTIES
  ImplementsTaskPool
  DtorReturns
  AwakeWorkerDrains
