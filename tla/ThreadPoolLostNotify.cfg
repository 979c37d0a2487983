CONSTANTS
  Workers = {w1, w2}
  Dispatcher = dispatcher
  Clients = {owner}
  Owner = owner
  NoThread = NoThread
  NoThunk = NoThunk
  MaxThunks = 2
  MaxWaits = 1
SPECIFICATION FairMutexSpec
PROPERTY ScheduledRuns
