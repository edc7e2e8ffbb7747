CONSTANTS
  w1 = w1
  w2 = w2
  c1 = c1
  c2 = c2
  f1 = f1
  f2 = f2
  Workers = {w1}
  Clients = {c1, c2}
  Finishers = {f1}
  MaxCalls = 3
  JobsPerThread = 1
  max_jobs = 2
SPECIFICATION FairSpec
PROPERTIES
  FinishReturns
  QueueJobReturns
  WaitResolved
CHECK_DEADLOCK FALSE
