CONSTANTS
  t1 = t1
  t2 = t2
  t3 = t3
  f1 = f1
  f2 = f2
  f3 = f3
  e1 = e1
  e2 = e2
  e3 = e3
  Threads = {t1, t2, t3}
  Keys = {f1}
  Entries = {e1}
  NULL = NULL
  NoEntry = NoEntry
  Mode = "CACHE_NO_RESIZE"
  InitialCapacity = 1
  GHOSTS_MIN_CAPACITY = 1
  SizeMax = 1
  LimitChoices <- MCClose
  MaxFailures = 2
SPECIFICATION FairSpec
INVARIANTS
  LockAccounting
  SingleProducer
  HeirExists
PROPERTY WaitersResolved
