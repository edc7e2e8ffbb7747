CONSTANTS
  c1 = c1
  c2 = c2
  w1 = w1
  w2 = w2
  Callers = {c1, c2}
  Workers = {w1}
  num_frames = 2
  nPrefetchFrames = 1
  QueueCapacity = 1
  MaxCalls = 3
  Strides <- MCStrides
  Frames <- MCFrames
SPECIFICATION FairSpec
INVARIANTS
  HandlesOwned
  WorkersCounted
  OverlapBound
PROPERTIES
  KeepsContract
  GetFrameComesBack
CHECK_DEADLOCK FALSE
