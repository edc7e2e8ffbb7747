CONSTANTS
  t1 = t1
  t2 = t2
  c1 = c1
  f1 = f1
  f2 = f2
  f3 = f3
  f4 = f4
  b1 = b1
  b2 = b2
  Threads = {t1, t2}
  Caches = {c1}
  Frames = {f1, f2, f3}
  Buffers = {b1, b2}
  Sizes = {2, 3}
  MemoryLimit = 4
  free_thresh = 1
  NoFrame = NoFrame
  NoBuffer = NoBuffer
  NoThread = NoThread
SPECIFICATION Spec
SYMMETRY MCSymmetry
INVARIANTS
  TypeOK
  CountsExact
  NothingDangles
  NoBufferLost
  WriterIsAlone
PROPERTY ClosingKeepsFrames
