CONSTANTS
  t1 = t1
  t2 = t2
  t3 = t3
  a = a
  b = b
  d1 = d1
  d2 = d2
  d3 = d3
  Threads = {t1, t2, t3}
  Names = {a, b}
  Nodes = {d1, d2, d3}
  NoNode = NoNode
  NoThread = NoThread
SPECIFICATION Spec
INVARIANTS
  MutualExclusion
  NoDanglingIterator
  UsersCounted
  Reclaimed
PROPERTY LocksSpec
