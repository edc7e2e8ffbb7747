CONSTANTS
  w1 = w1
  w2 = w2
  c1 = c1
  c2 = c2
  f1 = f1
  f2 = f2
  Workers = {w1, w2}
  Clients = {c1, c2}
  Finishers = {f1, f2}
  MaxCalls = 3
  JobsPerThread = 1
  max_jobs = 2
SPECIFICATION Spec
SYMMETRY MCSymmetry
INVARIANTS
  TypeOK
  JobsConserved
  RunningCounted
  FinishIsFinal
PROPERTY FifoSpec
CHECK_DEADLOCK FALSE
