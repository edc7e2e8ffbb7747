CONSTANTS
  t1 = t1
  t2 = t2
  Threads = {t1, t2}
  num_audio_samples = 4
  Requests <- MCRequests
  Hints <- MCHints
  Block = 2
  DefaultSize = 2
  AutoMax = 1
  MaxSize = 2
  BufferMax = 3
  ScoreStart = 1
  ScoreOff = 0
  ScoreMax = 1
  ScoreMin <- MCScoreMin
  Silence = Silence
  Junk = Junk
  None = None
  NoThread = NoThread
SPECIFICATION Spec
SYMMETRY MCSymmetry
INVARIANTS
  WindowIsRight
  InBounds
  RightSamples
