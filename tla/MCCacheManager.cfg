CONSTANTS
  c1 = c1
  c2 = c2
  c3 = c3
  Caches = {c1, c2, c3}
  DeviceOf <- MCDeviceOf
  SizeMax = 2
  NoCache = NoCache
SPECIFICATION Spec
INVARIANT SlotIsTaken
CHECK_DEADLOCK FALSE
