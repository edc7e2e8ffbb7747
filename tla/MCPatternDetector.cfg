CONSTANTS
  num_frames = 10
  PATTERN_LOCK_LENGTH = 3
SPECIFICATION Spec
INVARIANT FollowsReader
PROPERTY NoDirectRelock
