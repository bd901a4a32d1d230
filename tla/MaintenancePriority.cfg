SPECIFICATION FairSpec
CONSTANT MaxStarts = 3
CHECK_DEADLOCK FALSE
INVARIANTS
  NoRebuildWhileRecording
  PriorityIsBalanced
  InterruptionIsRetried
PROPERTIES
  StartIsServed
  IndexIsPrepared
