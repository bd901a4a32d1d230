SPECIFICATION FairSpec
CONSTANTS
  MaxCommands = 3
  MaxLaunches = 3
CHECK_DEADLOCK FALSE
INVARIANTS
  ConfirmedExit
  PastesQuietly
  LifecycleMatches
  WindowsAreWanted
  MissingIsReported
PROPERTY
  SlowHelperIsKilled
