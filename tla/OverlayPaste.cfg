SPECIFICATION Spec
CONSTANTS
  MaxCommands = 3
  MaxLaunches = 2
CHECK_DEADLOCK FALSE
INVARIANT
  PasteAfterExit
