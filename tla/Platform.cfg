SPECIFICATION Spec
CONSTANTS
  Sinks = {"a", "b"}
  MaxJobs = 2
  MaxTroubles = 1
  Devices = {"d1", "d2"}
  Settings = {{"microphone"}, {"system_audio"}}
  RestartAfter = 1
  CheckAfter = 2
  MaxStarts = 1
  Shortcuts = {{"d1", "d2"}, {"d1"}}
  MaxChanges = 2
  Windows = {"w1", "w2"}
  MaxDeliveries = 2
  MaxMoves = 3
  MaxGestures = 4  MaxCalls = 4
INVARIANTS
  AudioIsGivenBack
  ShortcutIsHeard
PROPERTIES
  KeysGoWhereMeant
  ImplementsDelivery
CHECK_DEADLOCK FALSE
