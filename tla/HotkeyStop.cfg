SPECIFICATION Spec
CONSTANTS
  Devices = {d1}
  Keys = {space, esc}
  Escape = esc
  Groups = {{space}}
  MaxKeys = 3
  MaxOthers = 1
  MaxTroubles = 0
CHECK_DEADLOCK FALSE
INVARIANT
  StopIsPrecise
