SPECIFICATION Spec
CONSTANTS
  Devices = {d1}
  Keys = {space, esc}
  Escape = esc
  Groups = {{space}}
  MaxKeys = 5
  MaxOthers = 1
  MaxTroubles = 1
CHECK_DEADLOCK FALSE
INVARIANTS
  GateIsHonest
  HoldEndsWithRelease
  CancelIsHonoured
  BounceNeverStops
