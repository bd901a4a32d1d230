SPECIFICATION Spec
CONSTANTS
  j1 = j1
  j2 = j2
  NoJob = nobody
  Jobs <- MCJobs
  MaxFaults = 2
SYMMETRY MCSymmetry
INVARIANTS
  TypeOK
  AttemptIsRemembered
  RecordingIsKept
  NothingVanishes
  DeliveredIsRecorded
  ErasedStaysErased
  RowOrSession
  MicIsOwned
PROPERTY NoBlindRepaste ImplementsContract
