SPECIFICATION FairSpec
CONSTANTS
  j1 = j1
  j2 = j2
  NoJob = nobody
  Jobs = {j1}
  MaxFaults = 2
PROPERTIES
  HandlersReturn
  DeliveredIsCompleted
  QuarantineIsResolved
  InterruptedIsOffered
