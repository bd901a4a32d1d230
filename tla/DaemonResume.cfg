SPECIFICATION Spec
CONSTANTS
  j1 = j1
  j2 = j2
  NoJob = nobody
  Jobs = {j1}
  MaxFaults = 0
INVARIANT ResumeIsSafe
