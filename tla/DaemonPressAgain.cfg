SPECIFICATION Spec
CONSTANTS
  j1 = j1
  j2 = j2
  NoJob = nobody
  Jobs <- MCJobs
  MaxFaults = 0
INVARIANT PressAgainStops
