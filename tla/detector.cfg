CONSTANTS
  w1 = w1
  w2 = w2
  Procs <- MCProcs
  Period <- MCPeriod
  Limit <- MCLimit
  MaxTime = 25
SPECIFICATION Spec
INVARIANT DetectedInTime
CHECK_DEADLOCK FALSE
