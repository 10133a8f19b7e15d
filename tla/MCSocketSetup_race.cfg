SPECIFICATION Spec
CONSTANTS
  p1 = p1
  p2 = p2
  p3 = p3
  Procs <- TwoProcs
  NoFile = NoFile
  Foreign = Foreign
  MaxStarts = 2
INVARIANT
  RunningIsReachable
CHECK_DEADLOCK FALSE
