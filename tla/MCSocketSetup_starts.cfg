SPECIFICATION Spec
CONSTANTS
  p1 = p1
  p2 = p2
  p3 = p3
  Procs <- ThreeProcs
  NoFile = NoFile
  Foreign = Foreign
  MaxStarts = 2
INVARIANTS
  SetupInv
  ReachableAlone
  SomeoneReachable
PROPERTY
  FailureHasReason
CHECK_DEADLOCK FALSE
