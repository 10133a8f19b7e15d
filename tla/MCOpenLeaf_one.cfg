SPECIFICATION FairSpec
CONSTANTS
  o1 = o1
  o2 = o2
  me = me
  n1 = n1
  n2 = n2
  Opens <- OneOpen
  Names <- MCNames
  MyName = me
  NoName = NoName
  PipeCap = 2
  NTyped = 2
  NErr = 1
  NLeft = 2
INVARIANTS
  InStep
  OneOwner
PROPERTY
  OpenReturns
CHECK_DEADLOCK FALSE
