SPECIFICATION Spec
CONSTANTS
  o1 = o1
  o2 = o2
  me = me
  n1 = n1
  n2 = n2
  Opens <- TwoOpens
  Names <- MCNames
  MyName = me
  NoName = NoName
  PipeCap = 2
  NTyped = 0
  NErr = 0
  NLeft = 1
INVARIANTS
  TypeOK
  NodeIsMine
  NamesAgree
  SuccessIsConnected
PROPERTY
  ImplementsIntroduction
SYMMETRY Interchangeable
CHECK_DEADLOCK FALSE
