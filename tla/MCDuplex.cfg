SPECIFICATION Spec
CONSTANTS
  HandlerCap = 1
  PeerCap = 1
  ChanCap = 1
  WireCap = 1
  PipeCap = 1
INVARIANTS
  TypeOK
  HaltsOnlyStuck
  OneWayNeverJams
PROPERTIES
  JamIsForever
  EveryStepCounts
CHECK_DEADLOCK FALSE
