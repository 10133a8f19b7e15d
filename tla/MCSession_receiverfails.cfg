SPECIFICATION Spec
CONSTANTS
  HandlerCap = 1
  PeerCap = 1
  ChanCap = 1
  WireCap = 1
  PipeCap = 1
  NIn = 0
  NOut = 0
  NResize = 0
  Scenes <- NoData
INVARIANTS
  ReceiverNeverFails
CHECK_DEADLOCK FALSE
