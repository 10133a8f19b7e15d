SPECIFICATION Spec
CONSTANTS
  HandlerCap = 1
  PeerCap = 1
  ChanCap = 1
  WireCap = 1
  PipeCap = 1
  NIn = 1
  NOut = 0
  NResize = 0
  Scenes <- OneChunk
INVARIANTS
  RouterNeverFails
CHECK_DEADLOCK FALSE
