SPECIFICATION FairSpec
CONSTANTS
  HandlerCap = 1
  PeerCap = 1
  ChanCap = 1
  WireCap = 1
  PipeCap = 1
  NIn = 1
  NOut = 1
  NResize = 0
  Scenes <- OneChunk
PROPERTIES
  StdinIsFifo
  StdoutIsFifo
  LoginReturns
  OutputArrives
CHECK_DEADLOCK FALSE
