SPECIFICATION Spec
CONSTANTS
  HandlerCap = 1
  PeerCap = 1
  ChanCap = 1
  WireCap = 1
  PipeCap = 1
  NIn = 2
  NOut = 2
  NResize = 2
  Scenes <- Sessions
INVARIANTS
  TypeOK
  EnvBeforeSpawn
  LogoutAfterChild
  CleanLogout
  TerminalRestored
  StaysWithoutCommand
  LateResizeKept
PROPERTIES
  StdinIsFifo
  StdoutIsFifo
  ImplementsRun
CHECK_DEADLOCK FALSE
