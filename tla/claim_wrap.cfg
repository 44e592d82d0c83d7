SPECIFICATION Spec
CONSTANTS
  Modulus = 32
  Mss = 2
  TcpWnd = 4
  WndUpdateThreshold = 2
  TcpSndBuf = 4
  CwndMax = 10
  DupAcksMax = 4
  Scenarios <- WrapScenarios
  MboxSize = 1
  ChannelMax = 3
INVARIANTS NothingSkipped
CHECK_DEADLOCK FALSE
