CONSTANTS
  a = a
  x = x
  b = b
  FrameLen = 2
  BufSize = 3
  Bytes <- MCBytes
  Starts <- MCStarts
  RecvMax = 4
  Fds = {1, 2, 3}
  NoFd = 0
SPECIFICATION TcpFairSpec
INVARIANTS TcpTypeOK FramesRecovered ForeignOnlyAtExit DescriptorsReturned
PROPERTY PollerJoined
CHECK_DEADLOCK FALSE
