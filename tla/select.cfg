CONSTANTS
  Prog = {"select", "hello", "answer", "quiz"}
  Conn = {1, 2, 3}
  NoConn = 0
  Fd = {4, 5}
  NoFd = NoFd
  Listen = 3
  MaxSend = 3
  SndBuf = 2
  LineMax = 2
SPECIFICATION FairSpec
CONSTRAINT Bounds
ACTION_CONSTRAINT LowestFirst
CHECK_DEADLOCK FALSE
INVARIANT EndsForACause
PROPERTIES EchoSpec EveryClientIsAccepted
