CONSTANTS
  Conn = {c1, c2, c3}
  NoConn = NoConn
  Fd = {f1, f2, f3}
  NoFd = NoFd
  MaxSend = 2
  SndBuf = 1
  Thread = {t1, t2, t3}
  NoThread = NoThread
  MAX_CLNT = 3
SPECIFICATION Spec
SYMMETRY Symmetry
CHECK_DEADLOCK FALSE
CONSTRAINTS TwoMessages OneHangup
PROPERTY SendToAll
