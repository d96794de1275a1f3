CONSTANTS
  Conn = {c1, c2, c3}
  NoConn = NoConn
  Fd = {f1, f2, f3}
  NoFd = NoFd
  MaxSend = 2
  SndBuf = 1
  Thread = {1, 2, 3, 4}
  NoThread = 0
  MAX_CLNT = 3
SPECIFICATION Spec
SYMMETRY SocketSymmetry
ACTION_CONSTRAINT ThreadsInOrder
CHECK_DEADLOCK FALSE
CONSTRAINTS OneTalker OneHangup
INVARIANTS Accounting SameOrder
