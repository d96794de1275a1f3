CONSTANTS
  Conn = {1, 2, 3}
  NoConn = 0
  Fd = {4, 5, 6}
  NoFd = 0
  MaxSend = 2
  SndBuf = 1
  Thread = {1, 2, 3}
  NoThread = 0
  MAX_CLNT = 3
SPECIFICATION FairSpec
ACTION_CONSTRAINT LowestFirst
CHECK_DEADLOCK FALSE
CONSTRAINTS TwoMessages OneHangup
INVARIANTS Directory
PROPERTIES RoomSpec EverybodyIsServed
