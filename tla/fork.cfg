CONSTANTS
  Conn = {1, 2}
  Main = 8
  Logger = 9
  Exit = 10
  NoConn = 0
  Prog = {"ch10", "ch11", "commu", "chat", "kakao"}
  Fd = {5, 6, 7}
  MaxSend = 4
  PieceMax = 3
  FirstRead = 2
  BufUnits = 3
SPECIFICATION FairSpec
CONSTRAINT Bounds
ACTION_CONSTRAINT LowestFirst
CHECK_DEADLOCK FALSE
INVARIANTS ZombiesWereMerged EchoIsTheRest EndsForACause LogIsComplete
PROPERTIES LoggerEnds QuestionsAreAnswered
