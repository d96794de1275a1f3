CONSTANTS
  Prog = {"calc", "string", "echo", "kakao"}
  Conn = {1, 2, 3}
  NoConn = 0
  Turns = 2
  Rounds = 2
  MaxCount = 2
  LengthUnits = 2
  Numbers = 2
  Halvings = 1
SPECIFICATION FairSpec
ACTION_CONSTRAINT LowestFirst
CONSTRAINT Bounds
CHECK_DEADLOCK FALSE
INVARIANTS TypeOK AnswersAreOwn EndsForACause
PROPERTY AskedIsAnswered
