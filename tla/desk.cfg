CONSTANTS
  Conn = {1, 2, 3}
  NoConn = 0
  Id = {i1, i2}
  NoId = NoId
  OtherId = i2
  BufRecs = 1
  MaxWrong = 1
SPECIFICATION FairSpec
CHECK_DEADLOCK FALSE
CONSTRAINT Roles
INVARIANTS TypeOK InStep LossHasACause SearchIsComplete DeathHasACause
PROPERTY WaitingIsServed
