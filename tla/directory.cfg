CONSTANTS
  Prog = {"sm1122", "mserv"}
  Conn = {1, 2}
  NoConn = 0
  Fd = {4, 5}
  NoFd = 3
  Body = 2
SPECIFICATION FairSpec
CONSTRAINT NotRaced
ACTION_CONSTRAINTS LowestFirst FailsUnderACopy
CHECK_DEADLOCK FALSE
INVARIANTS StraysHaveACause DecodedWhole
PROPERTY PatientClientsChoose
