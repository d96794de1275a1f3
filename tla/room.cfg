CONSTANTS
  Conn = {c1, c2, c3}
  NoConn = NoConn
  MAX_CLNT = 3
  MaxRoom = 1
  NoRoom = NoRoom
  MaxSend = 3
SPECIFICATION Spec
SYMMETRY Symmetry
CHECK_DEADLOCK FALSE
INVARIANTS TypeOK Directory
PROPERTIES OwnRoomOnly WholeRoom StrangersHearRoomZero
CONSTRAINTS OneInFlight OneTalks OneLeaves
