CONSTANTS
  Prog = {"uecho", "chat"}
  Client = {1, 2, 3}
  Server = 0
  MaxLine = 2
  MaxFault = 1
SPECIFICATION TalkFairSpec
ACTION_CONSTRAINT LowestFirst
CHECK_DEADLOCK FALSE
INVARIANT EchoOfTheLine
PROPERTY LineIsAnswered
