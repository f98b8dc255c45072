SPECIFICATION NetFairSpec
CONSTANTS
  Client = {c1, c2}
  SockLen = 1
  MaxWork = 2
INVARIANTS
  InOrder
  NoReplyLost
PROPERTIES
  EveryoneAnswered
  ExitEnds
CHECK_DEADLOCK FALSE
