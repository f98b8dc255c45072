SPECIFICATION Spec
CONSTANTS
  NSlot = 2
  PoolSize = 1
  Client = {c1, c2, c3}
  SockLen = 1
  Devs = 0
  MaxReq = 2
  MaxEvent = 1
INVARIANTS
  NoAnswerLost
  NoLostWakeup
PROPERTIES
  AnswersInOrder
  OthersOnlyFromTheGone
SYMMETRY Symmetry
CHECK_DEADLOCK FALSE
