SPECIFICATION FairSpec
CONSTANTS
  NSlot = 2
  PoolSize = 1
  Client = {c1, c2}
  SockLen = 1
  Devs = 1
  MaxReq = 1
  MaxEvent = 1
PROPERTIES
  SendEnds
CHECK_DEADLOCK FALSE
