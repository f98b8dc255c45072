SPECIFICATION CzFairSpec
CONSTANTS
  Wrap = 3
  MaxReq = 3
  MaxProbe = 1
  QLen = 2
INVARIANTS
  WrongAnswerIsOvertaken
  FrameTried
PROPERTIES
  RequestEnds
CHECK_DEADLOCK FALSE
