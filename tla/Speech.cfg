SPECIFICATION SpFairSpec
CONSTANTS
  Kind = {"asr", "awaken"}
  MailLen = 2
  FbLen = 1
  MaxCmd = 4
INVARIANTS
  IdleIsClean
  DeafOnlyAfterFault
  LateWriteOnlyInStop
PROPERTIES
  StopEnds
CHECK_DEADLOCK FALSE
