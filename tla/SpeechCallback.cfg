SPECIFICATION SpSpec
CONSTANTS
  Kind = {"asr", "awaken"}
  MailLen = 2
  FbLen = 1
  MaxCmd = 4
INVARIANTS
  NotClosedInCallback
CHECK_DEADLOCK FALSE
