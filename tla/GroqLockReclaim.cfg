SPECIFICATION Spec
CONSTANTS
  Proc = {"forever", "once"}
  NoProc = "nobody"
  Regular = {"forever"}
  Timeout = 1
  HttpRetries = 2
  Backoff = 1
  MaxWait = 2
  StaleAfter = 7
  MaxKills = 0
  RemoveMayFail = FALSE
PROPERTIES ActiveLockNeverReclaimed
