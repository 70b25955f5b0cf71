SPECIFICATION FairSpec
CONSTANTS
  Proc = {"forever", "once"}
  NoProc = "nobody"
  Regular = {"forever"}
  Timeout = 1
  HttpRetries = 2
  Backoff = 1
  MaxWait = 2
  StaleAfter = 4
  MaxKills = 1
  RemoveMayFail = TRUE
INVARIANTS MutualExclusion FileIsTheLock BreachIsLate
PROPERTIES WaitEnds OrphanReclaimed
