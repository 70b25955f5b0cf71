SPECIFICATION FairSpec
CONSTANTS
  Proc = {"forever", "once"}
  Runner = "forever"
  Calls = {"BUY", "WAIT", "TAKE_PROFIT"}
  MaxClosed = 2
PROPERTIES PaperFollowsJournal  CloseMadeUp MonitoringContinues StopHonoured
