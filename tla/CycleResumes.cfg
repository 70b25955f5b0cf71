SPECIFICATION FairSpec
CONSTANTS
  Proc = {"forever", "once"}
  Runner = "forever"
  Calls = {"BUY", "WAIT"}
  MaxClosed = 1
PROPERTY JournalResumes
