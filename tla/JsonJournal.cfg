SPECIFICATION FairSpec
CONSTANTS
  Proc = {"forever", "health", "history"}
  NoProc = "nobody"
  Does <- OneWriter
  Inode = {1, 2, 3, 4}
  NoInode = 0
  MaxRecords = 2
  MaxReports = 3
PROPERTIES ReadsAreCurrent ImplementsJournal LockIsGranted
