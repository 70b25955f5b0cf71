SPECIFICATION Spec
CONSTANTS
  Proc = {"forever", "once"}
  NoProc = "nobody"
  Does <- TwoWriters
  Inode = {1, 2, 3, 4}
  NoInode = 0
  MaxRecords = 2
  MaxReports = 3
INVARIANTS LockExclusive
