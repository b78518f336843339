SPECIFICATION FairSpec
CONSTANTS
  MaxMade = 4
  MaxMsgs = 4
  Batch = 1
  MaxReported = 3
  MaxSessions = 2
  Faults = {"quota"}
INVARIANTS
  FoldersAgree
PROPERTIES
  FoldersSettle
CHECK_DEADLOCK FALSE
