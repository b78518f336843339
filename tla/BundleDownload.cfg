SPECIFICATION FairSpec
CONSTANTS
  Loads = {l1}
  Prefetches = {f1}
  MaxDownloads = 2
  MaxRetries = 1
  Faults = {"offline", "old", "refused", "broken", "corrupt", "noLib", "late", "leave", "full", "otherTab"}
INVARIANTS
  CallersAreHeard FilesAreSafe
PROPERTIES
  InUseFilesStay OnlyLibIsAwaited
CHECK_DEADLOCK FALSE
