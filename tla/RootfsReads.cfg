SPECIFICATION FairSpec
CONSTANTS
  Names = {a, b}
  Large = {b}
  KeepBytes = 2
  MaxRestores = 2
  MaxReads = 2
  Retries = 1
  Timeout = 2
  Cap = 1
INVARIANTS
  FilesAreRight GuestClockIsRight HungGuestExpires
PROPERTIES
  ExpiresForCause ReadsSettle
CHECK_DEADLOCK FALSE
