CONSTANTS
  MaxImages = 2
  MaxEdits = 1
  MaxFaults = 2

SPECIFICATION ReleaseSpec

INVARIANTS
  EntryIsGood
  PinsAreGood
  FetchIsRight

CHECK_DEADLOCK FALSE
