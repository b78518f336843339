\* A ring of three slots that wraps, reads and writes that do not fit it.
SPECIFICATION FairSpec
CONSTANTS
  Capacity = 3
  MaxText = 2
  MaxRead = 2
  MaxBytes = 5
  MaxBatches = 2
INVARIANTS
  TypeOK
  NoLostWakeUp
  BatchesAreTaken
  NothingOverwritten
PROPERTIES
  IsATerminal
  ReadsReturn
  FilesArrive
CHECK_DEADLOCK FALSE
