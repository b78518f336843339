SPECIFICATION Spec
CONSTANTS
  MaxRuns = 2
  MaxJobs = 2
  Ids = {1, 2, 3, 4}
  Faults = {"bundle", "build", "cold", "restore", "crash", "refuse", "garbled", "files", "version", "fetch", "hide"}
INVARIANTS
  TypeOK EveryRunIsKept StartsAndStops MachineIsRight
PROPERTIES
  LeavesTheTableTwice KeepsItsPromise
CHECK_DEADLOCK FALSE
