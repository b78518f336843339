SPECIFICATION Spec
CONSTANTS
  MaxRuns = 2
  MaxJobs = 2
  Ids = {1, 2}
  Faults = {"lateStart"}
INVARIANTS
  EveryRunIsKept
CHECK_DEADLOCK FALSE
