SPECIFICATION FairSpec
CONSTANTS
  MaxRuns = 2
  MaxJobs = 2
  Ids = {1, 2}
  Faults = {"restore", "crash", "lateStart"}
PROPERTIES
  StopSettles
  RunIsDecidedOrRetried
CHECK_DEADLOCK FALSE
