SPECIFICATION FairSpec
CONSTANTS
  NONE = NONE
  j1 = j1  j2 = j2
  Jobs <- MCJobs2
  Natives = {j2}
  MaxBatch = 2
  MaxOthers = 0
CHECK_DEADLOCK FALSE
PROPERTIES
  SubmissionsSettle
