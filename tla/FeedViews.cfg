SPECIFICATION Spec
CONSTANTS
  NONE = NONE
  j1 = j1  j2 = j2
  Jobs <- MCJobs2
  Natives <- NoJobs
  MaxBatch = 2
  MaxOthers = 1
CHECK_DEADLOCK FALSE
SYMMETRY Symmetry
INVARIANTS
  ViewCatchesUp
  PromiseIsTrue
  RecordsAgree
PROPERTIES
  NoRollback
