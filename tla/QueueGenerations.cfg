SPECIFICATION Spec
CONSTANTS
  NONE = NONE
  j1 = j1  j2 = j2
  c1 = c1  c2 = c2
  s1 = s1  s2 = s2
  w1 = w1
  t1 = t1  t2 = t2
  Tasks <- MCTasks
  Jobs <- MCJobs2
  Conns <- MCConns2
  Sessions <- MCSessions2
  Windows <- MCWindows
  MaxBatch = 1
SYMMETRY Symmetry
INVARIANTS
  GenerationsSound
PROPERTIES
  CompletedOnlyOnLiveBinding
  CancelSticks
