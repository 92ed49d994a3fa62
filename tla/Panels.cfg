SPECIFICATION Spec
CONSTANTS
  Conns = {c1, c2}
  None = None
  Panels = {"trend", "processes", "gpu"}
  MaxEffects = 3
  Retries = 1
  MaxLost = 2
  MaxKills = 1
  Discoverable = {f1}
  Custom = {p1}
  MaxChoices = 4
  Marks = {m1}
  MaxSessions = 2
  MaxMoves = 3
  Empty = Empty
  MaxEdits = 1
  MaxSaves = 2
  MaxLoads = 2
  Dialogs = {"sync", "directory"}
  Configs <- SomeConfigs
  Trees <- SomeTrees
  Dir = Dir
  MaxScopes = 2
  MaxRuns = 2
  MaxFailures = 1
CHECK_DEADLOCK FALSE
INVARIANTS
  
  SyncKeepsItsWord
PROPERTIES
  PanelsCatchUp
  CancelStops
  BusyEnds
