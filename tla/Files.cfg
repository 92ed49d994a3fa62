SPECIFICATION Spec
CONSTANTS
  None = None
  Sessions = {c1, c2}
  MaxLoads = 2
  MaxHistory = 2
  Depth = 2
  MaxMoves = 2
  MaxFailures = 1
  Local <- Drops
  Tree <- Dropped
  Shows <- Folders
  MaxDrops = 2
  FtpPanels = {"remote"}
  MaxItems = 2
  MaxTries = 2
  MaxRefreshes = 1
  Sizes = {1, 4}
  Chunk = 2
  MaxDepth = 3
  MaxResizes = 1
  Names = 2
  Taken = {1}
  MaxRuns = 4
  MaxOthers = 1
CHECK_DEADLOCK FALSE
INVARIANTS
  
  DropsArriveWhole
  OutcomesAreTrue

  
  
