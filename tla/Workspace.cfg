SPECIFICATION Spec
CONSTANTS
  None = None
  Tabs = {t1, t2, t3}
  MaxGroup = 4
  MaxPage = 3
  MaxPane = 5
  Shares <- SomeShares
  Pages = {"p1", "p2"}
  ListRows = {"r1", "r2"}
  MaxPresses = 4
  Zones = {1, 2}
  MaxHandlers = 3
  Themes = {"dark", "light"}
  Palettes = {"system", "nordic"}
  DefaultTheme = "dark"
  DefaultPalette = "system"
  MaxOpens = 3
  StoredIds = {"a", "b", "c"}
  NewIds = {"c"}
  Old = {"a"}
  Names = {"x", "y"}
  MaxDepth = 2
  MaxFolders = 3
  MaxEdits = 3
SYMMETRY TabSymmetry
CHECK_DEADLOCK FALSE
INVARIANTS
  
  TreesAreSound
  DragsEndClean
  HandlersAccounted
  
  
PROPERTIES
  SessionsStay
  MovesAreLocal
