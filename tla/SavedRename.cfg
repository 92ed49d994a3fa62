SPECIFICATION Spec
CONSTANTS
  Ids = {c1, c2}
  Fresh = {}
  Old = {}
  Names = {a, b}
  MaxDepth = 2
  MaxFolders = 3
  MaxEdits = 2
  None = None
PROPERTY RenameKeepsAll
CHECK_DEADLOCK FALSE
