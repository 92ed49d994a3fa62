SPECIFICATION Spec
CONSTANTS
  NONE = NONE  UI = UI
  k1 = k1  k2 = k2
  p1 = p1  p2 = p2
  Sockets <- MCSockets2
  Ptys <- MCPtys2
  LocalId = FALSE
  Overlap = TRUE
CHECK_DEADLOCK FALSE
INVARIANTS
  OldReadersTornDown
