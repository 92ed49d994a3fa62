SPECIFICATION Spec
CONSTANTS
  None = None
  FileTabs = {c1}
  FileAttempts = 3
  SshTabs = {c1}
  SshAttempts = 2
  MaxMounts = 3
  MaxReconnects = 2
  MaxDropRetries = 2
  MaxDrops = 2
  MaxChunks = 3
  Sizes <- PaneSizes
  Tiny <- Cramped
  Fresh <- Standard
  Enough <- Proper
  MaxChanges = 4
  Hosts = {c1, c2}
  MaxDials = 2
  MaxChallenges = 2
  Terminals = {c1, c2}
  MaxText = 3
  MaxEdits = 1
CHECK_DEADLOCK FALSE
INVARIANTS
  TabsHaveSessions
  OutputInOrder
  SizeReachesShell
  PromptsReachAttempts
  DraftsKept

  
  
