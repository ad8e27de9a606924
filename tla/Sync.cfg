SPECIFICATION SyncSpec
CONSTANTS
  PathOrder <- TwoPaths
  LocalTrees <- LocalStart
  RemoteTrees <- RemoteStart
  Folders <- TwoFolders
  Excludes <- Patterns
  Unsafe = {"con"}
  Clock = 30
  MaxSaves = 1
  ListFails = TRUE
INVARIANTS PlanSound 
PROPERTIES LeftAlone
CHECK_DEADLOCK FALSE
