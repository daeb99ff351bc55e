SPECIFICATION Spec
CONSTANTS
  Mistyped = Mistyped
  None = None
  NoLock = NoLock
  TornLock = TornLock
  Scrap = Scrap
  NoMessage = NoMessage
  up = up
  fork = fork
  c1 = c1
  c2 = c2
  main = main
  Url <- MCUrl
  Commit <- MCCommit
  Branch = {main}
  Files <- MCFiles
  Has <- MCHas
  Fits <- MCFits
  PatchDirs <- MCPatchDirs
  Series <- MCSeries
  Descs <- MCDescs
  Options <- MCOptions
  MaxEdits = 1
INVARIANTS TypeOK SuccessPinned CommitRecords WritesInside
PROPERTIES PinKept PinFollowsTree CommitKeepsSeries
CHECK_DEADLOCK TRUE
