\* Pulls on Windows: the writable prep and its way back, dangling links.
SPECIFICATION Spec
CHECK_DEADLOCK FALSE
CONSTANTS
  root = root
  T = T
  m = m
  d = d
  e = e
  g = g
  f = f
  t = t
  same = same
  alike = alike
  longer = longer
  here = here
  there = there
  None = None
  NoMtime = NoMtime
  SizeOf <- MCSizeOf
  Window = 0
  LinkMtimes = FALSE
  OwnerWriteOnly = TRUE
  Writable = {"rw"}
  Readable = {"rw", "ro"}
  Data <- MCData
  Modes = {"rw", "ro", "no"}
  Paths <- MCPaths
  Root = root
  Up <- MCUp
  LeafKey <- MCLeafKey
  DirKey <- MCDirKey
  Twin <- MCTwin
  Points <- MCPoints
  Windows = TRUE
  Opened <- MCOpened
  Umask = "rw"
  Now = 6
  Uploaded = 5
  Worlds <- MCSealed
INVARIANT
  RestoredOnWindows
