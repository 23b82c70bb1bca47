\* Stale records whose path a folding filesystem finds under another spelling.
SPECIFICATION Spec
CHECK_DEADLOCK FALSE
CONSTANTS
  root = root
  T = T
  m = m
  d = d
  e = e
  g = g
  f = f
  t = t
  same = same
  alike = alike
  longer = longer
  here = here
  there = there
  None = None
  NoMtime = NoMtime
  SizeOf <- MCSizeOf
  Window = 0
  LinkMtimes = TRUE
  OwnerWriteOnly = FALSE
  Writable = {"rw"}
  Readable = {"rw", "ro"}
  Data <- MCData
  Modes = {"rw", "ro", "no"}
  Paths <- MCPaths
  Root = root
  Up <- MCUp
  LeafKey <- MCLeafKey
  DirKey <- MCDirKey
  Twin <- MCTwin
  Points <- MCPoints
  Windows = FALSE
  Opened <- MCOpened
  Umask = "rw"
  Now = 6
  Uploaded = 5
  Worlds <- MCFolded
INVARIANT
  StaleLeftAsItIs
