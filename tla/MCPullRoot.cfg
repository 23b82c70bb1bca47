\* Pulls of one path with up to three failures, interruptions or kills.
SPECIFICATION Spec
CHECK_DEADLOCK FALSE
CONSTANTS
  same = same
  alike = alike
  longer = longer
  here = here
  there = there
  None = None
  NoMtime = NoMtime
  SizeOf <- MCSizeOf
  Window = 0
  LinkMtimes = TRUE
  OwnerWriteOnly = FALSE
  Writable = {"rw"}
  Readable = {"rw", "ro"}
  Data <- MCData
  Modes = {"rw", "ro", "no"}
  Opened <- MCOpened
  Umask = "rw"
  Now = 6
  Worlds <- MCWorlds
INVARIANTS
  FailedKeepsRoot
  RootRestored
  LeftAlone
PROPERTY
  Replaces
