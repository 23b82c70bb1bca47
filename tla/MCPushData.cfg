\* What the comparisons decide, on a POSIX platform.
SPECIFICATION Spec
CONSTANTS
  small = small
  other = other
  large = large
  NoSize = NoSize
  here = here
  there = there
  None = None
  NoMtime = NoMtime
  SizeOf <- MCSizeOf
  Window = 1
  LinkMtimes = TRUE
  OwnerWriteOnly = FALSE
  Writable = {"rw", "rx"}
  N = 3
  DirKeys = {1, 2}
  LastBeneath <- MCLast
  SubDir = 2
  SubFile = 3
  SubAncestors = {}
  Records <- MCRecords
  Items <- MCItems
  Contents <- MCContents
  Worlds <- MCWorlds
INVARIANTS
  StatusSettles
  SecondPushIdle
  NewerBackupKept
  ConflictsWarned
