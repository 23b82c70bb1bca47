\* A directory record is asked about while a record beneath it survives.
SPECIFICATION Spec
CONSTANTS
  content = content
  None = None
  NoMtime = NoMtime
  SizeOf <- MCSizeOf
  Window = 0
  LinkMtimes = TRUE
  OwnerWriteOnly = FALSE
  Writable = {"rw"}
  N = 7
  DirKeys = {1, 2, 4}
  LastBeneath <- MCLast
  SubDir = 4
  SubFile = 3
  SubAncestors = {2}
  Records <- MCRecords
  Items <- MCItems
  Contents = {content}
  Worlds <- MCWorlds
INVARIANT
  StrictPostOrder
