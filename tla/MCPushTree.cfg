\* Pushes of an entry and of a sub-path: the cursor, the frames, the gap.
SPECIFICATION Spec
CONSTANTS
  content = content
  None = None
  NoMtime = NoMtime
  SizeOf <- MCSizeOf
  Window = 0
  LinkMtimes = TRUE
  OwnerWriteOnly = FALSE
  Writable = {"rw"}
  N = 7
  DirKeys = {1, 2, 4}
  LastBeneath <- MCLast
  SubDir = 4
  SubFile = 3
  SubAncestors = {2}
  Records <- MCRecords
  Items <- MCItems
  Contents = {content}
  Worlds <- MCWorlds
INVARIANTS
  MergeAccepts
  HiddenSurvives
  TravelTogether
  PostOrder
  IInv
  Confirmed
  NoEventNoChange
  CandidatesAccounted
  RecordsBacked
  SubPathConfined
PROPERTIES
  JournalAscends
  GapFreezesDeletes
