\* Two leaves, three ticks, two mishaps: every mix of pushes, fair in the end.
CONSTANTS
  N = 2
  MaxClock = 3
  MaxMishaps = 2
  Pushes <- MCMixed
  SizeOf <- MCSizeOf
  None = None
  Window = 0
  NoMtime = NoMtime
  LinkMtimes = TRUE
  OwnerWriteOnly = FALSE
  Writable = {"rw"}
SPECIFICATION FairSpec
INVARIANTS FailOld RunSettles
PROPERTIES PublishedLast ConsentedLosses Converges
