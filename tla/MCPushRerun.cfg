\* push -u, cut off and run again: expected to be violated.
\* A push without --delete refuses a change of kind, so all may stop.
CONSTANTS
  N = 2
  MaxClock = 3
  MaxMishaps = 1
  Pushes <- MCNewer
  SizeOf <- MCSizeOf
  None = None
  Window = 0
  NoMtime = NoMtime
  LinkMtimes = TRUE
  OwnerWriteOnly = FALSE
  Writable = {"rw"}
SPECIFICATION Spec
CHECK_DEADLOCK FALSE
INVARIANT RerunSettles
