\* One to three entries: the questions, the batches, q, Ctrl-C and the exit code.
\* The process exits, so all may stop.
SPECIFICATION FairSpec
CHECK_DEADLOCK FALSE
CONSTANTS
  Workers = 2
  Batch = 2
  None = None
  Requests <- MCRequests
INVARIANTS
  IInv
  ExitTells
PROPERTIES
  AbortIsFinal
  CommandEnds
