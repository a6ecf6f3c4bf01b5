\* One process, one submission and a signal.
SPECIFICATION Spec
CONSTANTS
  Jobs = {j1}
  NoJob = NoJob
  Requests = {r1}
  MaxBoots = 1
CHECK_DEADLOCK FALSE
INVARIANTS
  CleanAfterShutdown
