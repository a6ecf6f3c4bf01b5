\* A daemon that never fails a call, and a deadline that passes in flight.
SPECIFICATION Spec
CONSTANTS
  j1 = j1
  j2 = j2
  Jobs = {j1}
  NoJob = NoJob
  ExitCodes = {0}
  MaxOutputBytes = 1
  MaxOutput = 1
  MaxFailures = 0
CHECK_DEADLOCK FALSE
INVARIANTS
  NoContainerLeft
