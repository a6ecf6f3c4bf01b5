\* Two jobs through one slot, with at most one daemon fault each and without
\* output: what one job may leave behind for the next.
SPECIFICATION Spec
CONSTANTS
  j1 = j1
  j2 = j2
  Jobs <- TwoJobs
  NoJob = NoJob
  ExitCodes = {0, 1}
  MaxOutputBytes = 1
  MaxOutput = 0
  MaxFailures = 1
SYMMETRY JobSymmetry
CHECK_DEADLOCK FALSE
INVARIANTS
  TypeOK
  OneJobAtATime
  DoneIsFinal
  LeakNeedsFailure
  OneContainerRunning
PROPERTIES
  ImplementsSlot
